------------------------------- MODULE Peers --------------------------------
(* The window manager and the programs it talks to, each with its queue of  *)
(* messages: the decorator, whose frames the user points and clicks at, the *)
(* clients, which may hang, recover or die, launchers of programs, and the  *)
(* session manager.  The X server delivers pointer events to the decorator  *)
(* by its rules of grabs.                                                   *)
EXTENDS Frames, FiniteSets, SequencesExt

CONSTANTS Pings, Deletes,   \* windows by the protocols of their clients
          Output,           \* windows with an output frame
          Starts,           \* programs that are started
          Argvs,            \* command lines
          MouseButton,      \* buttons that are pressed
          Place,            \* places of a decoration the pointer goes to
          Budgets,          \* how often the user and the peers act, and whether
                            \* clients are pinged; whether launchers and a
                            \* session manager take part
          MaxQueue          \* messages in a queue before pings pause

ASSUME PeersAssumption ==
    /\ Pings \subseteq Window /\ Deletes \subseteq Window /\ Output \subseteq Window
    /\ MaxQueue \in Nat \ {0} /\ Dock \cap Window = {}

M == INSTANCE Clients

VARIABLES gwd,     \* the decorator
          core,    \* the window manager
          sess,    \* its connection with the session manager
          ptr,     \* pointer, held button and grab
          world,   \* clients, launchers, and what windows are like
          toCore, toGwd,
          left     \* what remains of the budget

vars == <<gwd, core, sess, ptr, world, toCore, toGwd, left>>

Nowhere == [win |-> None, place |-> None]
NoPress == [at |-> None, old |-> {}]

Facts(w) == [shaded |-> FALSE, wide |-> TRUE, hinted |-> TRUE,
             mode |-> IF w \in Output THEN "output" ELSE "input"]

Init ==
    /\ world = [client |-> [w \in Window |-> "well"], pings |-> [w \in Window |-> 0],
                facts |-> [w \in Window |-> Facts(w)], missed |-> [w \in Window |-> FALSE],
                dismissed |-> [w \in Window |-> FALSE], revived |-> [w \in Window |-> FALSE],
                launched |-> [s \in Starts |-> "no"],
                asked |-> <<>>, saves |-> 0]
    /\ gwd = [NewProgram EXCEPT !.win = [w \in Window |->
                 [NewFrame EXCEPT !.known = TRUE, !.mode = Facts(w).mode, !.decorated = TRUE]]]
    /\ core = [M!NewManager EXCEPT !.win = [w \in Window |-> M!Map(M!NewManager, w).win[w]]]
    /\ ptr = [at |-> Nowhere, held |-> 0, grab |-> None, press |-> NoPress]
    /\ toCore = <<>> /\ toGwd = <<>>
    /\ left \in Budgets
    /\ IF ~left.session THEN sess = M!NewSession
       ELSE \E argv \in Argvs : sess = M!SessionInit([M!NewSession EXCEPT !.argv = argv], "id2", "id1")

UserActs == left.user > 0 /\ left' = [left EXCEPT !.user = @ - 1]
PeerActs == left.peers > 0 /\ left' = [left EXCEPT !.peers = @ - 1]

(* A client is gone: the server destroys its window.                        *)
Killed(m) == {w \in Window : <<"kill", w, "dialog">> \in ToSet(m) \/ <<"kill", w>> \in ToSet(m)}
Gone(W, K) ==
    [W EXCEPT !.client = [w \in Window |-> IF w \in K THEN "gone" ELSE @[w]],
              !.pings = [w \in Window |-> IF w \in K THEN 0 ELSE @[w]]]
Destroys(K) == SetToSeq({<<"destroyed", w>> : w \in K})

(* The decorator handled an event; G is its new state, g the grab then.     *)
Decorated(G, W) ==
    /\ gwd' = [G EXCEPT !.out = <<>>]
    /\ world' = Gone(W, {w \in Killed(G.out) : W.client[w] # "gone"})
    /\ toCore' = toCore \o SelectSeq(G.out, LAMBDA m : m[1] # "kill")
                        \o Destroys({w \in Killed(G.out) : W.client[w] # "gone"})

(* The window manager handled an event with new state C.                    *)
Ping(n) == IF n = 2 THEN 2 ELSE n + 1
Managed(C, q) ==
    LET sent == ToSet(C.sent)
        dead == {w \in Killed(C.sent) : world.client[w] # "gone"}
        Pinged(W) == [W EXCEPT !.pings = [w \in Window |->
                         IF <<"ping", w>> \in sent /\ W.client[w] # "gone" THEN Ping(@[w]) ELSE @[w]]]
        done == {s \in Starts : <<"completed", s>> \in sent /\ world.launched[s] \in {"initiated", "canceled"}}
        Done(W) == [W EXCEPT !.launched = [s \in Starts |-> IF s \in done THEN "completed" ELSE @[s]]]
    IN  /\ core' = [C EXCEPT !.out = <<>>, !.sent = <<>>]
        /\ toGwd' = toGwd \o C.out
        /\ toCore' = q \o Destroys(dead) \o SetToSeq({<<"sn", "completed", s>> : s \in done})
        /\ world' = Done(Pinged(Gone(world, dead)))

-----------------------------------------------------------------------------
(* How the X server delivers pointer events.                                *)

Event(type) == [type |-> type, num |-> 0, active |-> TRUE, soon |-> FALSE]
Over(F, p) == IF p.win = None THEN None ELSE At(F, p.win, p.place)
IsInput(F, p) == p.win # None /\ D(F, p.win).mode = "input" /\ Over(F, p) # None
IsOutput(F, p) == p.win # None /\ D(F, p.win).mode = "output"

(* An enter or leave event for the X window at p, unless a grab keeps it.   *)
Cross(F, p, grab, e) ==
    IF IsInput(F, p) /\ grab \in {None, <<p.win, Over(F, p)>>}
    THEN InputEvent(F, p.win, Over(F, p), e) ELSE F
Enter(F, p, grab, active) == Cross(F, p, grab, [Event("enter") EXCEPT !.active = active])
Leave(F, p, grab) == Cross(F, p, grab, Event("leave"))

(* The widget of an output frame hears of motion inside it, and anywhere    *)
(* while it has the grab; a menu keeps motion from it.                      *)
Follow(F, p, grab, active) ==
    LET w == IF grab # None /\ grab[2] = "frame" THEN grab[1] ELSE p.win
        place == IF p.win = w THEN p.place ELSE None
        heard == w # None /\ D(F, w).mode = "output" /\ ~F.menu.mapped
                 /\ (grab = None \/ grab = <<w, "frame">>)
    IN  IF heard THEN OutputMotion(F, w, place, [Event("enter") EXCEPT !.active = active]) ELSE F

(* The windows under the pointer changed between F and G.                   *)
Rehover(F, G) ==
    LET p == ptr.at
        Left(H) == IF IsInput(F, p) /\ D(H, p.win).mode = "input"
                   THEN InputEvent(H, p.win, Over(F, p), Event("leave")) ELSE H
    IN  IF Over(F, p) = Over(G, p) \/ ptr.grab = <<"core", "core">> THEN G
        ELSE Enter(Left(G), p, None, TRUE)
Placed(F, w) == {At(F, w, place) : place \in Place}
KeptGrab(G) ==
    IF \E w \in Window : /\ ptr.grab # None /\ ptr.grab[1] = w
                         /\ ptr.grab[2] \notin Placed(G, w) \cup {"frame"}
    THEN None
    ELSE IF \E w \in Window : ptr.grab = <<w, "frame">> /\ D(G, w).mode # "output" THEN None
    ELSE ptr.grab

(* A grab that ended: the window under the pointer is entered.              *)
Released(G, p, grab) ==
    IF ptr.grab # None /\ grab = None THEN Enter(G, p, None, TRUE) ELSE G

(* What the flags of the buttons of w should be, and the windows whose      *)
(* flags were allowed to differ by an event that was not sent to them.      *)
Hovered(G, p, grab, w) ==
    IF p.win = w /\ Over(G, p) \in Button /\ grab \in {None, <<w, Over(G, p)>>, <<w, "frame">>}
    THEN {Over(G, p)} ELSE {}
In(G, w) == {b \in Button : "in" \in D(G, w).st[b]}
Behind(G, p, grab, w) ==
    \/ In(G, w) # Hovered(G, p, grab, w)
    \/ D(G, w).mode = "output" /\ D(G, w).entered # (IF p.win = w THEN Over(G, p) ELSE None)
    \/ \E t \in {G.tip.due, G.tip.shown} \ {None} : t[1] = w /\ t[2] \notin In(G, w)
Unseen(W, G, p, grab, blind) ==
    [W EXCEPT !.missed = [w \in Window |-> Behind(G, p, grab, w) /\ (@[w] \/ w \in blind)]]

(* Windows that hear nothing of the pointer, and, when it leaves an output  *)
(* frame or a grab ends over one, that one.                                 *)
Deaf(F) == {w \in Window : ~D(F, w).decorated \/ D(F, w).mode = "none" \/ F.menu.mapped}
Blind(F, p) == Deaf(F) \cup {w \in Window : p.win = w /\ IsOutput(F, p)}

-----------------------------------------------------------------------------
(* The user at the pointer.                                                 *)

Moved(q, active) ==
    Follow(Enter(Leave(gwd, ptr.at, ptr.grab), q, ptr.grab, active), q, ptr.grab, active)
PointerMoves ==
    \E w \in Window, place \in Place \cup {None}, active \in BOOLEAN :
        LET q == IF place = None THEN Nowhere ELSE [win |-> w, place |-> place]
            G == IF ptr.grab = <<"core", "core">> THEN gwd ELSE Moved(q, active)
            held == {w2 \in Output : ptr.grab \notin {None, <<w2, "frame">>}}
            blind == held \cup (IF q.win # ptr.at.win THEN Blind(gwd, ptr.at) ELSE Deaf(gwd))
        IN  /\ UserActs
            /\ q # ptr.at /\ (q.win # None => core.win[w].viewable)
            /\ Decorated(G, Unseen(world, G, q, ptr.grab, blind))
            /\ ptr' = [ptr EXCEPT !.at = q]
            /\ UNCHANGED <<core, sess, toGwd>>

Pressed(F) == {<<w, b>> \in Window \X Button : "pressed" \in D(F, w).st[b]}
Asks(G, x) == \E k \in DOMAIN G.out : G.out[k][1] = x

(* A press: an input window under the pointer gets it, the widget of an     *)
(* output frame unless a menu is up, which goes down; the server then grabs *)
(* the pointer, unless the decorator gave that up for a move or a menu.     *)
PressOn(n, soon) ==
    LET e == [Event("press") EXCEPT !.num = n, !.soon = soon]
        p == ptr.at
    IN  IF IsInput(gwd, p) THEN InputEvent(gwd, p.win, Over(gwd, p), e)
        ELSE IF gwd.menu.mapped THEN ActionMenuUnmap(gwd)
        ELSE IF IsOutput(gwd, p) THEN OutputButton(gwd, p.win, p.place, e)
        ELSE gwd
GrabAfter(G) ==
    LET p == ptr.at
    IN  IF Asks(G, "move") \/ G.menu.mapped \/ gwd.menu.mapped THEN None
        ELSE IF IsInput(gwd, p) THEN <<p.win, Over(gwd, p)>>
        ELSE IF IsOutput(gwd, p) THEN <<p.win, "frame">> ELSE None
(* The menu takes the pointer from the window under it and gives it back.   *)
MenuGrab(F, G) ==
    IF G.menu.mapped /\ ~F.menu.mapped THEN Leave(G, ptr.at, None)
    ELSE IF F.menu.mapped /\ ~G.menu.mapped THEN Enter(G, ptr.at, None, TRUE)
    ELSE G
ButtonPress ==
    \E n \in MouseButton, soon \in BOOLEAN :
        LET G == MenuGrab(gwd, PressOn(n, soon))
        IN  /\ UserActs /\ ptr.held = 0 /\ ptr.grab = None
            /\ soon => gwd.click # NoClick
            /\ Decorated(G, Unseen(world, G, ptr.at, GrabAfter(G), Blind(gwd, ptr.at) \cup Blind(G, ptr.at)))
            /\ ptr' = [ptr EXCEPT !.held = n, !.grab = GrabAfter(G),
                          !.press = [at |-> IF Over(gwd, ptr.at) = None THEN None
                                            ELSE <<ptr.at.win, Over(gwd, ptr.at)>>,
                                     old |-> Pressed(gwd)]]
            /\ UNCHANGED <<core, sess, toGwd>>

ReleaseOn ==
    LET e == [Event("release") EXCEPT !.num = ptr.held]
        p == ptr.at
    IN  IF ptr.grab = <<"core", "core">> THEN gwd
        ELSE IF ptr.grab # None /\ ptr.grab[2] # "frame"
        THEN InputEvent(gwd, ptr.grab[1], ptr.grab[2], e)
        ELSE IF ptr.grab # None
        THEN OutputButton(gwd, ptr.grab[1], IF p.win = ptr.grab[1] THEN p.place ELSE None, e)
        ELSE IF IsInput(gwd, p) THEN InputEvent(gwd, p.win, Over(gwd, p), e)
        ELSE IF IsOutput(gwd, p) /\ ~gwd.menu.mapped THEN OutputButton(gwd, p.win, p.place, e)
        ELSE gwd
Ungrabbed == IF ptr.grab \in {None, <<ptr.at.win, Over(gwd, ptr.at)>>} THEN ReleaseOn
             ELSE Enter(ReleaseOn, ptr.at, None, TRUE)
ButtonRelease ==
    /\ ptr.held # 0
    /\ Decorated(Ungrabbed, Unseen(world, Ungrabbed, ptr.at, None, Blind(gwd, ptr.at)))
    /\ ptr' = [ptr EXCEPT !.held = 0, !.grab = None, !.press = NoPress]
    /\ UNCHANGED <<core, sess, toGwd, left>>

WheelTurns ==
    \E up \in BOOLEAN :
        /\ UserActs /\ Over(gwd, ptr.at) = "title" /\ D(gwd, ptr.at.win).decorated
        /\ ptr.grab = None /\ ptr.held = 0
        /\ Decorated(Wheel(gwd, ptr.at.win, up), world)
        /\ UNCHANGED <<core, sess, ptr, toGwd>>

(* The decorator's timer of tooltips; a choice, or none, in its menu.       *)
TooltipDue ==
    /\ gwd.tip.due # None
    /\ Decorated(TooltipTimeout(gwd), world)
    /\ UNCHANGED <<core, sess, ptr, toGwd, left>>
MenuClosed ==
    LET G == MenuGrab(gwd, ActionMenuUnmap(gwd))
    IN  /\ gwd.menu.mapped
        /\ Decorated(G, Unseen(world, G, ptr.at, ptr.grab, Blind(gwd, ptr.at) \cup Blind(G, ptr.at)))
        /\ UNCHANGED <<core, sess, ptr, toGwd, left>>
DialogAnswered ==
    \E w \in Window, accept \in BOOLEAN :
        /\ PeerActs /\ D(gwd, w).dialog
        /\ Decorated(ForceQuitResponse(gwd, w, accept), [world EXCEPT !.dismissed[w] = TRUE, !.revived[w] = FALSE])
        /\ UNCHANGED <<core, sess, ptr, toGwd>>

-----------------------------------------------------------------------------
(* What changes about windows, and the keys of the window manager.          *)

FactChanges(w, m, f) ==
    /\ world.client[w] # "gone"
    /\ world' = [world EXCEPT !.facts[w] = f]
    /\ toGwd' = Append(toGwd, <<m, w>>)
    /\ UNCHANGED <<gwd, core, sess, ptr, toCore>>
WindowChanges ==
    \E w \in Window :
        LET f == world.facts[w]
        IN  /\ UserActs
            /\ \/ FactChanges(w, "geometry", [f EXCEPT !.wide = ~@])
               \/ FactChanges(w, "hints", [f EXCEPT !.hinted = ~@])
               \/ FactChanges(w, "frame", [f EXCEPT !.mode = IF @ = "none" THEN Facts(w).mode ELSE "none"])

CloseKey ==
    \E w \in Window :
        /\ PeerActs /\ core.win[w].viewable /\ ~sess.exited
        /\ Managed(M!Close(core, w), toCore)
        /\ UNCHANGED <<gwd, sess, ptr>>
MenuKey ==
    \E w \in {v \in Window : core.win[v].viewable} \cup Dock :
        /\ PeerActs /\ ~sess.exited
        /\ toGwd' = Append(toGwd, <<"menu", w>>)
        /\ UNCHANGED <<gwd, core, sess, ptr, world, toCore>>
TransientChanges ==
    \E w \in Window :
        /\ PeerActs /\ world.client[w] # "gone"
        /\ core' = [core EXCEPT !.win[w].transient = ~@]
        /\ UNCHANGED <<gwd, sess, ptr, world, toCore, toGwd>>
MinimizeKey ==
    \E w \in Window :
        /\ PeerActs /\ core.win[w].viewable /\ ~sess.exited
        /\ toCore' = Append(toCore, <<"state", w, "min">>)
        /\ UNCHANGED <<gwd, core, sess, ptr, world, toGwd>>
WindowRestored ==
    \E w \in Window :
        /\ PeerActs /\ world.client[w] # "gone" /\ ~core.win[w].viewable /\ ~sess.exited
        /\ core' = M!Map(core, w)
        /\ world' = [world EXCEPT !.revived[w] = @ \/ ~core.win[w].alive]
        /\ UNCHANGED <<gwd, sess, ptr, toCore, toGwd>>

-----------------------------------------------------------------------------
(* Clients, launchers and the session manager.                              *)

ClientChanges ==
    \E w \in Window :
        /\ PeerActs
        /\ \/ /\ world.client[w] = "well"
              /\ world' = [world EXCEPT !.client[w] = "hung"]
              /\ UNCHANGED toCore
           \/ /\ world.client[w] = "hung"
              /\ world' = [world EXCEPT !.client[w] = "well"]
              /\ UNCHANGED toCore
           \/ /\ world.client[w] # "gone"
              /\ world' = Gone(world, {w})
              /\ toCore' = Append(toCore, <<"destroyed", w>>)
        /\ UNCHANGED <<gwd, core, sess, ptr, toGwd>>
ClientAnswers ==
    \E w \in Window :
        /\ world.client[w] = "well" /\ world.pings[w] > 0
        /\ world' = [world EXCEPT !.pings[w] = @ - 1]
        /\ toCore' = Append(toCore, <<"pong", w>>)
        /\ UNCHANGED <<gwd, core, sess, ptr, toGwd, left>>

Launcher ==
    \E s \in Starts, type \in {"initiated", "changed", "canceled", "completed"} :
        /\ PeerActs /\ left.session
        /\ world.launched[s] = (IF type = "initiated" THEN "no" ELSE "initiated")
        /\ world' = IF type = "changed" THEN world ELSE [world EXCEPT !.launched[s] = type]
        /\ toCore' = Append(toCore, <<"sn", type, s>>)
        /\ UNCHANGED <<gwd, core, sess, ptr, toGwd>>

SessionAsks ==
    \E m \in {"save", "die", "complete", "cancelled"} :
        /\ PeerActs /\ sess.connected /\ "die" \notin ToSet(world.asked)
        /\ world' = [world EXCEPT !.asked = Append(@, m),
                                  !.saves = @ + (IF m = "save" THEN 1 ELSE 0)]
        /\ UNCHANGED <<gwd, core, sess, ptr, toCore, toGwd>>

-----------------------------------------------------------------------------
(* The programs take their messages and their timers.                       *)

(* A request of a pager or of the decorator that changes a window.          *)
Changed(w, x, q) ==
    LET f == [world.facts[w] EXCEPT !.shaded = IF x = "shade" THEN TRUE
                                               ELSE IF x = "unshade" THEN FALSE ELSE @]
        there == ptr.at.win = w
        away == x = "min"
        p == IF away /\ there THEN Nowhere ELSE ptr.at
        g == IF away /\ ptr.grab # None /\ ptr.grab[1] = w THEN None ELSE ptr.grab
        G == Released(IF away /\ there THEN Leave(gwd, ptr.at, ptr.grab) ELSE gwd, p, g)
        Seen(W) == Unseen(W, G, p, g, IF away THEN {w} \cup Output ELSE {})
    IN  /\ toCore' = q
        /\ gwd' = G
        /\ ptr' = [ptr EXCEPT !.at = p, !.grab = g]
        /\ world' = Seen([world EXCEPT !.facts[w] = f])
        /\ toGwd' = Append(toGwd, <<"state", w>>)
        /\ core' = IF away THEN [core EXCEPT !.win[w].viewable = FALSE] ELSE core

(* A move: the window manager takes the pointer while a button is down.     *)
MoveStarts(q) ==
    LET G == Leave(gwd, ptr.at, ptr.grab)
        takes == ptr.held # 0 /\ ptr.grab = None /\ ~gwd.menu.mapped
    IN  /\ toCore' = q
        /\ IF takes THEN gwd' = G /\ ptr' = [ptr EXCEPT !.grab = <<"core", "core">>]
           ELSE UNCHANGED <<gwd, ptr>>
        /\ world' = IF takes THEN Unseen(world, G, ptr.at, <<"core", "core">>, Blind(gwd, ptr.at))
                    ELSE world
        /\ UNCHANGED <<core, toGwd>>

(* A window that is gone is let go of.                                      *)
WindowGone(w, q) ==
    LET p == IF ptr.at.win = w THEN Nowhere ELSE ptr.at
        g == IF ptr.grab # None /\ ptr.grab[1] = w THEN None ELSE ptr.grab
        G == Released(gwd, p, g)
    IN  /\ core' = [core EXCEPT !.win[w] = M!NewWindow]
        /\ toGwd' = Append(toGwd, <<"closed", w>>)
        /\ toCore' = q
        /\ ptr' = [ptr EXCEPT !.at = p, !.grab = g]
        /\ gwd' = G
        /\ world' = Unseen(world, G, p, g, {w} \cup Output)

CoreHandles ==
    /\ toCore # <<>> /\ ~sess.exited
    /\ LET m == Head(toCore)
           q == Tail(toCore)
           known == m[2] \notin Window \/ core.win[m[2]].viewable
       IN  CASE m[1] = "close" -> Managed(M!Close(core, m[2]), q) /\ UNCHANGED <<gwd, ptr>>
             [] m[1] = "pong" -> Managed(M!HandlePing(core, m[2]), q) /\ UNCHANGED <<gwd, ptr>>
             [] m[1] = "sn" -> Managed(M!SnEvent(core, m[2], m[3]), q) /\ UNCHANGED <<gwd, ptr>>
             [] m[1] = "state" /\ known -> Changed(m[2], m[3], q)
             [] m[1] = "move" /\ known -> MoveStarts(q)
             [] m[1] = "destroyed" -> WindowGone(m[2], q)
             [] OTHER -> Managed(core, q) /\ UNCHANGED <<gwd, ptr>>
    /\ UNCHANGED <<sess, left>>

GwdHandles(m) ==
    CASE m[1] \in {"dialog", "menu"} -> ToolkitAction(gwd, m)
      [] m[1] = "state" -> StateChanged(gwd, m[2], world.facts[m[2]])
      [] m[1] = "geometry" -> GeometryChanged(gwd, m[2], world.facts[m[2]])
      [] m[1] = "hints" -> IF D(gwd, m[2]).known THEN HintsChanged(gwd, m[2], world.facts[m[2]]) ELSE gwd
      [] m[1] = "frame" -> IF ~D(gwd, m[2]).known THEN gwd
                           ELSE IF world.facts[m[2]].mode = "none" THEN RemoveFrameWindow(gwd, m[2])
                           ELSE AddFrameWindow(gwd, m[2], world.facts[m[2]].mode, world.facts[m[2]])
      [] m[1] = "closed" -> WindowClosed(gwd, m[2])
DecoratorHandles ==
    /\ toGwd # <<>>
    /\ LET m == Head(toGwd)
           H == Rehover(gwd, GwdHandles(m))
           G == MenuGrab(gwd, Released(H, ptr.at, KeptGrab(H)))
           lost == {w \in Window : D(gwd, w).dialog /\ ~D(G, w).dialog}
           W == [world EXCEPT !.revived = [w \in Window |-> @[w] /\ w \notin lost],
                              !.dismissed = [w \in Window |->
                    IF m = <<"dialog", w, TRUE>> THEN ~D(G, w).dialog
                    ELSE IF m = <<"dialog", w, FALSE>> THEN FALSE
                    ELSE @[w] \/ w \in lost]]
       IN  /\ Decorated(G, Unseen(W, G, ptr.at, KeptGrab(G), Window))
           /\ ptr' = [ptr EXCEPT !.grab = IF G.menu.mapped /\ ~gwd.menu.mapped THEN None ELSE KeptGrab(G)]
    /\ toGwd' = Tail(toGwd)
    /\ UNCHANGED <<core, sess, left>>

Room == Len(toCore) < MaxQueue /\ Len(toGwd) < MaxQueue
PingTimeout ==
    /\ left.pings /\ ~sess.exited /\ Room
    /\ Managed(M!HandlePingTimeout(core), toCore)
    /\ UNCHANGED <<gwd, sess, ptr, left>>

(* A quarter of a minute passes for a sequence; the timer of sequences.     *)
SequenceAges ==
    \E k \in DOMAIN core.seqs :
        /\ ~core.seqs[k].old /\ ~sess.exited
        /\ core' = [core EXCEPT !.seqs[k].old = TRUE]
        /\ UNCHANGED <<gwd, sess, ptr, world, toCore, toGwd, left>>
SequencesDue ==
    /\ core.timer /\ ~sess.exited
    /\ M!StartupTimeout(core) # core
    /\ Managed(M!StartupTimeout(core), toCore)
    /\ UNCHANGED <<gwd, sess, ptr, left>>

SessionHandles ==
    /\ world.asked # <<>> /\ ~sess.exited
    /\ sess' = LET m == Head(world.asked)
               IN  CASE m = "save" -> M!SaveYourself(sess)
                     [] m = "die" -> M!Die(sess)
                     [] m = "complete" -> M!SaveComplete(sess)
                     [] m = "cancelled" -> M!ShutdownCancelled(sess)
    /\ world' = [world EXCEPT !.asked = Tail(@)]
    /\ core' = IF sess'.exited THEN M!RemoveAllSequences(core) ELSE core
    /\ UNCHANGED <<gwd, ptr, toCore, toGwd, left>>

Next ==
    \/ PointerMoves \/ ButtonPress \/ ButtonRelease \/ WheelTurns
    \/ TooltipDue \/ MenuClosed \/ DialogAnswered
    \/ WindowChanges \/ CloseKey \/ MenuKey \/ TransientChanges
    \/ MinimizeKey \/ WindowRestored
    \/ ClientChanges \/ ClientAnswers \/ Launcher \/ SessionAsks
    \/ CoreHandles \/ DecoratorHandles \/ PingTimeout
    \/ SequenceAges \/ SequencesDue \/ SessionHandles

(* Time passes, timers run and the queues are read; nothing else is owed.   *)
PingTells ==
    \E w \in Window :
        \/ core.win[w].answered
        \/ /\ M!Pinged(core, w)
           /\ core.win[w].alive \/ (world.pings[w] < 2 /\ world.client[w] # "gone")
PingsGoOn == []<>~(left.pings /\ ~sess.exited /\ Room /\ PingTells) \/ []<><<PingTimeout>>_vars
SequencesGoOn ==
    /\ []<>~(core.timer /\ ~sess.exited /\ \E k \in DOMAIN core.seqs : core.seqs[k].old)
       \/ []<><<SequencesDue>>_vars
    /\ []<>~(~sess.exited /\ \E k \in DOMAIN core.seqs : ~core.seqs[k].old)
       \/ []<><<SequenceAges>>_vars
QueuesAreRead ==
    /\ []<>~(toCore # <<>> /\ ~sess.exited) \/ []<><<CoreHandles>>_vars
    /\ []<>~(toGwd # <<>>) \/ []<><<DecoratorHandles>>_vars
Spec == Init /\ [][Next]_vars /\ PingsGoOn /\ SequencesGoOn /\ QueuesAreRead

-----------------------------------------------------------------------------
(* Properties.                                                              *)

(* A button of a decoration acts only when the mouse button went down on it *)
(* and comes up on it.  A button that kept the look of being pressed from a *)
(* press that ended elsewhere needs no press of its own.                    *)
ClicksAct ==
    [][\A k \in DOMAIN toCore' :
          ptr.held # 0 /\ ptr'.held = 0 /\ k > Len(toCore) =>
              LET cb == <<toCore'[k][2], toCore'[k][3]>>
              IN  /\ ptr.press.at = cb \/ cb \in ptr.press.old
                  /\ <<ptr.at.win, Over(gwd, ptr.at)>> = cb]_vars

(* Whatever the pointer crosses, the buttons that look entered and the one  *)
(* whose tooltip is shown or due are those under the pointer, but for       *)
(* windows that an event of the pointer never reached.                      *)
HoversAgree == \A w \in Window : Behind(gwd, ptr.at, ptr.grab, w) => world.missed[w]

(* The offer to kill a client is made when, and only while, a client that   *)
(* was asked to close does not answer, unless the user turned it down or    *)
(* the frame went; a window that was mapped again in between keeps it (see  *)
(* revived).  Only a client that owes an answer is taken for dead.          *)
DialogsAgree ==
    \A w \in Window :
        LET c == core.win[w]
            seen == toGwd = <<>> /\ world.client[w] # "gone" /\ ~sess.exited
        IN  /\ seen /\ D(gwd, w).dialog => ~c.alive \/ world.revived[w]
            /\ seen /\ ~c.alive /\ c.lastCloseRequest => D(gwd, w).dialog \/ world.dismissed[w]
            /\ ~c.alive => \/ world.pings[w] > 0 \/ world.client[w] = "gone"
                           \/ <<"pong", w>> \in ToSet(toCore)

(* The busy cursor is shown, and the timer runs, while a program starts,    *)
(* and each one that starts is listed once and was announced.               *)
StartupsAgree ==
    /\ core.busy = (core.seqs # <<>>) /\ core.timer = core.busy
    /\ \A j, k \in DOMAIN core.seqs : core.seqs[j].id = core.seqs[k].id => j = k
    /\ \A k \in DOMAIN core.seqs :
          \/ world.launched[core.seqs[k].id] \in {"initiated", "canceled"}
          \/ <<"sn", "completed", core.seqs[k].id>> \in ToSet(toCore)

(* The session can start this program again, once, as the client it is: the *)
(* registered command has its id and no other and does not replace another  *)
(* window manager; every save is answered; a program told to die is left in *)
(* peace.                                                                   *)
SessionAgrees ==
    LET count(x) == Cardinality({k \in DOMAIN sess.restart : sess.restart[k] = x})
        queued(m) == Cardinality({k \in DOMAIN world.asked : world.asked[k] = m})
    IN  /\ sess.connected => /\ sess.style = "immediately" /\ sess.watches = 1
                             /\ count("--sm-client-id") = 1 /\ count(M!ClientId(sess)) = 1
                             /\ count("--replace") = 0 /\ count("old") = 0
                             /\ SelectSeq(sess.restart, LAMBDA x : x \in {"compiz", "ccp", "move"})
                                = SelectSeq(sess.argv, LAMBDA x : x \in {"compiz", "ccp", "move"})
        /\ sess.done + queued("save") = world.saves
        /\ sess.exited => sess.style = "ifRunning" /\ sess.watches = 0 /\ core.seqs = <<>>
RecordsAgree == StartupsAgree /\ SessionAgrees

(* A client that hangs when it is asked to close is offered to be killed,   *)
(* and the busy cursor of a program that never says that it started ends.   *)
Waits(w) == core.win[w].closeRequests /\ world.client[w] = "hung"
Excused(w) == ~M!Pinged(core, w) \/ world.client[w] # "hung" \/ ~D(gwd, w).known
              \/ sess.exited \/ ~left.pings
EverAnswered ==
    /\ \A w \in Window : Waits(w) ~> (D(gwd, w).dialog \/ world.dismissed[w] \/ Excused(w))
    /\ \A s \in Starts : world.launched[s] # "no" ~> (~core.busy \/ \A k \in DOMAIN core.seqs : core.seqs[k].id # s)

(* What the programs keep of each other agrees.                             *)
PeersAgree == DialogsAgree /\ RecordsAgree
=============================================================================
