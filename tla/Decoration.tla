---------------------------- MODULE Decoration -----------------------------
(* The decor plugin and gtk-window-decorator at work on the same windows:   *)
(* each reacts to properties the other sets, through its own queue of       *)
(* events, while clients map, hint, resize, withdraw and destroy windows,   *)
(* the user maximizes, shades and focuses them, and the decorator is        *)
(* started, killed or replaced.                                             *)
EXTENDS Decor

CONSTANTS MaxOps, MaxHolds, MaxRefused

VARIABLES win, scr, srv, gwd, toCompiz, toGwd, ops

vars == <<win, scr, srv, gwd, toCompiz, toGwd, ops>>

Now == [win |-> win, scr |-> scr, srv |-> srv, gwd |-> gwd,
        toCompiz |-> toCompiz, toGwd |-> toGwd]
Become(T) ==
    /\ win' = T.win
    /\ scr' = T.scr
    /\ srv' = T.srv
    /\ gwd' = T.gwd
    /\ toCompiz' = T.toCompiz
    /\ toGwd' = T.toGwd

(* What clients, the user and the session do, MaxOps times in a behaviour.  *)
Operate(T) == ops < MaxOps /\ ops' = ops + 1 /\ Become(T)
Step(T) == Become(T) /\ UNCHANGED ops

NewWindow ==
    [known |-> TRUE, managed |-> FALSE, placed |-> FALSE, frame |-> FALSE,
     viewable |-> FALSE, unmanaging |-> FALSE, refs |-> 0, shaded |-> FALSE,
     max |-> FALSE, small |-> FALSE, mwm |-> TRUE, top |-> 0, y |-> 0, home |-> 0,
     saved |-> FALSE, saveY |-> 0, wd |-> NoId, decor |-> NoId, input |-> 0, output |-> 0,
     failed |-> FALSE, shading |-> FALSE, sizeTimer |-> FALSE, moveTimer |-> FALSE,
     moveY |-> 0, raced |-> FALSE]

Slots == (Kinds \cup Window) \X (1 .. 5)
Ids == Slots \cup {DefaultId, NoId}
Pixmaps == (Window \X (1 .. 3)) \cup (Kinds \X {1, 2})

(* The session starts both programs: the decorator has set its properties,  *)
(* the compositor has yet to look at them.                                  *)
Initial(cm) ==
    [win |-> [w \in Window |-> NewWindow],
     scr |-> [cmActive |-> cm, refused |-> 0, dm |-> 0, supports |-> {}, active |-> None,
              frames |-> {}, lost |-> {}, decor |-> [k \in Kinds |-> NoId],
              tex |-> [p \in Pixmaps |-> 0],
              heap |-> [i \in Ids |-> IF i = DefaultId THEN [val |-> WindowDefault, ref |-> 1]
                                      ELSE [val |-> NoProp, ref |-> 0]]],
     srv |-> [dm |-> 0, dmWins |-> {}, root |-> [k \in Kinds |-> NoProp], live |-> Window,
              deco |-> [w \in Window |-> NoProp], input |-> [w \in Window |-> 0],
              output |-> [w \in Window |-> 0], mwm |-> [w \in Window |-> TRUE],
              frames |-> {}, pixmaps |-> {}, mapped |-> {}],
     gwd |-> [alive |-> FALSE, id |-> 2, win |-> [w \in Window |-> NewDecor], refs |-> 0,
              leaked |-> 0, skipped |-> [w \in Window |-> FALSE]],
     toCompiz |-> <<>>, toGwd |-> <<>>]
Init ==
    \E cm \in BOOLEAN :
        LET T == Started(Initial(cm), 1)
        IN  /\ win = T.win /\ scr = T.scr /\ srv = T.srv /\ gwd = T.gwd
            /\ toCompiz = T.toCompiz /\ toGwd = T.toGwd
            /\ ops = 0

-----------------------------------------------------------------------------
(* Clients and the user.                                                    *)

ClientMap(w) ==
    /\ w \in srv.live \ srv.mapped /\ ~win[w].viewable /\ ~win[w].managed
    /\ Operate(Notify([Now EXCEPT !.srv.mapped = @ \cup {w}], <<"map", w>>))

ClientUnmap(w) ==
    /\ w \in srv.mapped /\ win[w].viewable
    /\ Operate(Notify([Now EXCEPT !.srv.mapped = @ \ {w}], <<"unmap", w>>))

Gone(T, w) ==
    Notify([T EXCEPT !.srv.live = @ \ {w}, !.srv.mapped = @ \ {w}, !.srv.deco[w] = NoProp,
                     !.srv.input[w] = 0, !.srv.output[w] = 0], <<"destroy", w>>)
ClientDestroy(w) ==
    /\ w \in srv.live
    /\ Operate(Gone(IF w \in srv.mapped THEN Notify(Now, <<"unmap", w>>) ELSE Now, w))

ClientHints(w) ==
    /\ w \in srv.live
    /\ Operate(Tell(Notify([Now EXCEPT !.srv.mwm[w] = ~@], <<"hints", w>>), <<"hints", w>>))

ClientResize(w) ==
    /\ win[w].viewable /\ w \in srv.mapped
    /\ Operate(Notify(Now, <<"resize", w>>))

(* Maximizing saves the position, restoring takes it back; either ends in a *)
(* ConfigureNotify.                                                         *)
Reposition(T, w) ==
    LET x == T.win[w]
    IN  IF x.max
        THEN [Overtake(T, w) EXCEPT !.win[w].saved = TRUE, !.win[w].saveY = x.y,
                                    !.win[w].y = x.top]
        ELSE [Overtake(T, w) EXCEPT !.win[w].saved = FALSE, !.win[w].y = x.saveY]
Maximize(w) ==
    /\ win[w].managed /\ win[w].viewable
    /\ LET Flip(T) == [T EXCEPT !.win[w].max = ~@]
           Ask(T) == Tell(Notify(T, <<"configure", w>>), <<"state", w>>)
       IN  Operate(Ask(Reposition(StateChanged(Flip(Now), w), w)))

Shade(w) ==
    /\ win[w].managed /\ win[w].viewable
    /\ LET Flip(T) == [T EXCEPT !.win[w].shaded = ~@]
           Ask(T) == Tell(Notify([T EXCEPT !.win[w].shading = TRUE], <<"configure", w>>),
                          <<"state", w>>)
       IN  Operate(Ask(StateChanged(Flip(Now), w)))

Focus(w) ==
    /\ win[w].viewable /\ scr.active # w
    /\ Operate(Notify(Now, <<"focus", w>>))

(* A plugin is done with the animation of an unmapped window.               *)
FinishUnmap(T, w) ==
    LET x == T.win[w]
        Leave(U) == IF x.frame
                    THEN Unreparented([U EXCEPT !.win[w].frame = FALSE], w) ELSE U
        Revert(U) == [U EXCEPT !.win[w].y = @ - U.win[w].top, !.win[w].unmanaging = FALSE]
        Unmanage(U) == IF x.unmanaging THEN Revert(Leave(U)) ELSE U
        Hide(U) == IF x.viewable THEN Update([U EXCEPT !.win[w].viewable = FALSE], w) ELSE U
    IN  Hide(Unmanage(T))
Unmap(T, w) ==
    LET U == [T EXCEPT !.win[w].refs = @ - 1]
    IN  IF U.win[w].refs > 0 THEN U ELSE FinishUnmap(U, w)

AnimationRuns(w) ==
    win[w].known /\ win[w].refs > 0 /\ ~win[w].managed /\ win[w].unmanaging
Animated(w) == AnimationRuns(w) /\ Step(Unmap(Now, w))

-----------------------------------------------------------------------------
(* The compositor handles the first of its events.                          *)

(* processMap: the window gets its frame and its place.                     *)
ProcessMap(T, w) ==
    LET Framed(U) == IF U.win[w].frame THEN U
                     ELSE Update([U EXCEPT !.win[w].frame = TRUE], w)
        Place(U) == [Overtake(U, w) EXCEPT !.win[w].managed = TRUE,
                              !.win[w].placed = TRUE, !.win[w].home =
                                  IF U.win[w].max THEN U.win[w].saveY - U.win[w].top ELSE U.win[w].y,
                              !.win[w].y = @ + U.win[w].top]
    IN  Notify(Place(Framed(T)), <<"mapped", w>>)
Mapped(T, w) ==
    LET Show(U) == IF U.win[w].viewable THEN U
                   ELSE [U EXCEPT !.win[w].viewable = TRUE, !.win[w].refs = 1]
    IN  Update(Show(T), w)

(* A window that was not iconified by us is withdrawn; plugins may hold it. *)
Withdrawn(T, w) ==
    [T EXCEPT !.win[w].placed = FALSE, !.win[w].managed = FALSE,
              !.win[w].unmanaging = T.win[w].managed]
Unmapped(T, w, holds) ==
    Unmap([Withdrawn(T, w) EXCEPT !.win[w].refs = @ + holds], w)

Destroyed(T, w) ==
    LET x == T.win[w]
        Core(U) == [U EXCEPT !.win[w] = [NewWindow EXCEPT !.known = FALSE],
                             !.srv.frames = @ \ {x.input, x.output},
                             !.scr.active = IF @ = w THEN None ELSE @]
    IN  Core(Destructed(T, w))

Resized(T, w) ==
    LET U == [T EXCEPT !.win[w].small = ~@, !.win[w].sizeTimer = TRUE]
    IN  Tell(Configured(U, w), <<"geometry", w>>)
Reconfigured(T, w) ==
    Configured([T EXCEPT !.win[w].sizeTimer = TRUE], w)

Focused(T, w) ==
    LET old == T.scr.active
        Told(U) == Tell(U, <<"focus", {old, w}>>)
    IN  Told(FocusMoved([T EXCEPT !.scr.active = w], old))

HintsChanged(T, w) == Update([T EXCEPT !.win[w].mwm = T.srv.mwm[w]], w)

First(T) == T.toCompiz[1]
Taken == [Now EXCEPT !.toCompiz = Tail(@)]

CompizMap(w) == First(Now) = <<"map", w>> /\ Step(ProcessMap(Taken, w))
CompizMapped(w) == First(Now) = <<"mapped", w>> /\ Step(Mapped(Taken, w))
CompizUnmap(w, n) == First(Now) = <<"unmap", w>> /\ Step(Unmapped(Taken, w, n))
CompizDestroy(w) == First(Now) = <<"destroy", w>> /\ Step(Destroyed(Taken, w))
CompizResize(w) == First(Now) = <<"resize", w>> /\ Step(Resized(Taken, w))
CompizConfigure(w) == First(Now) = <<"configure", w>> /\ Step(Reconfigured(Taken, w))
CompizHints(w) == First(Now) = <<"hints", w>> /\ Step(HintsChanged(Taken, w))
CompizFocus(w) == First(Now) = <<"focus", w>> /\ Step(Focused(Taken, w))
CompizOwn(w) == First(Now) = <<"deco", w>> /\ Step(OwnChanged(Taken, w, FALSE))
CompizRefused(w) ==
    /\ First(Now) = <<"deco", w>> /\ Binds(Now, w) /\ scr.refused < MaxRefused
    /\ Operate(OwnChanged([Taken EXCEPT !.scr.refused = @ + 1], w, TRUE))
CompizDefault(k) == First(Now) = <<"root", k>> /\ Step(DefaultChanged(Taken, k))
CompizDm == First(Now)[1] = "dm" /\ Step(CheckForDm(Taken))
(* DestroyNotify of the decorator's window, when it is the one in use.      *)
CompizDmGone ==
    /\ First(Now)[1] = "dmgone"
    /\ Step(IF First(Now)[2] = scr.dm THEN CheckForDm(Taken) ELSE Taken)

HandleWindow(w) ==
    /\ win[w].known
    /\ \/ CompizMap(w) \/ CompizMapped(w) \/ CompizDestroy(w) \/ CompizResize(w)
       \/ CompizConfigure(w) \/ CompizHints(w) \/ CompizFocus(w) \/ CompizOwn(w)
       \/ CompizRefused(w)
       \/ \E n \in 0 .. MaxHolds : CompizUnmap(w, n)
(* An event of a window that is gone finds no window.                       *)
HandleStale ==
    /\ First(Now)[2] \in Window /\ ~win[First(Now)[2]].known
    /\ Step(Taken)
CompizHandle ==
    /\ toCompiz # <<>>
    /\ \/ \E w \in Window : HandleWindow(w)
       \/ \E k \in Kinds : CompizDefault(k)
       \/ CompizDm \/ CompizDmGone \/ HandleStale

ResizeTimer(w) == win[w].sizeTimer /\ Step(ResizeTimeout(Now, w))
MoveTimer(w) == win[w].moveTimer /\ Step(OffsetMove(Now, w))

-----------------------------------------------------------------------------
(* The decorator.                                                           *)

GwdHandle ==
    /\ gwd.alive /\ toGwd # <<>>
    /\ Step(HandleGwd([Now EXCEPT !.toGwd = Tail(@)], toGwd[1]))
GwdDraw == gwd.alive /\ Queued(Now) # {} /\ Step(DrawList(Now))

(* libwnck follows the client list.                                         *)
Listed(w) == win[w].known /\ win[w].managed
GwdOpened(w) == gwd.alive /\ Listed(w) /\ ~gwd.win[w].opened /\ Step(Opened(Now, w))
GwdClosed(w) == gwd.alive /\ ~Listed(w) /\ gwd.win[w].opened /\ Step(Closed(Now, w))

(* A new decorator waits until the one it replaces is gone.                 *)
GwdStart == ~gwd.alive /\ Operate(Started(Now, 3 - gwd.id))
GwdKilled == gwd.alive /\ Operate(Ended(Now))
GwdQuit == gwd.alive /\ Operate(Quit(Now))

Client ==
    \/ \E w \in Window : ClientMap(w) \/ ClientUnmap(w) \/ ClientDestroy(w) \/ ClientHints(w)
    \/ \E w \in Window : ClientResize(w) \/ Maximize(w) \/ Shade(w) \/ Focus(w)
    \/ GwdStart \/ GwdKilled \/ GwdQuit
Compiz ==
    \/ CompizHandle
    \/ \E w \in Window : ResizeTimer(w) \/ MoveTimer(w) \/ Animated(w)
Gwd ==
    \/ GwdHandle \/ GwdDraw
    \/ \E w \in Window : GwdOpened(w) \/ GwdClosed(w)

Next == Client \/ Compiz \/ Gwd

(* Both programs keep running.  Each is WF_vars of its action, with what    *)
(* enables the action written out.                                          *)
CompizReady ==
    \/ toCompiz # <<>>
    \/ \E w \in Window : win[w].sizeTimer \/ win[w].moveTimer \/ AnimationRuns(w)
GwdReady ==
    /\ gwd.alive
    /\ toGwd # <<>> \/ \E w \in Window : gwd.win[w].queued \/ Listed(w) # gwd.win[w].opened
Fairness ==
    /\ []<>~CompizReady \/ []<><<Compiz>>_vars
    /\ []<>~GwdReady \/ []<><<Gwd>>_vars

Spec == Init /\ [][Next]_vars /\ Fairness

-----------------------------------------------------------------------------
CompizIdle == toCompiz = <<>> /\ \A w \in Window : ~win[w].sizeTimer /\ ~win[w].moveTimer
GwdIdle == ~gwd.alive \/ (toGwd = <<>> /\ Queued(Now) = {}
                          /\ \A w \in Window : Listed(w) = gwd.win[w].opened)
Shown(w) == win[w].known /\ win[w].managed /\ win[w].viewable

Holders(i) ==
    Cardinality({w \in Window : win[w].wd = i}) + Cardinality({w \in Window : win[w].decor = i})
    + Cardinality({k \in Kinds : scr.decor[k] = i})
    + (IF i \in scr.lost \cup {DefaultId} THEN 1 ELSE 0)

(* Every Decoration object has as many references as windows and root       *)
(* decorations that use it, and every texture as many as decorations drawn  *)
(* from it, so that neither is freed in use or kept for ever; only a        *)
(* decorator replaced by another before its end was noticed leaves the      *)
(* decorations of the first one behind (Decoration::release, getTexture,    *)
(* releaseTexture, checkForDm).                                             *)
CountedOnce ==
    /\ \A i \in Ids \ {NoId} : scr.heap[i].ref = Holders(i)
    /\ \A p \in Pixmaps : scr.tex[p] =
          Cardinality({i \in Ids : scr.heap[i].val.pix = p /\ scr.heap[i].ref > 0})

(* Once the compositor has handled its events and timers, every window on   *)
(* screen has the decoration its hints, its focus, its size and the         *)
(* decorator call for, the border of that decoration, and the one frame     *)
(* window of the right kind, under the property that names it (update,      *)
(* updateFrame).                                                            *)
RightDecoration ==
    CompizIdle =>
        \A w \in {v \in Window : Shown(v)} :
            LET type == IF win[w].top = 0 THEN None ELSE scr.heap[win[w].wd].val.type
            IN  /\ win[w].wd = Wanted(Now, w)
                /\ win[w].top = scr.heap[win[w].wd].val.top
                /\ (win[w].input # 0) = (type = "pixmap")
                /\ (win[w].output # 0) = (type = "window")
                /\ w \in srv.live /\ win[w].input # 0 => srv.input[w] = win[w].input
                /\ w \in srv.live /\ win[w].output # 0 => srv.output[w] = win[w].output

(* Decorating, undecorating and redecorating a window moves it by exactly   *)
(* the border: its frame stays where the window was placed, unless two      *)
(* moves overtook each other (update, decorOffsetMove).                     *)
FrameStays ==
    CompizIdle =>
        \A w \in {v \in Window : Shown(v) /\ ~win[v].raced} :
            (IF win[w].max THEN win[w].saveY ELSE win[w].y) = win[w].home + win[w].top

(* Once both programs are idle, a window with a frame is decorated by what  *)
(* the decorator drew for this frame: the published decoration is of the    *)
(* frame's kind and its pixmap is alive, unless add_frame_window passed     *)
(* over a new frame or an old layout, or the window is too small for one.   *)
Follows(w) ==
    LET f == win[w].output
    IN  /\ gwd.win[w].fwin = f
        /\ ~win[w].small =>
              /\ srv.deco[w].type = (IF f # 0 THEN "window" ELSE "pixmap")
              /\ srv.deco[w].type = "pixmap" => srv.deco[w].pix \in srv.pixmaps
DecoratorFollows ==
    CompizIdle /\ GwdIdle /\ gwd.alive =>
        \A w \in srv.live : Shown(w) /\ win[w].top > 0 /\ ~gwd.skipped[w] => Follows(w)

(* The two programs do not answer each other for ever: when nothing more is *)
(* asked of them, both come to rest; after a texture was refused they may   *)
(* keep switching between the two kinds of frame.                           *)
ComesToRest == <>[]((CompizIdle /\ GwdIdle) \/ scr.refused > 0)

(* Windows have the decoration they should, where they should, from both    *)
(* programs' point of view.                                                 *)
DecorationsAgree == RightDecoration /\ FrameStays /\ DecoratorFollows
=============================================================================
