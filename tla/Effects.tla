------------------------------- MODULE Effects -------------------------------
(* The fade, blur and wobbly plugins at work: what users and clients do     *)
(* between frames, and the frames, in which every plugin takes a step and   *)
(* asks for the next frame or not.                                          *)
EXTENDS Wobbly

CONSTANTS Loads,      (* the sets of plugins that may be loaded             *)
          Neighbours, (* the sets of rectangles windows may snap to         *)
          MaxOps      (* bound on what users and clients do                 *)

VARIABLES scr, fade, blur, wob, active, win, ops
vars == <<scr, fade, blur, wob, active, win, ops>>

Now == [scr |-> scr, fade |-> fade, blur |-> blur, wob |-> wob, active |-> active, win |-> win]
Become(T) ==
    /\ scr' = T.scr
    /\ fade' = T.fade
    /\ blur' = T.blur
    /\ wob' = T.wob
    /\ active' = T.active
    /\ win' = T.win

Has(p) == p \in scr.plugins

(* A window is as yet unknown to the program.                               *)
Unknown ==
    [known |-> FALSE, viewable |-> FALSE, damaged |-> FALSE, alive |-> TRUE, modalState |-> FALSE,
     want |-> Normal, size |-> 1, x |-> 0, serverX |-> 0, max |-> FALSE,
     focusMatch |-> TRUE, alphaMatch |-> FALSE,
     blurProp |-> [s \in {"client", "decor"} |-> "unset"],
     fade |-> [shown |-> Normal, target |-> Normal, diff |-> [o |-> 0, b |-> 0, s |-> 0],
               modal |-> FALSE, steps |-> 0, time |-> 0, cut |-> FALSE],
     blur |-> NoBlur, wob |-> NoWobble]

Created(T, w) ==
    LET F == IF "fade" \in T.scr.plugins THEN FadeCreated(T, w) ELSE T
        B == IF "blur" \in T.scr.plugins THEN BlurCreated(F, w) ELSE F
    IN  IF "wobbly" \in T.scr.plugins THEN WobblyCreated(B, w) ELSE B

(* The plugins start with one window on screen; the others come later.      *)
Oldest == CHOOSE w \in Window : TRUE
Init ==
    \E plugins \in Loads, slight, opt \in BOOLEAN :
    \E near \in IF "wobbly" \in plugins THEN Neighbours ELSE {{}},
       ext \in IF "blur" \in plugins THEN BOOLEAN ELSE {TRUE} :
        LET T == [scr |-> [plugins |-> plugins, mask |-> {}, size |-> 1],
                  fade |-> [mode |-> IF opt THEN "time" ELSE "speed", modals |-> 0,
                            slight |-> slight, dimOption |-> TRUE],
                  blur |-> [more |-> FALSE, focusOption |-> opt, alpha |-> TRUE,
                            filter |-> IF slight THEN "gaussian" ELSE "bilinear",
                            radius |-> FALSE, sat |-> FALSE, functions |-> {}, program |-> {},
                            fbo |-> "none", ext |-> ext, size |-> NoTexture,
                            texture |-> [i \in 0 .. 1 |-> NoTexture]],
                  wob |-> [mask |-> {}, hooks |-> FALSE, grab |-> NoAnchor, move |-> FALSE,
                           snapping |-> FALSE, box |-> FALSE, others |-> near,
                           area |-> <<Min(Place), Max(Place) + 1>>, early |-> FALSE,
                           maxEffect |-> opt, mapEffect |-> slight, focusEffect |-> opt,
                           grabEffect |-> slight],
                  active |-> NoAnchor,
                  win |-> [w \in Window |->
                              [Unknown EXCEPT !.known = w = Oldest, !.viewable = w = Oldest,
                                              !.damaged = w = Oldest]]]
            U == Created(T, Oldest)
        IN  /\ scr = U.scr /\ fade = U.fade /\ blur = U.blur /\ wob = U.wob
            /\ active = U.active /\ win = U.win
            /\ ops = 0

Op(T) == ops < MaxOps /\ ops' = ops + 1 /\ Become(T)
Known(w) == win[w].known

-----------------------------------------------------------------------------
(* Windows come, go and change.                                             *)
Create(w, max) ==
    /\ ~Known(w)
    /\ Op(Created([Now EXCEPT !.win[w] = [Unknown EXCEPT !.known = TRUE, !.max = max]], w))
Map(w) ==
    /\ Known(w) /\ ~win[w].viewable
    /\ LET T == [Now EXCEPT !.win[w].viewable = TRUE, !.win[w].damaged = FALSE]
       IN  Op(IF Has("wobbly") THEN WobblyMapped(T, w) ELSE T)
Damage(w) ==
    /\ win[w].viewable /\ ~win[w].damaged
    /\ Become(DamageRegion([Now EXCEPT !.win[w].damaged = TRUE]))
    /\ UNCHANGED ops
Unmap(w) ==
    /\ win[w].viewable
    /\ Op([DamageRegion(Now) EXCEPT !.win[w].viewable = FALSE])
Destroy(w) ==
    /\ Known(w)
    /\ LET F == IF Has("fade") THEN FadeDestroyed(Now, w) ELSE Now
           W == IF Has("wobbly") THEN WobblyDestroyed(F, w) ELSE F
       IN  Op([DamageRegion(W) EXCEPT !.win[w] = Unknown,
                                      !.active = IF @ = w THEN NoAnchor ELSE @])

SetOpacity(w, o) ==
    /\ Known(w) /\ (Has("fade") \/ Has("blur")) /\ win[w].want.o # o
    /\ Op(AddDamage([Now EXCEPT !.win[w].want.o = o], w))
AliveChange(w) ==
    /\ Known(w) /\ Has("fade")
    /\ LET T == DamageRegion([Now EXCEPT !.win[w].alive = ~@])
       IN  Op(FadeAliveChanged(T, w))
ModalState(w) ==
    /\ Known(w) /\ Has("fade")
    /\ Op(FadeStateChanged([Now EXCEPT !.win[w].modalState = ~@], w))
Focus(w) ==
    /\ w # active /\ (w # NoAnchor => win[w].viewable) /\ (Has("blur") \/ Has("wobbly"))
    /\ LET T == [Now EXCEPT !.active = w]
           B == IF Has("blur") THEN BlurFocusMoved(T, active) ELSE T
       IN  Op(IF Has("wobbly") /\ w # NoAnchor THEN WobblyFocused(B, w) ELSE B)

-----------------------------------------------------------------------------
(* The fade plugin's and the blur plugin's own events.                      *)
RingBell(w, fullscreen) == Known(w) /\ Has("fade") /\ Op(Bell(Now, w, fullscreen))
FadeOption ==
    /\ Has("fade")
    /\ \/ Op(FadeModeChanged(Now))
       \/ Op(FadeDimChanged(Now))
       \/ Op(FadeMatchChanged(Now))
BlurPulse(w) == Known(w) /\ Has("blur") /\ Op(Pulse(Now, w))
MatchChanged(w) ==
    /\ Known(w) /\ Has("blur")
    /\ \E f, a \in BOOLEAN :
          Op(UpdateMatch([Now EXCEPT !.win[w].focusMatch = f, !.win[w].alphaMatch = a], w))
BlurProperty(w, state, p) ==
    /\ Known(w) /\ Has("blur") /\ win[w].blurProp[state] # p
    /\ Op(UpdateProperty([Now EXCEPT !.win[w].blurProp[state] = p], w, state))
BlurOption ==
    /\ Has("blur")
    /\ \/ Op(SetFocusBlur(Now))
       \/ Op(SetAlphaBlur(Now))
       \/ Op(SetSaturation(Now))
       \/ Op(SetGaussian(Now))
       \/ Op(SetOcclusion(Now))
       \/ Op(SetMipmapLod(Now))
       \/ \E f \in Filter : f # blur.filter /\ Op(SetFilter(Now, f))
       \/ \E w \in Window, f \in BOOLEAN : Known(w) /\ Op(SetMatches(Now, w, f, TRUE))
ScreenResize == Has("blur") /\ Op(DamageScreen([Now EXCEPT !.scr.size = 3 - @]))
BlurResize(w) ==
    /\ Known(w) /\ Has("blur") /\ ~Has("wobbly")
    /\ Op(BlurResizeNotify([Now EXCEPT !.win[w].size = 3 - @], w))

-----------------------------------------------------------------------------
(* What moves wobbly windows.                                               *)
Grab(w, o, external) ==
    /\ Has("wobbly") /\ win[w].viewable /\ wob.grab = NoAnchor
    /\ \A x \in Window : ~win[x].wob.grabbed
    /\ Op(GrabNotify(Now, w, o, external))
Ungrab(w) == Has("wobbly") /\ wob.grab = w /\ Op(UngrabNotify(Now, w))

(* A drag moves the window on screen; the server hears of it later.         *)
Move(w, x, immediate) ==
    /\ Has("wobbly") /\ Known(w) /\ x # win[w].x
    /\ immediate \/ wob.grab = w
    /\ LET T == [Now EXCEPT !.win[w].x = x,
                            !.win[w].serverX = IF immediate THEN x ELSE @]
       IN  Op(WobblyMoveNotify(T, w, x - win[w].x, immediate))
SyncPosition(w) ==
    /\ Known(w) /\ win[w].x # win[w].serverX
    /\ Become([Now EXCEPT !.win[w].serverX = win[w].x])
    /\ UNCHANGED ops
Maximize(w, x, o) ==
    /\ Has("wobbly") /\ win[w].viewable
    /\ LET T == [Now EXCEPT !.win[w].max = ~@, !.win[w].size = 3 - @,
                            !.win[w].x = x, !.win[w].serverX = x]
       IN  Op(WobblyResizeNotify(T, w, o))
ResizeWindow(w, o) ==
    /\ Has("wobbly") /\ Known(w) /\ ~win[w].max
    /\ Op(WobblyResizeNotify([Now EXCEPT !.win[w].size = 3 - @], w, o))
PullMaximized(w) ==
    /\ Has("wobbly") /\ wob.grab = w
    /\ \E dx \in {-1, 1} : Op(Motion(Now, w, dx))
ShiverWindow(w) == Has("wobbly") /\ Known(w) /\ Op(Shiver(Now, w))
SnapKey == Has("wobbly") /\ Op(IF wob.snapping THEN DisableSnapping(Now) ELSE EnableSnapping(Now))
NeighbourMoves ==
    /\ Has("wobbly")
    /\ \E near \in Neighbours : near # wob.others /\ Op([Now EXCEPT !.wob.others = near])

-----------------------------------------------------------------------------
(* A frame.                                                                 *)
PaintWindow(T, w, drawing) ==
    LET F == IF Has("fade") THEN FadeGlPaint(T, w) ELSE T
    IN  IF ~Exposed(T, w) THEN T
        ELSE IF Has("blur") THEN BlurGlDraw(F, w, drawing) ELSE F
Paint(T, drawing) ==
    LET Each(U, w) == PaintWindow(U, w, drawing)
        U == [T EXCEPT !.scr.mask = {}]
    IN  IF T.scr.mask \cap {"all", "region"} = {} THEN U ELSE OnWindows(U, Each)

(* How a frame may come out: a model may have no time for a step, but not   *)
(* twice; it may drift, snap or lose an edge; blur may not get to draw.     *)
Outcome ==
    [early : IF Has("wobbly") /\ ~wob.early THEN BOOLEAN ELSE {FALSE},
     side : IF Has("wobbly") /\ wob.snapping THEN Corner ELSE {"west"},
     edge : IF Has("wobbly") /\ wob.snapping THEN {"none", "find", "edge"} ELSE {"none"},
     drift : IF Has("wobbly") THEN {-1, 0} ELSE {0},
     drawing : IF Has("blur") THEN Drawing ELSE {"drawn"}]
(* preparePaint, paint and donePaint, each through the plugins.             *)
FrameWith(c) ==
    \E F \in {IF Has("fade") THEN FadePreparePaint(Now) ELSE Now} :
    \E B \in {IF Has("blur") THEN BlurPreparePaint(F) ELSE F} :
    \E W \in {IF Has("wobbly") THEN WobblyPreparePaint([B EXCEPT !.wob.early = c.early], c)
               ELSE B} :
    \E P \in {Paint(W, c.drawing)} :
    \E D \in {IF Has("blur") THEN BlurDonePaint(P) ELSE P} :
        Become(IF Has("wobbly") THEN WobblyDonePaint(D) ELSE D)
Frame ==
    /\ scr.mask # {}
    /\ \E c \in Outcome : FrameWith(c)
    /\ UNCHANGED ops

Next ==
    \/ \E w \in Window :
          \/ \E b \in BOOLEAN : Create(w, b) \/ RingBell(w, b)
          \/ Map(w) \/ Damage(w) \/ Unmap(w) \/ Destroy(w)
          \/ \E o \in 0 .. Opaque : SetOpacity(w, o)
          \/ AliveChange(w) \/ ModalState(w) \/ BlurPulse(w) \/ MatchChanged(w)
          \/ \E s \in {"client", "decor"}, p \in {"unset", "zero", "all", "part", "empty"} :
                BlurProperty(w, s, p)
          \/ BlurResize(w) \/ Ungrab(w) \/ SyncPosition(w) \/ PullMaximized(w) \/ ShiverWindow(w)
          \/ \E o \in Object : \/ ResizeWindow(w, o)
                               \/ \E b \in BOOLEAN : Grab(w, o, b)
                               \/ \E x \in Place : Maximize(w, x, o)
          \/ \E x \in Place, b \in BOOLEAN : Move(w, x, b)
    \/ \E w \in Window \cup {NoAnchor} : Focus(w)
    \/ FadeOption \/ BlurOption \/ ScreenResize \/ SnapKey \/ NeighbourMoves
    \/ Frame

(* Frames come as long as one is asked for.                                 *)
Fairness == []<>(scr.mask = {}) \/ []<><<Frame>>_vars
Spec == Init /\ [][Next]_vars /\ Fairness

-----------------------------------------------------------------------------
(* Fade, once no more frames are asked for, shows every window the way it   *)
(* wants it shown, so a fade that waits for a step (fade.cpp, glPaint) must *)
(* have asked for the frame it takes the step in.  Left out are fades that  *)
(* are known to be cut short, and saturation at constant speed.  And        *)
(* displayModals is the number of windows marked as modal to the display,   *)
(* whatever order states, unmaps and destroys come in: one too many and the *)
(* whole screen stays dark.                                                 *)
Faded(w) ==
    LET f == win[w].fade
        a == FAttrib(Now, w)
        same == f.shown.o = a.o /\ f.shown.b = a.b /\ (fade.mode = "time" => f.shown.s = a.s)
    IN  same \/ (f.shown.o = 0 /\ a.o = 0) \/ f.cut
FadesFinish ==
    Has("fade") =>
        /\ scr.mask = {} => \A w \in Window : Exposed(Now, w) => Faded(w)
        /\ fade.modals = Cardinality({w \in Window : win[w].fade.modal})

(* Once blur stops stepping, a window has the blur that its focus and the   *)
(* match ask for, or nothing has told blur of the change (blur.cpp,         *)
(* preparePaint).                                                           *)
Wanted(w) ==
    IF win[w].blur.focus /\ blur.focusOption /\ w # active THEN FullBlur ELSE 0
BlurFollowsFocus ==
    ~blur.more =>
        \A w \in Window : win[w].known =>
            \/ win[w].blur.level = Wanted(w) \/ win[w].blur.behind
            \/ win[w].blur.pulse /\ win[w].blur.level = FullBlur

(* Fragment functions, filter program and textures that blur keeps were     *)
(* made with the options in force, and a frame buffer in use has both its   *)
(* textures, of one size: the cache is keyed by none of these.              *)
FilterCurrent ==
    /\ \A f \in blur.functions \cup blur.program :
          /\ f.made.filter = blur.filter /\ f.made.sat = blur.sat
          /\ blur.filter = "gaussian" => f.made.radius = blur.radius
    /\ (blur.filter = "gaussian" /\ blur.fbo = "ready" /\ blur.size # NoTexture) =>
          \A i \in 0 .. 1 : blur.texture[i] = blur.size

(* A window's blurred region covers the parts its properties and matches    *)
(* ask for, and a part that is whole is clipped no longer.                  *)
RegionFits ==
    \A w \in Window :
        LET b == win[w].blur
        IN  /\ b.region.parts = {s \in {"client", "decor"} :
                                     b.threshold[s] /\ ~(s = "client" /\ b.boxes[s] = "empty")}
            /\ \A s \in b.region.parts : b.clipped[s] = (b.boxes[s] = "part")

(* What is blurred, how much and with what agrees with focus, matches,      *)
(* properties and options, in whatever order they changed.                  *)
BlursAgree == Has("blur") => BlurFollowsFocus /\ FilterCurrent /\ RegionFits

(* The hooks of a window are on exactly while it wobbles, what wobbles is   *)
(* known to the screen, whose hooks are then on, and a window that moves    *)
(* has asked for the next frame.                                            *)
WobbleHooks ==
    /\ \A w \in Window :
          /\ win[w].wob.hooks = (win[w].wob.mask # {})
          /\ win[w].wob.mask \subseteq wob.mask
          /\ Wobbling(win[w].wob.mask) => scr.mask # {}
    /\ wob.mask # {} => wob.hooks

(* A model at rest is where its window is: the window is moved to where the *)
(* model came to rest, and moves the model when others move it.  Left out   *)
(* are windows left on the way because a move had not reached the server.   *)
WobbleLands ==
    \A w \in Window :
        LET m == win[w].wob
        IN  (m.model /\ m.mask = {} /\ ~m.grabbed) =>
                m.at = win[w].x \/ m.off \/ win[w].x # win[w].serverX

(* No side is snapped that is not counted, and no count falls below zero:   *)
(* the counts decide which sides may snap.                                  *)
SnapsCounted ==
    \A w \in Window, o \in Corner :
        LET s == win[w].wob.snap
        IN  s.cnt[o] >= 0 /\ (s.on[o] => s.cnt[o] > 0)

(* Model, window and paint hooks of wobbly agree through grabs, snaps,      *)
(* maximizing and destroys (wobbly.cpp, preparePaint and donePaint).        *)
WobblesAgree == Has("wobbly") => WobbleHooks /\ WobbleLands /\ SnapsCounted

(* Fades, blurs and wobbles end, and the screen is not painted for ever;    *)
(* left out are the saturation that never gets there, and a window held at  *)
(* two places at once.                                                      *)
Restless ==
    \/ Has("fade") /\ \E w \in Window : Exposed(Now, w) /\ win[w].fade.shown.s # FAttrib(Now, w).s
    \/ \E w \in Window : Torn(Now, w)
ComesToRest == <>[](scr.mask = {} \/ Restless)

(* What blur and wobbly keep of windows agrees with the windows.            *)
EffectsAgree == BlursAgree /\ WobblesAgree
=============================================================================
