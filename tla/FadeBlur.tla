------------------------------ MODULE FadeBlur -------------------------------
(* The fade plugin: how opacity, brightness and saturation of windows go in *)
(* steps to the values the rest of the program wants, when windows hang,    *)
(* modal dialogs of the display appear and the bell rings.                  *)
(*                                                                          *)
(* Operators act on a record T:                                             *)
(*   T.scr    the damage that asks for a frame, the plugin's options;       *)
(*   T.fade   FadeScreen: mode, displayModals;                              *)
(*   T.win    the fields of windows the effects read, and T.win[w].fade.    *)
(* The levels are few: opacity and brightness 0..2, saturation 0..1, and a  *)
(* step moves by one level.  A fade of constant time takes FadeTime frames. *)
EXTENDS Integers, FiniteSets, FiniteSetsExt, SequencesExt

CONSTANTS Window, FadeTime

ASSUME FadeTimeAssumption == FadeTime \in Nat \ {0}

Opaque == 2
Normal == [o |-> Opaque, b |-> 2, s |-> 1]

(* In no order that matters.                                                *)
OnWindows(T, Op(_, _)) == FoldLeft(Op, T, SetToSeq({w \in Window : T.win[w].known}))

(* CompositeWindow::addDamage, CompositeScreen::damageScreen; a window that *)
(* is not on screen is not damaged.                                         *)
Exposed(T, w) == T.win[w].viewable /\ T.win[w].damaged
DamageScreen(T) == [T EXCEPT !.scr.mask = (@ \cup {"all"}) \ {"region"}]
DamageRegion(T) ==
    IF "all" \in T.scr.mask THEN T ELSE [T EXCEPT !.scr.mask = @ \cup {"region"}]
DamagePending(T) == [T EXCEPT !.scr.mask = @ \cup {"pending"}]
AddDamage(T, w) == IF Exposed(T, w) THEN DamageRegion(T) ELSE T

-----------------------------------------------------------------------------
(* A fade begins with what composite wants; `cut' is a ghost: the values    *)
(* were left on the way, with no further step to come.                      *)
NewFade(T, w) ==
    [shown |-> T.win[w].want, target |-> T.win[w].want, diff |-> [o |-> 0, b |-> 0, s |-> 0],
     modal |-> FALSE, steps |-> 0, time |-> 0, cut |-> FALSE]

AddDisplayModal(T, w) ==
    LET U == [T EXCEPT !.win[w].fade.modal = TRUE, !.fade.modals = @ + 1]
    IN  IF ~T.win[w].modalState \/ T.win[w].fade.modal THEN T
        ELSE IF U.fade.modals = 1 THEN DamageScreen(U) ELSE U

RemoveDisplayModalUncounted(T, w) == [T EXCEPT !.win[w].fade.modal = FALSE]
RemoveDisplayModal(T, w) ==
    LET U == [T EXCEPT !.win[w].fade.modal = FALSE, !.fade.modals = @ - 1]
    IN  IF ~T.win[w].fade.modal THEN T
        ELSE IF U.fade.modals = 0 THEN DamageScreen(U) ELSE U

FadeCreated(T, w) ==
    LET U == [T EXCEPT !.win[w].fade = NewFade(T, w)]
    IN  IF U.win[w].viewable THEN AddDisplayModal(U, w) ELSE U

(* A property of the state is read only while the window is viewable.       *)
FadeStateChanged(T, w) ==
    IF ~T.win[w].viewable THEN T
    ELSE IF T.win[w].modalState THEN AddDisplayModal(T, w) ELSE RemoveDisplayModal(T, w)

(* windowNotify is wrapped while dim_unresponsive is set.                   *)
FadeAliveChanged(T, w) == IF T.fade.dimOption THEN AddDamage(T, w) ELSE T

Dim(T, w) == IF T.win[w].damaged THEN [T EXCEPT !.win[w].fade.shown.b = T.win[w].want.b \div 2]
             ELSE T

(* In a mode of constant time the target is still what it was, and the      *)
(* brightness does not come back.                                           *)
Dimmed(T, w) ==
    [Dim(T, w) EXCEPT !.win[w].fade.cut = @ \/ (T.win[w].damaged /\ T.fade.mode = "time")]
Bell(T, w, fullscreen) ==
    LET Each(U, x) == IF U.win[x].viewable THEN Dimmed(U, x) ELSE U
    IN  IF fullscreen THEN DamageScreen(OnWindows(T, Each))
        ELSE AddDamage(Dimmed(T, w), w)

-----------------------------------------------------------------------------
(* preparePaint.                                                            *)
PaintStep(T, w) ==
    LET f == T.win[w].fade
    IN  IF T.fade.mode = "speed"
        THEN [T EXCEPT !.win[w].fade.steps = 1, !.win[w].fade.time = 0]
        ELSE IF f.time = 0 THEN [T EXCEPT !.win[w].fade.steps = 0]
        ELSE [T EXCEPT !.win[w].fade.steps = 1,
                       !.win[w].fade.time = f.time - 1,
                       !.win[w].fade.cut = @ \/ ~Exposed(T, w)]
FadePreparePaint(T) == OnWindows(T, PaintStep)

(* What glPaint fades to.                                                   *)
FAttrib(T, w) ==
    LET a == T.win[w].want
        slight(s) == IF T.fade.slight THEN s ELSE a.s
    IN  IF ~T.win[w].alive /\ T.fade.dimOption
        THEN [a EXCEPT !.b = Min({@, 1}), !.s = slight(0)]
        ELSE IF T.fade.modals > 0 /\ ~T.win[w].fade.modal
        THEN [a EXCEPT !.b = 1, !.s = 0]
        ELSE a

TowardUnclamped(x, y) == IF y > x THEN x + 2 ELSE IF y < x THEN x - 2 ELSE x
Toward(x, y) == IF y > x THEN x + 1 ELSE IF y < x THEN x - 1 ELSE x
(* C's division.                                                            *)
Quot(a, b) == IF a < 0 THEN -((-a) \div b) ELSE a \div b

(* With constant speed the new saturation is computed in the place of the   *)
(* old one, which is then put back.                                         *)
Stepped(T, f, a) ==
    IF T.fade.mode = "speed"
    THEN [o |-> Toward(f.shown.o, a.o), b |-> Toward(f.shown.b, a.b), s |-> f.shown.s]
    ELSE [v \in {"o", "b", "s"} |-> a[v] - Quot(f.diff[v] * f.time, FadeTime)]

(* A new target in the mode of constant time.                               *)
Retarget(T, f, a) ==
    IF T.fade.mode = "time" /\ a # f.target
    THEN [f EXCEPT !.time = FadeTime, !.steps = 1, !.target = a, !.cut = FALSE,
                   !.diff = [v \in {"o", "b", "s"} |-> a[v] - f.shown[v]]]
    ELSE f

(* A step to opacity 0 stops the fade, whatever it fades to; the saturation *)
(* is not put back then.                                                    *)
FadeGlPaint(T, w) ==
    LET a == FAttrib(T, w)
        old == [T.win[w].fade EXCEPT !.shown.s = IF T.fade.slight THEN @ ELSE T.win[w].want.s]
        f == Retarget(T, old, a)
        new == Stepped(T, f, a)
        Painted(g) == [T EXCEPT !.win[w].fade = g]
    IN  IF T.win[w].alive /\ old.shown = T.win[w].want /\ T.fade.modals = 0
        THEN Painted([old EXCEPT !.cut = T.fade.mode = "time" /\ old.target # a])
        ELSE IF f.steps = 0 THEN Painted(f)
        ELSE IF new.o > 0
        THEN LET U == Painted([f EXCEPT !.steps = 0, !.shown = new, !.cut = FALSE])
             IN  IF new # a THEN AddDamage(U, w) ELSE U
        ELSE Painted([f EXCEPT !.steps = 0, !.shown.o = 0, !.cut = a.o # 0,
                               !.shown.s = IF T.fade.mode = "speed" THEN Toward(@, a.s) ELSE @])

(* setOption asks for a frame only for window_match, which nothing else     *)
(* evaluates.  The target of a window is not kept up with at constant speed.*)
FadeModeChanged(T) ==
    LET Cut(U, w) == [U EXCEPT !.win[w].fade.cut =
                          @ \/ {U.win[w].fade.shown, U.win[w].fade.target} # {FAttrib(U, w)}]
    IN  OnWindows([T EXCEPT !.fade.mode = IF @ = "time" THEN "speed" ELSE "time"], Cut)
FadeDimChanged(T) ==
    LET Cut(U, w) == [U EXCEPT !.win[w].fade.cut = @ \/ FAttrib(U, w) # FAttrib(T, w)]
    IN  OnWindows([T EXCEPT !.fade.dimOption = ~@], Cut)
FadeMatchChanged(T) == DamageScreen(T)

FadeDestroyed(T, w) == RemoveDisplayModal(T, w)

-----------------------------------------------------------------------------
(* The blur plugin: windows without the focus are blurred in steps, and     *)
(* what lies behind translucent parts of windows is blurred with fragment   *)
(* functions, a filter program and textures that are built once and kept    *)
(* until an option changes.                                                 *)
(*                                                                          *)
(* T.blur is BlurScreen, T.win[w].blur is BlurWindow.  Blur goes in steps   *)
(* from 0 to FullBlur (0xffff).  Pixels are left out: a region is the parts *)
(* of the window it covers and the size of the window it was computed for.  *)

FullBlur == 4
Filter == {"bilinear", "gaussian", "mipmap"}
NoTexture == 0

-----------------------------------------------------------------------------
(* Regions.                                                                 *)

(* updateRegion: the decoration's part and the client's, clipped when boxes *)
(* cover less than the part.  Of boxes that are there but cover nothing the *)
(* decoration's stand for all of it and the client's for nothing.           *)
UpdateRegion(T, w) ==
    LET b == T.win[w].blur
        on == {s \in {"client", "decor"} : b.threshold[s]}
        none == {s \in {"client"} : b.boxes[s] = "empty"}
        clipped(s) == IF s \in on THEN b.boxes[s] = "part" ELSE b.clipped[s]
    IN  [T EXCEPT !.win[w].blur.region = [parts |-> on \ none, size |-> T.win[w].size],
                  !.win[w].blur.clipped = [s \in {"client", "decor"} |-> clipped(s)]]

SetBlur(T, w, state, threshold, boxes) ==
    AddDamage(UpdateRegion([T EXCEPT !.win[w].blur.threshold[state] = threshold,
                                     !.win[w].blur.boxes[state] = boxes], w), w)

(* A window whose client asks for nothing is blurred if the option says so. *)
UpdateAlphaMatch(T, w) ==
    LET b == T.win[w].blur
    IN  IF b.propSet["client"] \/ b.threshold["client"] = T.win[w].alphaMatch THEN T
        ELSE SetBlur(T, w, "client", T.win[w].alphaMatch, "none")

(* `behind' is a ghost: nothing asks for the steps of the new blur.         *)
UpdateMatch(T, w) ==
    LET U == UpdateAlphaMatch(T, w)
        focus == T.win[w].focusMatch
    IN  IF focus = U.win[w].blur.focus THEN U
        ELSE AddDamage([U EXCEPT !.win[w].blur.focus = focus,
                                 !.win[w].blur.behind = TRUE], w)

(* A window's property: the threshold and boxes, or none.                   *)
UpdateProperty(T, w, state) ==
    LET p == T.win[w].blurProp[state]
    IN  UpdateAlphaMatch(SetBlur([T EXCEPT !.win[w].blur.propSet[state] = p # "unset"],
                                 w, state, p \notin {"unset", "zero"},
                                 IF p \in {"part", "empty"} THEN p ELSE "none"), w)

NoBlur == [level |-> 0, pulse |-> FALSE, focus |-> FALSE, behind |-> FALSE,
           threshold |-> [s \in {"client", "decor"} |-> FALSE],
           boxes |-> [s \in {"client", "decor"} |-> "none"],
           clipped |-> [s \in {"client", "decor"} |-> FALSE],
           propSet |-> [s \in {"client", "decor"} |-> FALSE],
           region |-> [parts |-> {}, size |-> 1]]
BlurCreated(T, w) ==
    UpdateMatch(UpdateProperty(UpdateProperty([T EXCEPT !.win[w].blur = NoBlur],
                                              w, "client"), w, "decor"), w)

(* The region follows the window's size, but not while alpha blur is off.   *)
BlurResizeNotify(T, w) ==
    LET b == T.win[w].blur
    IN  IF T.blur.alpha /\ (b.threshold["client"] \/ b.threshold["decor"])
        THEN UpdateRegion(T, w) ELSE T

-----------------------------------------------------------------------------
(* Steps of the blur.                                                       *)
MoreBlur(T) == [T EXCEPT !.blur.more = TRUE,
                         !.win = [w \in Window |-> [T.win[w] EXCEPT !.blur.behind = FALSE]]]

(* Focus moved from window `old' (both may be none).                        *)
BlurFocusMoved(T, old) ==
    LET Wake(U, w) == IF w \in Window /\ U.blur.focusOption
                      THEN AddDamage(MoreBlur(U), w) ELSE U
    IN  IF old = T.active THEN T ELSE Wake(Wake(T, old), T.active)

Pulse(T, w) == AddDamage(MoreBlur([T EXCEPT !.win[w].blur.pulse = TRUE]), w)

(* A pulse of a window that is blurred already never ends.                  *)
BlurStep(T, w) ==
    LET b == T.win[w].blur
        clear == ~b.pulse /\ (~(b.focus /\ T.blur.focusOption) \/ w = T.active)
        To(n) == [T EXCEPT !.win[w].blur.level = n,
                           !.blur.more = @ \/ n \notin {0, FullBlur}]
    IN  IF clear THEN To(Max({b.level - 1, 0}))
        ELSE IF b.level >= FullBlur THEN T
        ELSE IF b.pulse
        THEN IF b.level + 2 >= FullBlur
             THEN [To(FullBlur - 1) EXCEPT !.win[w].blur.pulse = FALSE]
             ELSE To(b.level + 2)
        ELSE To(b.level + 1)

(* The damage of a frame also grows near what is blurred, which asks for no *)
(* frame more.                                                              *)
BlurPreparePaint(T) ==
    IF T.blur.more THEN OnWindows([T EXCEPT !.blur.more = FALSE], BlurStep) ELSE T

BlurDonePaint(T) ==
    LET Each(U, w) == IF U.win[w].blur.level \in 1 .. FullBlur - 1 THEN AddDamage(U, w) ELSE U
    IN  IF T.blur.more THEN OnWindows(T, Each) ELSE T

-----------------------------------------------------------------------------
(* Functions, program and textures.                                         *)
Options(T) == [filter |-> T.blur.filter, radius |-> T.blur.radius, sat |-> T.blur.sat]

(* Functions are kept by their place among the parameters, which does not   *)
(* tell the options apart they were made with.                              *)
GetFunction(T, kind) ==
    IF \E f \in T.blur.functions : f.kind = kind THEN T
    ELSE [T EXCEPT !.blur.functions = @ \cup {[kind |-> kind, made |-> Options(T)]}]
GetSrcBlurFragmentFunction(T) == GetFunction(T, "src")
GetDstBlurFragmentFunction(T) == GetFunction(T, "dst")

(* What comes of drawing what is behind a window: the part to be drawn      *)
(* holds nothing that is blurred, the program does not load, the frame      *)
(* buffer is incomplete, or all goes well.                                  *)
Drawing == {"hidden", "unloaded", "incomplete", "drawn"}

(* The program holds distances in units of the texture's size.              *)
LoadFilterProgram(T, drawing) ==
    IF T.blur.program # {} \/ drawing = "unloaded" THEN T
    ELSE [T EXCEPT !.blur.program = {[made |-> Options(T), size |-> T.blur.size]}]

(* The frame buffer is checked at its first use, and given up if it fails.  *)
FboUpdate(T, drawing) ==
    LET U == LoadFilterProgram(T, drawing)
    IN  IF U.blur.program = {} \/ U.blur.fbo = "none" THEN U
        ELSE [U EXCEPT !.blur.fbo = IF @ = "new" /\ drawing = "incomplete" THEN "none"
                                    ELSE "ready"]

(* updateDstTexture.  The textures are made anew when the screen's size is  *)
(* not the one they were made for; the second is for the Gaussian filter,   *)
(* for which the frame buffer is made, where there are any (ext).           *)
UpdateDstTexture(T, drawing) ==
    LET gaussian == T.blur.filter = "gaussian"
        remake == T.blur.size # T.scr.size
        U == IF ~remake THEN T
             ELSE [T EXCEPT !.blur.size = T.scr.size,
                            !.blur.texture = [i \in 0 .. 1 |->
                                IF i = 0 \/ gaussian THEN T.scr.size ELSE @[i]],
                            !.blur.fbo = IF (gaussian /\ T.blur.ext) \/ @ # "none" THEN "new"
                                         ELSE @]
    IN  IF gaussian THEN FboUpdate(U, drawing) ELSE U
DstReady(T) == T.blur.filter = "gaussian" => T.blur.program # {} /\ T.blur.fbo = "ready"

(* glDrawTexture: the blur of the window itself, and that behind it.        *)
BlurGlDrawTexture(T, w, active) ==
    LET U == IF T.win[w].blur.level > 0 THEN GetSrcBlurFragmentFunction(T) ELSE T
    IN  IF active THEN GetDstBlurFragmentFunction(U) ELSE U

(* glDraw: only what shows something behind it needs what is there; with a  *)
(* stencil buffer, without which no clipped part is.                        *)
BlurGlDraw(T, w, drawing) ==
    LET b == T.win[w].blur
        on == /\ T.blur.alpha
              /\ b.threshold["decor"] \/ (b.threshold["client"] /\ T.win[w].want.o < Opaque)
        V == UpdateDstTexture(T, drawing)
    IN  IF on /\ drawing # "hidden" /\ b.region.parts # {}
        THEN BlurGlDrawTexture(V, w, DstReady(V)) ELSE BlurGlDrawTexture(T, w, FALSE)

BlurReset(T) ==
    [T EXCEPT !.blur.functions = {}, !.blur.size = NoTexture, !.blur.program = {}]

-----------------------------------------------------------------------------
(* setOption.                                                               *)
SetFocusBlur(T) == DamageScreen(MoreBlur([T EXCEPT !.blur.focusOption = ~@]))
SetMatches(T, w, focus, alpha) ==
    DamageScreen(MoreBlur(OnWindows(
        [T EXCEPT !.win[w].focusMatch = focus, !.win[w].alphaMatch = alpha], UpdateMatch)))
SetAlphaBlur(T) == DamageScreen([T EXCEPT !.blur.alpha = ~@])
SetFilter(T, f) == DamageScreen(BlurReset([T EXCEPT !.blur.filter = f]))
SetSaturation(T) == DamageScreen(BlurReset([T EXCEPT !.blur.sat = ~@]))
(* Which of the windows below are left out is a matter of pixels.           *)
SetOcclusion(T) == DamageScreen(BlurReset(T))
SetMipmapLod(T) == IF T.blur.filter = "mipmap" THEN DamageScreen(BlurReset(T)) ELSE T
SetGaussian(T) ==
    LET U == [T EXCEPT !.blur.radius = ~@]
    IN  IF T.blur.filter = "gaussian" THEN DamageScreen(BlurReset(U)) ELSE U
==============================================================================
