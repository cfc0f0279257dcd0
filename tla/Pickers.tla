------------------------------- MODULE Pickers -------------------------------
(* The plugins with which a user picks a window: scale and switcher.         *)
EXTENDS Grabs

-----------------------------------------------------------------------------
(* The scale plugin: all windows side by side, one of them to be chosen.   *)
(*                                                                         *)
(* The mode is Idle, Out (windows move to their slots), Wait (they are     *)
(* there) or In (they go back).  "grab" says that the mode is on: with a   *)
(* grab of the screen (handle), or, when something is dragged over an      *)
(* edge, with a window that covers the screen and no grab; dnd says that   *)
(* this window has been created: messages to it may come late.             *)

CONSTANTS
    KeyToggle,     \* the option key_bindings_toggle, or a key without modifiers
    ButtonToggle,  \* the option button_bindings_toggle
    ClickToFocus,  \* the core option click_to_focus
    ShowDesktop    \* the option show_desktop of scale

NoScale == [state |-> "Idle", grab |-> FALSE, handle |-> Null, dnd |-> FALSE,
            term |-> {}, windows |-> {}, slots |-> {}, settled |-> TRUE, hooks |-> FALSE,
            selected |-> NoWindow, previous |-> NoWindow, type |-> "Normal",
            hover |-> "off"]

On(S) == S.scale.state \in {"Out", "Wait"}

StageAfter == [MapNotify |-> "mapped", UnmapNotify |-> "minimized",
               ClientUnmap |-> "unmapped", DestroyNotify |-> "gone"]

\* the stage of w once what the server has told of it is handled
Stage(S, w) ==
    LET told == SelectSeq(S.events, LAMBDA e : e.win = w /\ e.type \in DOMAIN StageAfter)
    IN IF told = <<>> THEN S.win[w].stage ELSE StageAfter[Last(told).type]

\* CompWindow::moveInputFocusTo: the server refuses a window it does not show; its
\* FocusIn comes back at once
Focus(S, w) ==
    IF Found(S, w) /\ Stage(S, w) = "mapped" THEN [S EXCEPT !.active = w] ELSE S

Notify(S, type, w) ==
    [S EXCEPT !.events = Append(@, [type |-> type, win |-> w, to |-> S.win[w].x])]

\* CompWindow::activate: a window that is minimized, or hidden to show the desktop, is
\* mapped first
Activate(S, w) ==
    IF ~Found(S, w) THEN S
    ELSE Focus(IF Stage(S, w) = "minimized" THEN Notify(S, "MapNotify", w) ELSE S, w)

\* enterShowDesktopMode: every window but one that is grabbed is hidden; it is then
\* like a minimized one
EnterShowDesktop(S) ==
    LET hide == {w \in Windows \ {S.move.w, S.resize.w} :
                     S.win[w].stage = "mapped" /\ Stage(S, w) = "mapped"}
    IN FoldSet(LAMBDA w, T : Notify(T, "UnmapNotify", w), S, hide)

\* layoutThumbs: every window of the mode gets a slot; FALSE when there is none
LayoutThumbs(S) ==
    [S EXCEPT !.scale.windows = Mapped(S), !.scale.slots = Mapped(S),
              !.scale.settled = @ /\ S.scale.slots = {} /\ Mapped(S) = {}]

\* preparePaint: the windows come nearer to their places, or are there
ScalePrepare(S, there) ==
    IF S.scale.hooks /\ S.scale.state \in {"Out", "In"}
    THEN [S EXCEPT !.scale.settled = @ \/ there] ELSE S

\* donePaint, after preparePaint of the same frame
ScaleDone(S) ==
    IF ~S.scale.hooks \/ ~S.scale.settled THEN S
    ELSE CASE S.scale.state = "In" ->
                [S EXCEPT !.scale.state = "Idle", !.scale.hooks = FALSE]
           [] S.scale.state = "Out" -> [S EXCEPT !.scale.state = "Wait"]
           [] OTHER -> S

\* actionShouldToggle; by is what the call came from
Toggles(by) ==
    \/ by = "edge"
    \/ by = "key" /\ KeyToggle
    \/ by = "button" /\ ButtonToggle

\* scaleTerminate, with the choice of windows cancelled or not
ScaleTerminate(S, by, cancel) ==
    IF Toggles(by) \/ ~S.scale.grab THEN S
    ELSE LET T == [RemoveGrab(S, S.scale.handle) EXCEPT
                      !.scale.handle = Null, !.scale.grab = FALSE]
             U == IF cancel THEN Focus(T, S.scale.previous)
                  ELSE IF S.scale.state # "In" THEN Activate(T, S.scale.selected) ELSE T
         IN IF S.scale.state = "Idle" THEN T
            ELSE [U EXCEPT !.scale.settled = @ /\ S.scale.slots = {},
                           !.scale.slots = {}, !.scale.state = "In"]

\* scaleInitiateCommon
ScaleStart(S, by) ==
    LET T == LayoutThumbs(S)
        U == IF by = "edgeDnd" THEN [T EXCEPT !.scale.dnd = TRUE, !.scale.grab = TRUE]
             ELSE IF T.scale.handle # Null THEN T
             ELSE [PushGrab(T, "scale") EXCEPT
                      !.scale.handle = Pushed(T), !.scale.grab = @ \/ CanPush(T)]
    IN IF OtherGrabExist(S, {"scale"}) THEN S
       ELSE IF T.scale.windows = {} THEN T
       ELSE IF ~U.scale.grab THEN U
       ELSE [U EXCEPT !.scale.state = "Out", !.scale.hooks = TRUE,
                      !.scale.previous = S.active, !.scale.selected = S.active]

\* scaleInitiate: in the mode, a toggle of the same type ends it
ScaleInitiate(S, by, type) ==
    LET T == ScaleStart([S EXCEPT !.scale.type = type], by)
    IN IF Toggles(by) /\ On(S)
       THEN IF S.scale.type = type THEN ScaleTerminate(S, "call", TRUE) ELSE S
       ELSE IF OtherGrabExist(S, {"scale"}) \/ T.scale.windows = {} THEN T
       ELSE [T EXCEPT !.scale.term = @ \cup ({by} \cap {"key", "button"})]

\* the key or the button is released; scaleTerminate never clears StateTermKey
ScaleRelease(S, by) ==
    IF by \in S.scale.term THEN ScaleTerminate(S, by, FALSE) ELSE S

\* the plugin ends the mode by calling scaleTerminate for the edge and the key
ScaleEnd(S, cancel) == ScaleTerminate(S, "call", cancel)

\* scaleSelectWindow and, by a click, focus; w: the window whose slot the pointer
\* is in, or NoWindow
SelectWindowAt(S, w, focus) ==
    IF w \notin S.scale.slots \cap Mapped(S) THEN S
    ELSE LET T == [S EXCEPT !.scale.selected = w]
         IN IF focus THEN Focus(T, w) ELSE T

\* moveFocusWindow: an arrow key goes to another window that has a slot
MoveFocusWindow(S, w) ==
    IF S.scale.handle = Null \/ w \notin S.scale.slots THEN S
    ELSE Focus([S EXCEPT !.scale.selected = w], w)

\* handleEvent: a press of a button over w's slot, or beside the slots, then over the
\* work area or not
ScalePress(S, b, w, workArea) ==
    IF S.scale.handle = Null \/ S.scale.state = "In" THEN S
    ELSE LET T == SelectWindowAt(S, w, TRUE)
         IN IF b # 1 THEN T
            ELSE IF w \in S.scale.slots \cap Mapped(S) THEN ScaleEnd(T, FALSE)
            ELSE IF ShowDesktop /\ workArea THEN EnterShowDesktop(ScaleEnd(T, FALSE))
            ELSE T

ScaleMotion(S, w) ==
    IF S.scale.handle = Null \/ S.scale.state = "In" THEN S
    ELSE SelectWindowAt(S, w, ClickToFocus)

\* XdndPosition on the window that covers the screen: the hover timer starts
\* anew over a window and stops beside the windows
ScaleDndPosition(S, w) ==
    IF ~S.scale.grab \/ ~S.scale.dnd \/ S.scale.state = "In" THEN S
    ELSE IF w \in S.scale.slots \cap Mapped(S)
    THEN [SelectWindowAt(S, w, ClickToFocus) EXCEPT !.scale.hover = "on"]
    ELSE [S EXCEPT !.scale.hover = "off"]

\* XdndDrop and XdndLeave
ScaleDndLeave(S) ==
    IF S.scale.grab /\ S.scale.dnd /\ S.scale.state # "In" THEN ScaleEnd(S, FALSE) ELSE S

\* hoverTimeout
ScaleHover(S) ==
    LET T == [S EXCEPT !.scale.hover = "off"]
    IN IF S.scale.grab /\ S.scale.state # "In"
       THEN ScaleEnd(Focus(T, S.scale.selected), FALSE) ELSE T

\* windowRemove, after the core has handled UnmapNotify or DestroyNotify of w
ScaleWindowRemove(S, w) ==
    IF ~On(S) \/ w \notin S.scale.windows THEN S
    ELSE LET T == LayoutThumbs(S)
         IN IF T.scale.windows # {} THEN [T EXCEPT !.scale.state = "Out"]
            ELSE ScaleEnd(T, TRUE)


-----------------------------------------------------------------------------
(* The switcher plugin and the parts of compiztoolbox under it: a list of  *)
(* windows made when the mode starts, one of them selected.  Windows that  *)
(* go while the mode is on are taken out of the list; of two windows the   *)
(* list holds each twice, so that there is something to scroll.            *)

CONSTANTS
    ShowMinimized,  \* the option minimized of switcher
    Zooming,        \* the option zoom of switcher is not zero
    FocusOnSwitch   \* the option focus_on_switch

NoSwitch == [handle |-> Null, switching |-> FALSE, list |-> <<>>, selected |-> NoWindow,
             zoomed |-> NoWindow, last |-> NoWindow, popup |-> FALSE, heard |-> FALSE,
             hooks |-> FALSE, more |-> FALSE, termKey |-> FALSE]

\* isSwitchWin of a window that stays
SwitchWindows(S) ==
    LET stages == IF ShowMinimized THEN {"mapped", "minimized"} ELSE {"mapped"}
    IN {w \in Windows : S.win[w].stage \in stages}

Twice(list) == IF Len(list) = 2 THEN list \o list ELSE list

\* createWindowList: the windows that are mapped come first, and of them the active one
CreateWindowList(S) ==
    LET ws == SwitchWindows(S)
        first == ws \cap {S.active}
    IN Twice(SetToSeq(first) \o SetToSeq((ws \cap Mapped(S)) \ first)
             \o SetToSeq(ws \ (Mapped(S) \cup first)))

\* SwitchScreen::initiate
SwitchInitiate(S, showPopup) ==
    IF OtherGrabExist(S, {"switcher"}) THEN S
    ELSE IF SwitchWindows(S) = {} THEN [S EXCEPT !.switch.selected = NoWindow]
    ELSE LET T == [S EXCEPT !.switch.selected = NoWindow,
                            !.switch.popup = @ \/ showPopup]
             U == IF T.switch.handle # Null THEN T
                  ELSE [PushGrab(T, "switcher") EXCEPT
                           !.switch.handle = Pushed(T)]
             list == CreateWindowList(U)
             V == IF U.switch.switching THEN U
                  ELSE [U EXCEPT !.switch.list = list, !.switch.selected = Head(list),
                                 !.switch.last = U.active]
             X == IF ~U.switch.switching /\ showPopup /\ FocusOnSwitch
                  THEN Focus(V, Head(list)) ELSE V
         IN IF U.switch.handle = Null THEN U
            ELSE [X EXCEPT !.switch.switching = TRUE, !.switch.more = TRUE,
                           !.switch.heard = TRUE, !.switch.hooks = TRUE]

\* switchTerminate; "call": windowRemove calls it with no state.  The selected window is
\* activated by a message to the root window, which comes back after what is queued.
SwitchTerminate(S, by) ==
    LET s == S.switch
        T == IF by = "cancel" THEN Focus(S, s.last)
             ELSE IF by # "call" /\ Found(S, s.selected) THEN Notify(S, "Activate", s.selected)
             ELSE S
        U == [RemoveGrab(T, s.handle) EXCEPT
                 !.switch.handle = Null, !.switch.switching = FALSE,
                 !.switch.selected = NoWindow, !.switch.heard = @ /\ s.popup,
                 !.switch.zoomed = IF Zooming /\ by # "cancel" THEN @ ELSE NoWindow,
                 !.switch.more = @ \/ Zooming]
    IN [(IF s.handle = Null THEN S ELSE U) EXCEPT !.switch.termKey = FALSE]

\* BaseSwitchScreen::switchToWindow and SwitchScreen::switchToWindow; the first
\* place of the selected window counts
SwitchToWindow(S, next) ==
    LET s == S.switch
        len == Len(s.list)
        at == {i \in 1 .. len : s.list[i] = s.selected}
        cur == Min(at)
        w == s.list[(IF next THEN cur % len ELSE (cur + len - 2) % len) + 1]
        T == [S EXCEPT !.switch.selected = w, !.switch.more = @ \/ w # s.selected,
                       !.switch.zoomed = IF @ = NoWindow THEN w ELSE @]
    IN IF s.handle = Null \/ at = {} THEN S
       ELSE IF s.popup /\ FocusOnSwitch THEN Focus(T, w) ELSE T

\* switchInitiateCommon
SwitchInitiateCommon(S, showPopup, next) ==
    SwitchToWindow(IF S.switch.switching THEN S
                   ELSE [SwitchInitiate(S, showPopup) EXCEPT !.switch.termKey = TRUE],
                   next)

\* windowRemove: the first place of w goes; two windows that are left are shown
\* twice again, and one window once
SwitchWindowRemove(S, w) ==
    LET s == S.switch
        at == {i \in DOMAIN s.list : s.list[i] = w}
        i == Min(at)
        list == RemoveAt(s.list, i)
        selected == IF w # s.selected THEN s.selected
                    ELSE IF w = Last(s.list) THEN s.list[1] ELSE s.list[i + 1]
        left == IF Len(list) = 2 /\ list[1] = list[2] THEN Tail(list) ELSE Twice(list)
        T == [S EXCEPT !.switch.list = left]
        found == IF \E j \in DOMAIN left : left[j] = selected THEN selected ELSE Last(left)
        U == [T EXCEPT !.switch.selected = found,
                       !.switch.zoomed = IF found # s.selected THEN found ELSE @]
    IN IF at = {} THEN S
       ELSE IF list = <<>> THEN SwitchTerminate([S EXCEPT !.switch.list = <<>>], "call")
       ELSE IF s.handle = Null THEN T
       ELSE IF s.popup /\ FocusOnSwitch THEN Focus(U, found) ELSE U

\* BaseSwitchScreen::handleEvent, after the core has handled UnmapNotify or
\* DestroyNotify of w
SwitchLeft(S, w) == IF S.switch.heard THEN SwitchWindowRemove(S, w) ELSE S

\* preparePaint; there: the zoom and the scrolling are at their ends, which they are
\* only when the zoomed window is the selected one: the zoom of another ends first
SwitchPrepare(S, there) ==
    LET s == S.switch IN
    IF ~s.hooks \/ ~s.more \/ ~there THEN S
    ELSE IF Zooming /\ s.selected # s.zoomed THEN [S EXCEPT !.switch.zoomed = s.selected]
    ELSE LET T == [S EXCEPT !.switch.more = FALSE] IN
         IF ~Zooming \/ s.switching THEN T
         ELSE [RemoveGrab(T, s.handle) EXCEPT
                  !.switch.handle = Null, !.switch.selected = NoWindow,
                  !.switch.zoomed = NoWindow]

\* donePaint
SwitchDone(S) ==
    IF S.switch.hooks /\ S.switch.handle = Null /\ ~S.switch.more
    THEN [S EXCEPT !.switch.hooks = FALSE] ELSE S
==============================================================================
