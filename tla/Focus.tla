--------------------------------- MODULE Focus ---------------------------------
(***************************************************************************)
(* The input focus.  The X server has the focus; compiz asks for a change  *)
(* and learns by FocusIn what became of it.  What it believes is in        *)
(* activeWindow (the last FocusIn) and nextActiveWindow (what it asked     *)
(* for); the order in which windows were active decides which one gets the *)
(* focus when a window goes away.  Under click-to-focus the buttons of     *)
(* each frame are grabbed as far as compiz has to hear of the clicks.      *)
(*                                                                         *)
(* S carries on the record of Stacking: active and next as in the code,    *)
(* focus that of the server ("root", "pointer" for PointerRoot, or a       *)
(* window), recent the windows by activeNum, history the list of the       *)
(* current viewport, grab the passive grab of each frame, below the window *)
(* the pointer entered, pointer where it is, asked the windows that are to *)
(* take the focus themselves, raiser the autoraise timer, session the      *)
(* options.  All windows overlap.                                          *)
(***************************************************************************)
EXTENDS Stacking

NoTime == -1

-----------------------------------------------------------------------------
(* The X server.                                                           *)

\* an input focus change is told by FocusIn; the root hears from a window as Inferior
FocusIn(S, f) ==
    [S EXCEPT !.focus = f,
              !.events = Append(@, [type |-> "FocusIn", win |-> f,
                                    above |-> IF f = "root" /\ S.focus \in Windows
                                              THEN "Inferior" ELSE "Nonlinear"])]

\* XSetInputFocus: an error unless the window is viewable
XSetInputFocus(S, f) ==
    IF f = S.focus \/ (f \in Windows /\ ~S.win[f].mapped) THEN S ELSE FocusIn(S, f)

\* a window goes from the screen; the focus compiz gives reverts to PointerRoot, which
\* no window but the root hears of (as Pointer, which is ignored)
XUnmap(S, w) ==
    IF ~S.win[w].mapped THEN S
    ELSE [S EXCEPT !.win[w].mapped = FALSE,
                   !.focus = IF @ = w THEN "pointer" ELSE @,
                   !.events = Append(@, [type |-> "UnmapNotify", win |-> w,
                                         above |-> NoWindow])]

XMap(S, w) ==
    IF S.win[w].mapped \/ ~S.win[w].alive THEN S
    ELSE [S EXCEPT !.win[w].mapped = TRUE,
                   !.events = Append(@, [type |-> "MapNotify", win |-> w,
                                         above |-> NoWindow])]

-----------------------------------------------------------------------------
(* The passive grabs of the buttons of a frame.                            *)

\* updatePassiveButtonGrabs: everything, unless the window is active (or the focus
\* follows the pointer) and nothing that could be raised over is above it
UpdatePassiveButtonGrabs(S, w) ==
    LET onlyActions ==
            /\ w = S.active \/ ~S.session.clickToFocus
            /\ S.session.raiseOnClick =>
                 ~\E i \in DOMAIN S.stack :
                     /\ i > PlaceOf(S, w)
                     /\ S.win[S.stack[i]].viewable
                     /\ TypeOf(S, S.stack[i]) # "dock"
    IN IF ~S.win[w].framed THEN S
       ELSE [S EXCEPT !.grab[w] = IF onlyActions THEN "actions" ELSE "all"]

UpdateGrabsOf(S, w) == IF Has(S, w) THEN UpdatePassiveButtonGrabs(S, w) ELSE S

-----------------------------------------------------------------------------
(* Who may have the focus, and who comes first.                            *)

\* CompWindow::focus; all windows are on the screen, minimized ones are hidden
MayFocus(S, w) ==
    /\ ~S.win[w].override
    /\ S.win[w].managed
    /\ ~S.win[w].gone
    /\ ~S.win[w].hidden

\* the place of w in a list, 0 when it is not there
Place(list, w) ==
    IF w \in ToSet(list) THEN CHOOSE i \in DOMAIN list : list[i] = w ELSE 0

\* compareWindowActiveness (v, w) < 0: first who comes first in the history of this
\* viewport, then who was active last
LessActive(S, v, w) ==
    LET first == SelectSeq(S.history, LAMBDA u : u \in {v, w})
    IN IF first # <<>> THEN Head(first) = w
       ELSE Place(S.recent, w) > Place(S.recent, v)

\* the choice both searches make down the stack: the first that may have the focus,
\* then any ordinary window that was active later
MostActive(S, among) ==
    FoldLeft(LAMBDA acc, w :
                 IF acc = NoWindow THEN w
                 ELSE IF /\ TypeOf(S, w) \in {"normal", "dialog", "modal"}
                         /\ LessActive(S, acc, w)
                      THEN w ELSE acc,
             NoWindow, SelectSeq(Reverse(S.stack), LAMBDA w : w \in among /\ MayFocus(S, w)))

\* getModalTransient: the modal dialog that has the focus instead of w
ModalTransient(S, w) ==
    LET dialogs(v, list) == SelectSeq(Reverse(list), LAMBDA u :
                        u # v /\ S.win[u].viewable /\ S.win[u].trans = v /\ S.win[u].modal)
        \* the search for a dialog of the dialog misses the top of the stack
        down[n \in 0 .. Cardinality(Windows), v \in Windows] ==
            LET found == dialogs(v, IF v = w THEN S.stack ELSE Front(S.stack))
            IN IF n = 0 \/ found = <<>> THEN v ELSE down[n - 1, Head(found)]
        last == down[Cardinality(Windows), w]
        group == SelectSeq(Reverse(S.stack), LAMBDA u :
                     /\ u # w /\ S.win[u].viewable /\ ~IsAncestorTo(S, w, u)
                     /\ IsGroupTransient(S, u, S.win[w].leader) /\ S.win[u].modal)
    IN IF last # w THEN last
       ELSE IF S.win[w].modal \/ group = <<>> THEN NoWindow
       ELSE down[Cardinality(Windows), Head(group)]

-----------------------------------------------------------------------------
(* Moving the focus.                                                       *)

\* moveInputFocusTo, for the window that is to have it in the end: the frame of a
\* hidden window takes it, a window with an input hint gets it, one that takes the
\* focus is asked, else the closest ancestor is tried
MoveInputFocusTo(S, w) ==
    LET Or(modal, v) == IF modal = NoWindow THEN v ELSE modal
        heir(v) == Or(ModalTransient(S, v), v)
        plain(v) == ~S.win[v].hidden /\ ~S.win[v].input /\ ~S.win[v].take
        ancestors(v) == SelectSeq(S.stack, LAMBDA u : IsAncestorTo(S, v, u))
        Up(v) == IF plain(v) /\ ancestors(v) # <<>> THEN Head(ancestors(v)) ELSE NoWindow
        to[n \in 0 .. Cardinality(Windows), v \in Windows] ==
            LET Further(u) == IF n = 0 \/ Up(u) = NoWindow THEN u ELSE to[n - 1, Up(u)]
            IN Further(heir(v))
        Give(v) == IF S.win[v].hidden \/ plain(v) THEN S
                   ELSE [IF S.win[v].input THEN XSetInputFocus(S, v) ELSE S EXCEPT
                            !.next = v, !.asked = IF S.win[v].take THEN @ \cup {v} ELSE @]
    IN Give(to[Cardinality(Windows), w])

\* focusDefaultWindow: under the pointer when the focus follows it, else the window
\* that was active last; the root when there is none
FocusDefaultWindow(S) ==
    LET plain(w) == Has(S, w) /\ TypeOf(S, w) \notin {"desktop", "dock"}
        known(w) == Has(S, w) /\ ~S.win[w].override /\ MayFocus(S, w)
        here == IF S.session.clickToFocus THEN NoWindow
                ELSE IF known(S.below)
                THEN IF plain(S.below) THEN S.below ELSE NoWindow
                ELSE IF known(S.pointer) /\ plain(S.pointer) THEN S.pointer ELSE NoWindow
        To(w) == IF w = NoWindow THEN XSetInputFocus(S, "root")
                 ELSE IF w = S.active THEN S ELSE MoveInputFocusTo(S, w)
    IN To(IF here # NoWindow THEN here
          ELSE MostActive(S, {w \in Windows : TypeOf(S, w) # "dock"}))

\* focusTopMostWindow
FocusTopMostWindow(S) ==
    LET able == SelectSeq(Reverse(S.stack),
                          LAMBDA w : TypeOf(S, w) # "dock" /\ MayFocus(S, w))
    IN IF able = <<>> THEN [S |-> XSetInputFocus(S, "root"), focus |-> NoWindow]
       ELSE [S |-> IF Head(able) = S.active THEN S ELSE MoveInputFocusTo(S, Head(able)),
             focus |-> Head(able)]

\* mutant: a window that has asked for the focus and not got it yet hands nothing on
HandOnIfActive(S, w) ==
    IF w # S.active THEN S ELSE FocusDefaultWindow(S)

\* moveInputFocusToOtherWindow: to the parent of a transient, to the group of another
\* dialog, else to the default
MoveInputFocusToOtherWindow(S, w) ==
    LET parent == S.win[w].trans
        kin == MostActive(S, {a \in Windows : S.win[a].leader = S.win[w].leader})
        heir == IF parent # NoWindow THEN IF Has(S, parent) THEN parent ELSE NoWindow
                ELSE IF TypeOf(S, w) \in Dialogs THEN kin ELSE NoWindow
    IN IF w \notin {S.active, S.next} THEN S
       ELSE IF heir = NoWindow \/ TypeOf(S, heir) \in {"desktop", "dock"}
       THEN FocusDefaultWindow(S)
       ELSE MoveInputFocusTo(S, heir)

\* lower: the stack, then under click-to-focus the focus goes to the top of the other
\* windows, and back when that is the desktop
LowerFocus(S, w, low) ==
    LET Back(T, to) == IF to # NoWindow /\ TypeOf(S, to) = "desktop"
                       THEN MoveInputFocusTo(T, w) ELSE T
        Focused(top) == Back([top.S EXCEPT !.stack = low.stack], top.focus)
    IN Focused(FocusTopMostWindow([low EXCEPT !.stack = SelectSeq(@, LAMBDA v : v # w)]))

Lower(S, w) ==
    LET After(low) == IF S.session.clickToFocus THEN LowerFocus(S, w, low) ELSE low
    IN After(LowerStack(S, w))

-----------------------------------------------------------------------------
(* Focus stealing prevention.                                              *)

\* XSERVER_TIME_IS_BEFORE, for times that have not wrapped around
TimeIsBefore(a, b) == a = 0 \/ (a < b /\ b # 0)

\* isWindowFocusAllowed: stamp is what the request carries, 0 for none.  Windows are
\* on the current desktop and viewport, and the match is "any".
IsWindowFocusAllowed(S, w, stamp) ==
    LET level == S.session.level
        parent == S.win[w].trans
        own == IF S.win[w].time = NoTime /\ Has(S, parent)
               THEN S.win[parent].time ELSE S.win[w].time
        time == IF stamp # 0 THEN stamp ELSE own
        known == Has(S, S.active)
    IN \/ level = "Off"
       \/ /\ time # 0
          /\ level # "VeryHigh"
          /\ \/ ~known
             \/ TypeOf(S, S.active) = "desktop"
             \/ S.win[w].leader = S.win[S.active].leader
             \/ /\ level # "High"
                /\ IF time = NoTime THEN level # "Normal"
                   ELSE \/ S.win[S.active].time = NoTime
                        \/ ~TimeIsBefore(time, S.win[S.active].time)

\* allowWindowFocus; types are never focused.  A window that is denied the focus
\* demands attention.
AllowWindowFocus(S, w, types, stamp) ==
    \/ w = S.active
    \/ /\ TypeOf(S, w) \notin types
       /\ S.win[w].input \/ S.win[w].take
       /\ IsWindowFocusAllowed(S, w, stamp)

DemandsAttention(S, w, types, stamp) ==
    IF /\ ~AllowWindowFocus(S, w, types, stamp) /\ TypeOf(S, w) \notin types
       /\ S.win[w].input \/ S.win[w].take
    THEN [S EXCEPT !.win[w].attention = TRUE] ELSE S

-----------------------------------------------------------------------------
(* What the server says about focus and pointer.                           *)

\* addToCurrentActiveWindowHistory
AddToHistory(list, w) == <<w>> \o SelectSeq(list, LAMBDA v : v # w)

\* mutant: the window that was active keeps its grab
OldGrabStays(S, w, detail) ==
    LET told == [S EXCEPT !.active = w,
                          !.recent = SelectSeq(@, LAMBDA v : v # w) \o <<w>>]
        active == IF w = S.active THEN S
                  ELSE [UpdatePassiveButtonGrabs(told, w)
                            EXCEPT !.history = AddToHistory(@, w)]
    IN IF Has(S, w) /\ ~S.win[w].override /\ S.win[w].managed
       THEN [active EXCEPT !.next = IF @ = w THEN NoWindow ELSE @]
       ELSE S

\* FocusIn of a managed window makes it the active one; of the root, when the focus
\* came from a window, it is sent back to the default window
HandleFocusIn(S, w, detail) ==
    LET told == [S EXCEPT !.active = w,
                          !.recent = SelectSeq(@, LAMBDA v : v # w) \o <<w>>]
        regrabbed == UpdatePassiveButtonGrabs(UpdateGrabsOf(told, S.active), w)
        active == IF w = S.active THEN S
                  ELSE [regrabbed EXCEPT !.history = AddToHistory(@, w)]
    IN IF Has(S, w) /\ ~S.win[w].override /\ S.win[w].managed
       THEN [active EXCEPT !.win[w].attention = FALSE,
                           !.next = IF @ = w THEN NoWindow ELSE @]
       ELSE IF w = "root" /\ detail = "Inferior"
       THEN FocusDefaultWindow([S EXCEPT !.active = NoWindow])
       ELSE S

\* EnterNotify: focus and autoraise when the focus follows the pointer
HandleEnterNotify(S, w) ==
    LET entered == [S EXCEPT !.below = w]
        stopped == IF entered.raiser # NoWindow /\ entered.raiser # w
                   THEN [entered EXCEPT !.raiser = NoWindow] ELSE entered
        Raised(T) == CASE S.session.autoraise = "late" -> [T EXCEPT !.raiser = w]
                       [] S.session.autoraise = "now" -> UpdateStacking(T, w, "Normal")
                       [] OTHER -> T
    IN IF ~Has(S, w) \/ S.win[w].override \/ w = S.below THEN S
       ELSE IF S.session.clickToFocus THEN entered
       ELSE IF TypeOf(S, w) \in {"dock", "desktop"} THEN stopped
       ELSE Raised(MoveInputFocusTo(stopped, w))

HandleLeaveNotify(S, w) == IF w = S.below THEN [S EXCEPT !.below = NoWindow] ELSE S

\* autoRaiseTimeout: still the active window, or the parent of it
AutoRaiseTimeout(S) ==
    LET w == S.raiser
        still == w = S.active \/ (Has(S, S.active) /\ S.win[S.active].trans = w)
        over == [S EXCEPT !.raiser = NoWindow]
    IN IF still /\ Has(S, w) THEN UpdateStacking(over, w, "Normal") ELSE over

\* ButtonPress on a frame: raise and focus
HandleClick(S, w) ==
    LET Focused(T) == IF w # S.active /\ TypeOf(S, w) # "dock" /\ MayFocus(S, w)
                      THEN MoveInputFocusTo(T, w) ELSE T
    IN IF ~Has(S, w) \/ S.win[w].override THEN S
       ELSE Focused(IF S.session.raiseOnClick THEN UpdateStacking(S, w, "AboveFullscreen")
                    ELSE S)

=============================================================================
