-------------------------------- MODULE Desktop --------------------------------
(***************************************************************************)
(* Stacking and focus together: what clients, pagers and the user do, what *)
(* the X server reports, and what compiz makes of each event.  Events are  *)
(* handled in the order in which the server sent them; between an event    *)
(* and its handling anything else may happen.                              *)
(***************************************************************************)
EXTENDS Focus

CONSTANTS
    Sessions,    \* the options and windows to look at, and the bound on how often
                 \* clients and the user act (most)
    MaxEvents    \* bound: events on their way when they do

ASSUME DesktopAssumption == MaxEvents \in Nat

VARIABLES
    session,   \* options, the windows that may appear, and what is done to them
    stack,     \* the list of windows, bottom first
    server,    \* the order of the server
    events,    \* the events on their way
    win,       \* the windows
    active,    \* activeWindow
    next,      \* nextActiveWindow
    focus,     \* the focus of the server
    recent,    \* the windows in the order they were last active
    history,   \* the windows of the history, the latest first
    grab,      \* the passive button grab of each frame
    below,     \* the window the pointer entered last
    pointer,   \* the window the pointer is in
    asked,     \* windows that were told to take the focus
    raiser,    \* the window the autoraise timer is for
    batch,     \* processEvents is in its loop
    crossed,   \* the order of the server changed while a report of an earlier change
               \* was on its way
    hasty,     \* a window was shown again without the focus, or before the report
               \* that it was hidden had come
    inputs     \* how often clients and the user have acted

vars == <<session, stack, server, events, win, active, next, focus, recent, history,
          grab, below, pointer, asked, raiser, batch, crossed, hasty, inputs>>

S0 == [session |-> session, stack |-> stack, server |-> server, events |-> events,
       win |-> win, active |-> active, next |-> next, focus |-> focus,
       recent |-> recent, history |-> history, grab |-> grab, below |-> below,
       pointer |-> pointer, asked |-> asked, raiser |-> raiser]

\* the reports of the order that come before what the server does now
Reports == {"ConfigureNotify", "CreateNotify", "MapRequest", "ConfigureRequest"}
Late(queue) == \E i \in DOMAIN queue : queue[i].type \in Reports

Becomes(S, queue) ==
    /\ stack' = S.stack /\ server' = S.server /\ events' = S.events /\ win' = S.win
    /\ active' = S.active /\ next' = S.next /\ focus' = S.focus
    /\ recent' = S.recent /\ history' = S.history /\ grab' = S.grab
    /\ below' = S.below /\ pointer' = S.pointer /\ asked' = S.asked
    /\ raiser' = S.raiser
    /\ crossed' = (crossed \/ (S.server # server /\ Late(queue)))
    /\ UNCHANGED session

NewWindow(kind) ==
    [used |-> FALSE, alive |-> FALSE, made |-> FALSE, gone |-> FALSE, managed |-> FALSE, framed |-> FALSE,
     viewable |-> FALSE, mapped |-> FALSE, hidden |-> FALSE, below |-> FALSE,
     attention |-> FALSE, maps |-> 0, unmaps |-> 0] @@ kind

\* what the constructor of CompScreen finds, and the focus it gives
OldWindow(kind) ==
    [used |-> TRUE, alive |-> TRUE, made |-> TRUE, managed |-> ~kind.override, framed |-> ~kind.override,
     viewable |-> TRUE, mapped |-> TRUE] @@ NewWindow(kind)

Start(s) ==
    LET old == ToSet(s.present) IN
    FocusDefaultWindow(
        [session |-> s, stack |-> s.present, server |-> s.present, events |-> <<>>,
         win |-> [w \in Windows |-> IF w \in old THEN OldWindow(s.kind[w])
                                    ELSE NewWindow(s.kind[w])],
         active |-> NoWindow, next |-> NoWindow, focus |-> "root", recent |-> s.present,
         history |-> <<>>,
         grab |-> [w \in Windows |-> IF w \in old /\ ~s.kind[w].override THEN "all"
                                     ELSE "none"],
         below |-> NoWindow, pointer |-> NoWindow, asked |-> {}, raiser |-> NoWindow])

Init ==
    /\ session \in Sessions
    /\ \E S \in {Start(session)} :
       /\ stack = S.stack /\ server = S.server /\ events = S.events /\ win = S.win
       /\ active = S.active /\ next = S.next /\ focus = S.focus
       /\ recent = S.recent /\ history = S.history /\ grab = S.grab
       /\ below = S.below /\ pointer = S.pointer /\ asked = S.asked
       /\ raiser = S.raiser
    /\ batch = FALSE /\ crossed = FALSE /\ hasty = FALSE /\ inputs = 0

-----------------------------------------------------------------------------
(* Handling of an event (PrivateScreen::handleEvent of the core).          *)

\* hide and minimize: the frame is unmapped and the window is hidden
Minimize(S, w) ==
    IF ~S.win[w].managed \/ S.win[w].hidden THEN S
    ELSE XUnmap([S EXCEPT !.win[w].hidden = TRUE,
                          !.win[w].unmaps = IF S.win[w].viewable THEN @ + 1 ELSE @], w)

\* show and unminimize
Unminimize(S, w) ==
    IF ~S.win[w].hidden THEN S
    ELSE XMap([S EXCEPT !.win[w].hidden = FALSE, !.win[w].viewable = TRUE,
                        !.win[w].maps = @ + 1], w)

\* activate: it is shown, stacked and focused
Activate(S, w) ==
    MoveInputFocusTo(UpdateStacking(Unminimize(S, w), w, "AboveFullscreen"), w)

NoFocusTypes == {"desktop", "dock"}

\* manage; an InitialMap stacks in the list even before configureXWindow
Managed(S, w) ==
    LET added == IF S.win[w].made THEN S
                 ELSE [S EXCEPT !.stack = PutAbove(@, w, TopWindow(@)),
                                !.win[w].made = TRUE]
    IN UpdatePassiveButtonGrabs(
           [added EXCEPT !.win[w].managed = TRUE, !.win[w].framed = TRUE,
                         !.win[w].viewable = TRUE, !.win[w].maps = @ + 1], w)

\* processMap: stacked, shown and, if that is allowed, focused
ProcessMap(S, w, allowed) ==
    LET mode == IF ~allowed /\ TypeOf(S, w) \notin NoFocusTypes
                THEN "InitialMapDeniedFocus" ELSE "InitialMap"
        Focused(T) == IF allowed THEN MoveInputFocusTo(T, w) ELSE T
    IN Focused(XMap([UpdateStacking(DemandsAttention(S, w, NoFocusTypes, 0), w, mode)
                        EXCEPT !.win[w].hidden = FALSE], w))

HandleMapRequest(S, w) ==
    LET Process(T) == ProcessMap(T, w, AllowWindowFocus(T, w, NoFocusTypes, 0))
    IN IF S.win[w].gone THEN S ELSE Process(Managed(S, w))

\* what stood for w in the server's order is destroyed
XGone(S, w) == [S EXCEPT !.server = SelectSeq(@, LAMBDA v : v # w)]

\* unreparent: the window takes the place of its frame, if it still exists
Unreparent(S, w) ==
    LET S1 == [S EXCEPT !.win[w].framed = FALSE, !.grab[w] = "none"]
    IN IF S.win[w].framed /\ ~S.win[w].alive THEN XGone(S1, w) ELSE S1

\* UnmapNotify: of a hidden window, or a withdrawal
HandleUnmapNotify(S, w) ==
    LET counted == IF S.win[w].unmaps > 0 THEN [S EXCEPT !.win[w].unmaps = @ - 1]
                   ELSE Unreparent([S EXCEPT !.win[w].managed = FALSE,
                                             !.win[w].hidden = FALSE], w)
    IN IF ~Has(S, w) THEN S
       ELSE IF S.win[w].maps > 0 THEN counted
       ELSE MoveInputFocusToOtherWindow([counted EXCEPT !.win[w].viewable = FALSE], w)

\* MapNotify: the maps under way are over
HandleMapNotify(S, w) ==
    IF Has(S, w) THEN [S EXCEPT !.win[w].viewable = TRUE, !.win[w].maps = 0] ELSE S

HandleDestroyNotify(S, w) ==
    IF ~Has(S, w) THEN S
    ELSE Unreparent([MoveInputFocusToOtherWindow(S, w) EXCEPT
                        !.win[w].gone = TRUE, !.win[w].viewable = FALSE], w)

\* ConfigureNotify of a frame, or of a window without one: the grabs of the window
\* below are looked up by its frame, which is not found
HandleConfigureNotify(S, w, other) ==
    LET S1 == ConfigureNotify(S, w, other) IN
    IF ~Has(S, w) \/ ~S.win[w].framed THEN S1
    ELSE LET S2 == IF S1.stack # S.stack THEN UpdatePassiveButtonGrabs(S1, w) ELSE S1
         IN IF other \in Windows /\ ~S.win[other].framed
            THEN UpdateGrabsOf(S2, other) ELSE S2

\* above or below a sibling, or above or below all; the sibling may be gone
Restacked(S, w, detail, sibling) ==
    CASE sibling = NoWindow -> IF detail = "Above" THEN Raise(S, w) ELSE Lower(S, w)
      [] sibling # NoWindow /\ ~Has(S, sibling) -> S
      [] OTHER -> IF detail = "Above" THEN RestackAbove(S, w, sibling)
                                      ELSE RestackBelow(S, w, sibling)

\* ConfigureRequest with a stack mode: above only if the window may have the focus
HandleConfigureRequest(S, w, detail, sibling) ==
    IF ~Has(S, w) \/ ~S.win[w].managed THEN S
    ELSE IF detail = "Above" /\ ~AllowWindowFocus(S, w, NoFocusTypes, 0)
    THEN DemandsAttention(S, w, NoFocusTypes, 0)
    ELSE Restacked(S, w, detail, sibling)

\* _NET_RESTACK_WINDOW of a pager
HandleRestack(S, w, detail, sibling) ==
    IF Has(S, w) THEN Restacked(S, w, detail, sibling) ELSE S

\* _NET_ACTIVE_WINDOW: focus stealing prevention is for applications
HandleActivation(S, w, application, stamp) ==
    IF ~Has(S, w) \/ S.win[w].override THEN S
    ELSE IF ~application \/ AllowWindowFocus(S, w, {}, stamp) THEN Activate(S, w)
    ELSE DemandsAttention(S, w, {}, stamp)

\* _NET_WM_STATE: a state that decides the place in the stack is toggled
HandleState(S, w, state) ==
    IF ~Has(S, w) THEN S
    ELSE LET S1 == CASE state = "full" -> [S EXCEPT !.win[w].full = ~@]
                     [] state = "above" -> [S EXCEPT !.win[w].above = ~@]
                     [] state = "below" -> [S EXCEPT !.win[w].below = ~@]
         IN UpdateStacking(S1, w, "Normal")

Handle(S, e) ==
    CASE e.type = "MapRequest" -> HandleMapRequest(S, e.win)
      [] e.type = "CreateNotify" ->
           [S EXCEPT !.stack = PutAbove(@, e.win, TopWindow(@)),
                     !.win[e.win].made = TRUE]
      [] e.type = "MapNotify" -> HandleMapNotify(S, e.win)
      [] e.type = "UnmapNotify" -> HandleUnmapNotify(S, e.win)
      [] e.type = "DestroyNotify" -> HandleDestroyNotify(S, e.win)
      [] e.type = "ConfigureNotify" -> HandleConfigureNotify(S, e.win, e.above)
      [] e.type = "ConfigureRequest" -> HandleConfigureRequest(S, e.win, e.detail, e.above)
      [] e.type = "Restack" -> HandleRestack(S, e.win, e.detail, e.above)
      [] e.type = "Activate" -> HandleActivation(S, e.win, e.application, e.stamp)
      [] e.type = "State" -> HandleState(S, e.win, e.state)
      [] e.type = "ChangeState" -> IF ~Has(S, e.win) THEN S
                                   ELSE IF e.iconic THEN Minimize(S, e.win)
                                   ELSE Unminimize(S, e.win)
      [] e.type = "FocusIn" -> HandleFocusIn(S, e.win, e.above)
      [] e.type = "EnterNotify" -> HandleEnterNotify(S, e.win)
      [] e.type = "LeaveNotify" -> HandleLeaveNotify(S, e.win)
      [] e.type = "ButtonPress" -> HandleClick(S, e.win)

\* removeDestroyed, when processEvents begins
RemoveDestroyed(S) ==
    [S EXCEPT !.stack = SelectSeq(@, LAMBDA w : ~S.win[w].gone)]

HandleEvent ==
    /\ events # <<>>
    /\ LET S == [S0 EXCEPT !.events = Tail(@)]
       IN Becomes(Handle(IF batch THEN S ELSE RemoveDestroyed(S), Head(events)),
                  Tail(events))
    /\ batch' = (Tail(events) # <<>>)
    /\ LET e == Head(events)
       IN hasty' = (\/ hasty
                    \/ e.type = "ChangeState" /\ ~e.iconic /\ win[e.win].hidden
                    \/ \E w \in Windows : win'[w].maps > win[w].maps /\ win[w].unmaps > 0)
    /\ UNCHANGED inputs

AutoRaise ==
    /\ raiser # NoWindow
    /\ Becomes(AutoRaiseTimeout(S0), events)
    /\ UNCHANGED <<batch, hasty, inputs>>

-----------------------------------------------------------------------------
(* Clients, pagers and the user.                                           *)

Input(does, S) ==
    /\ does \in session.does
    /\ inputs < session.most /\ Len(events) <= MaxEvents
    /\ inputs' = inputs + 1
    /\ Becomes(S, events)
    /\ UNCHANGED <<batch, hasty>>

There(w) == win[w].alive

Send(S, e) == [S EXCEPT !.events = Append(@, e)]
Event(type, w) == [type |-> type, win |-> w, above |-> NoWindow]

\* a window appears: compiz is asked to map it, or, for one that overrides, told
ClientMaps(w) ==
    /\ ~win[w].used
    /\ LET S == [S0 EXCEPT !.server = Append(@, w), !.win[w].used = TRUE,
                             !.win[w].alive = TRUE]
       IN Input("map", IF ~win[w].override THEN Send(S, Event("MapRequest", w))
                       ELSE XMap(Send(S, Event("CreateNotify", w)), w))

\* a withdrawn window comes again
ClientMapsAgain(w) ==
    /\ There(w) /\ win[w].made /\ ~win[w].mapped /\ ~win[w].override
    /\ Input("unmap", Send(S0, Event("MapRequest", w)))

ClientUnmaps(w) ==
    /\ win[w].mapped
    /\ Input("unmap", XUnmap(S0, w))

ClientDestroys(w) ==
    /\ There(w)
    /\ LET S == XUnmap(S0, w)
           S1 == [S EXCEPT !.win[w].alive = FALSE]
       IN Input("destroy", Send(IF win[w].framed THEN S1 ELSE XGone(S1, w),
                                Event("DestroyNotify", w)))

\* a client restacks its window: a request, or done at once when it overrides
ClientRestacks(w, detail, sibling) ==
    /\ There(w) /\ sibling # w /\ (sibling # NoWindow => There(sibling))
    /\ detail = "Above" \/ ~win[w].override
    /\ Input("restack", IF win[w].override
                        THEN XRestack(S0, w, IF sibling = NoWindow
                                             THEN Last(SelectSeq(<<NoWindow>> \o server,
                                                                 LAMBDA v : v # w))
                                             ELSE sibling)
                        ELSE Send(S0, [type |-> "ConfigureRequest", win |-> w,
                                       above |-> sibling, detail |-> detail]))

PagerRestacks(w, detail, sibling) ==
    /\ There(w) /\ sibling # w /\ (sibling # NoWindow => There(sibling))
    /\ Input(IF sibling = NoWindow THEN detail ELSE "pager", Send(S0, [type |-> "Restack", win |-> w, above |-> sibling,
                                detail |-> detail]))

AsksActivation(w, application, stamp) ==
    /\ There(w) /\ (stamp # 0 => application)
    /\ Input(IF application THEN "ask" ELSE "activate", Send(S0, [type |-> "Activate", win |-> w, above |-> NoWindow,
                                   application |-> application, stamp |-> stamp]))

AsksState(w, state) ==
    /\ There(w) /\ ~win[w].override
    /\ Input(state, Send(S0, [type |-> "State", win |-> w, above |-> NoWindow,
                              state |-> state]))

AsksChangeState(w, iconic) ==
    /\ There(w) /\ ~win[w].override
    /\ Input("minimize", Send(S0, [type |-> "ChangeState", win |-> w, above |-> NoWindow,
                                   iconic |-> iconic]))

\* a client that was told to takes the focus
ClientTakesFocus(w) ==
    /\ w \in asked
    /\ Becomes([XSetInputFocus(S0, w) EXCEPT !.asked = @ \ {w}], events)
    /\ UNCHANGED <<batch, hasty, inputs>>

\* the pointer goes to another window
PointerMoves(w) ==
    /\ w # pointer
    /\ w # NoWindow => win[w].mapped
    /\ LET left == IF pointer = NoWindow THEN S0 ELSE Send(S0, Event("LeaveNotify", pointer))
           entered == IF w = NoWindow THEN left ELSE Send(left, Event("EnterNotify", w))
       IN Input("pointer", [entered EXCEPT !.pointer = w])

\* a click compiz hears of; the bindings of actions are not looked at here
UserClicks(w) ==
    /\ win[w].mapped /\ grab[w] = "all"
    /\ Input("click", Send(S0, Event("ButtonPress", w)))

Others(w) == (Windows \cup {NoWindow}) \ {w}

Next ==
    \/ HandleEvent
    \/ AutoRaise
    \/ \E w \in Windows :
         \/ ClientMaps(w) \/ ClientMapsAgain(w) \/ ClientUnmaps(w) \/ ClientDestroys(w)
         \/ \E detail \in {"Above", "Below"}, sibling \in Others(w) :
              ClientRestacks(w, detail, sibling) \/ PagerRestacks(w, detail, sibling)
         \/ \E application \in BOOLEAN, stamp \in {0, 1} :
              AsksActivation(w, application, stamp)
         \/ \E state \in {"full", "above", "below"} : AsksState(w, state)
         \/ \E iconic \in BOOLEAN : AsksChangeState(w, iconic)
         \/ ClientTakesFocus(w)
         \/ UserClicks(w)
    \/ \E w \in Windows \cup {NoWindow} : PointerMoves(w)

Spec == Init /\ [][Next]_vars

-----------------------------------------------------------------------------
(* What has to hold.                                                       *)

Resting == events = <<>> /\ asked = {}

TypeOK ==
    /\ session \in Sessions
    /\ ToSet(stack) \subseteq Windows /\ IsInjective(stack)
    /\ ToSet(server) \subseteq Windows /\ IsInjective(server)
    /\ active \in Windows \cup {NoWindow} /\ next \in Windows \cup {NoWindow}
    /\ focus \in Windows \cup {"root", "pointer"}
    /\ grab \in [Windows -> {"all", "actions", "none"}]
    /\ asked \subseteq Windows /\ raiser \in Windows \cup {NoWindow}
    /\ inputs \in 0 .. session.most

Live(list) == SelectSeq(list, LAMBDA w : Has(S0, w))

\* The list compiz keeps is the order of the server once all reports have come,
\* unless the order changed while a report was on its way: compiz changes its list
\* before the server does, and replays every report on it (reconfigureXWindow,
\* restack, configure).
StackAgrees == Resting /\ ~crossed => Live(stack) = Live(server)

\* A dialog is above the window it is transient for, however they and others were
\* mapped, raised, lowered and activated (stackTransients, stackAncestors).
TransientsAbove ==
    Resting /\ ~crossed =>
        \A w, v \in Windows :
            (/\ Has(S0, w) /\ win[w].managed /\ win[w].viewable
             /\ Has(S0, v) /\ win[v].managed /\ win[v].viewable
             /\ win[w].trans = v)
            => PlaceOf(S0, w) > PlaceOf(S0, v)

\* activeWindow is the window that has the focus once all events have been handled,
\* whichever windows asked for it, came and went (the FocusIn case of handleEvent).
FocusAgrees == Resting /\ focus \in Windows => active = focus

\* The focus is never left where no key press arrives while a window could have it:
\* whoever loses it, or loses what it had asked for, hands it on
\* (moveInputFocusToOtherWindow, focusDefaultWindow).
FocusSomewhere ==
    Resting /\ ~hasty /\ focus \notin Windows =>
        ~\E w \in Windows : /\ Has(S0, w) /\ win[w].mapped /\ MayFocus(S0, w)
                            /\ win[w].input \/ win[w].take
                            /\ TypeOf(S0, w) # "dock"

\* Under click-to-focus compiz hears a click on any window but the active one
\* (updatePassiveButtonGrabs and who calls it).
ClickReaches ==
    Resting /\ session.clickToFocus =>
        \A w \in Windows : Has(S0, w) /\ win[w].framed /\ win[w].mapped /\ w # active
                           => grab[w] = "all"

(* The stack: compiz' list is the server's, and dialogs are above.          *)
StackKept == StackAgrees /\ TransientsAbove

(* The focus: compiz knows who has it, and somebody does.                   *)
FocusKept == FocusAgrees /\ FocusSomewhere
=============================================================================
