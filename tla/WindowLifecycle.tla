---------------------------- MODULE WindowLifecycle ----------------------------
(***************************************************************************)
(* The life of a client window: creation, the map request, reparenting     *)
(* into a frame, mapping and unmapping for desktops, show desktop mode,    *)
(* minimizing and shading, withdrawal, destruction and reparenting away.   *)
(*                                                                         *)
(* Three parties share it.  Clients make requests.  The X server carries   *)
(* them out (or redirects them) and reports them in one FIFO queue.        *)
(* compiz handles the queue one event at a time and makes requests of its  *)
(* own, whose events join the queue behind those already there: what       *)
(* compiz believes of a window and what the server knows of it differ      *)
(* while events are under way, and pendingUnmaps is what tells an unmap of *)
(* compiz from one of the client.                                          *)
(*                                                                         *)
(* Handlers are operators from one state of everything to the next; each   *)
(* handler of handleEvent is one action.  Override redirect windows and    *)
(* input focus are left out (a handler's choice that depends on focus is   *)
(* nondeterministic).                                                      *)
(***************************************************************************)
EXTENDS Integers, Sequences, FiniteSets, FiniteSetsExt

CONSTANTS
    Windows,       \* the client windows
    NoWindow,      \* no window
    TransientFor,  \* the window each window is transient for, or NoWindow
    Desktops,      \* the numbers of desktops a pager may set; starts with the largest
    Courses        \* what clients do in one behaviour: with which windows, which
                   \* kinds of requests, and how many of them

Largest == Max(Desktops)
AllDesktops == Largest      \* 0xffffffff

AllKinds == {"create", "map", "withdraw", "destroy", "away", "back", "iconify",
             "deiconify", "activate", "desktop", "current", "number",
             "showDesktop", "shade"}

ASSUME LifecycleAssumption ==
    /\ IsFiniteSet(Windows) /\ NoWindow \notin Windows
    /\ TransientFor \in [Windows -> Windows \cup {NoWindow}]
    \* a transient has no transients of its own: recursion ends after one level
    /\ \A w \in Windows : TransientFor[w] # NoWindow =>
            TransientFor[TransientFor[w]] = NoWindow
    /\ Desktops \subseteq Nat \ {0} /\ IsFiniteSet(Desktops) /\ Desktops # {}
    /\ Courses \subseteq [windows : SUBSET Windows, kinds : SUBSET AllKinds, requests : Nat]

VARIABLES
    win,       \* compiz: a record for each window (CompWindow, PrivateWindow)
    srv,       \* the X server: a record for each window
    queue,     \* the events compiz has not handled yet
    current,   \* PrivateScreen::currentDesktop
    number,    \* PrivateScreen::nDesktop
    mask,      \* PrivateScreen::showingDesktopMask # 0
    asked,     \* what the client last asked for: "hidden", "shown"; "away"
               \* while it has the window in a parent of its own
    crossed,   \* requests have crossed: compiz mapped or unmapped the window
               \* while the client's own unmap was under way, counted an unmap
               \* that makes no event, or hid nothing while a map was under way;
               \* or the window was reparented before compiz had handled all;
               \* or the current desktop was removed, which shows no window
    course     \* a course, with the number of requests that are left

state == <<win, srv, queue, current, number, mask, crossed>>
vars == <<state, asked, course>>

\* "created": a CoreWindow; "window": a CompWindow; "destroyed": a CompWindow
\* that waits for removeDestroyed
Stages == {"none", "created", "window", "destroyed"}

NoRecord == [stage |-> "none", viewable |-> FALSE, pendingMaps |-> FALSE,
             pendingUnmaps |-> 0, managed |-> FALSE, unmanaging |-> FALSE,
             frame |-> FALSE, placed |-> FALSE, minimized |-> FALSE,
             showDesktop |-> FALSE, shaded |-> FALSE, stateShaded |-> FALSE,
             stateHidden |-> FALSE, rolled |-> FALSE, desktop |-> 0]

NotThere == [exists |-> FALSE, mapped |-> FALSE, parent |-> "root",
             frameMapped |-> FALSE, wmState |-> "Withdrawn", selected |-> FALSE,
             stateShaded |-> FALSE, stateHidden |-> FALSE, desktop |-> 0]

\* What a window may be when compiz starts: never mapped, mapped by an earlier
\* window manager, iconic, or mapped by one that gave its iconic windows back.
EarlyClients ==
    {NotThere} \cup
    {[NotThere EXCEPT !.exists = TRUE, !.mapped = s[1], !.wmState = s[2],
                      !.stateHidden = s[3], !.stateShaded = s[4]] :
        s \in {<<FALSE, "Withdrawn", FALSE, FALSE>>, <<TRUE, "Normal", FALSE, FALSE>>,
               <<FALSE, "Iconic", TRUE, FALSE>>, <<TRUE, "Iconic", TRUE, FALSE>>,
               <<TRUE, "Iconic", TRUE, TRUE>>}}

-----------------------------------------------------------------------------
(* Everything compiz and the server change in a handler, as one record S.  *)

S0 == [win |-> win, srv |-> srv, queue |-> queue, current |-> current,
       number |-> number, mask |-> mask, crossed |-> crossed]

Becomes(S) ==
    /\ win' = S.win /\ srv' = S.srv /\ queue' = S.queue
    /\ current' = S.current /\ number' = S.number /\ mask' = S.mask
    /\ crossed' = S.crossed

\* foreach over the windows, which act on one window each
ForEach(Op(_, _), S, ws) == FoldSet(LAMBDA w, T : Op(T, w), S, ws)

\* The list windows: destroyed windows stay in it until removeDestroyed.
Listed(S) == {w \in Windows : S.win[w].stage \in {"window", "destroyed"}}

Transients(w) == {t \in Windows : TransientFor[t] = w}

-----------------------------------------------------------------------------
(* The X server.  compiz hears of the windows on the root window and in    *)
(* its own wrappers.                                                       *)

Heard(S, w) == S.srv[w].parent \in {"root", "wrapper"}

Event(type, w, arg) == [type |-> type, win |-> w, arg |-> arg]

Send(S, e) == [S EXCEPT !.queue = Append(@, e)]

Report(S, w, type, arg) ==
    IF Heard(S, w) THEN Send(S, Event(type, w, arg)) ELSE S

XMap(S, w) ==
    IF S.srv[w].exists /\ ~S.srv[w].mapped
    THEN Report([S EXCEPT !.srv[w].mapped = TRUE], w, "MapNotify", "wm")
    ELSE S

\* by: whose request it is; the event does not tell
XUnmap(S, w, by) ==
    IF S.srv[w].exists /\ S.srv[w].mapped
    THEN Report([S EXCEPT !.srv[w].mapped = FALSE], w, "UnmapNotify", by)
    ELSE S

SetWmState(S, w, s) ==
    IF S.srv[w].exists THEN [S EXCEPT !.srv[w].wmState = s] ELSE S

\* setWindowProp (id, _NET_WM_DESKTOP, desktop ())
SetDesktopProperty(S, w) == [S EXCEPT !.srv[w].desktop = S.win[w].desktop]

\* setWindowState: _NET_WM_STATE
SetWindowState(S, w) ==
    [S EXCEPT !.srv[w].stateShaded = S.win[w].stateShaded,
              !.srv[w].stateHidden = S.win[w].stateHidden]

\* The client's own unmap is still to be handled.
ClientUnmaps(S, w) ==
    \E i \in 1..Len(S.queue) :
        /\ S.queue[i].win = w
        /\ S.queue[i].type \in {"UnmapNotify", "SyntheticUnmap"}
        /\ S.queue[i].arg = "client"

\* pendingUnmaps++ and XUnmapWindow
CountedUnmap(S, w) ==
    XUnmap([S EXCEPT !.win[w].pendingUnmaps = @ + 1,
                     !.crossed[w] = @ \/ ~S.srv[w].mapped \/ ClientUnmaps(S, w)],
           w, "wm")

-----------------------------------------------------------------------------
(* CompWindow and PrivateWindow                                            *)

\* CompWindow::changeState
ChangeState(S, w, shaded, hidden) ==
    LET changed == shaded # S.win[w].stateShaded \/ hidden # S.win[w].stateHidden
        T == [S EXCEPT !.win[w].stateShaded = shaded, !.win[w].stateHidden = hidden]
    IN  IF changed /\ S.win[w].managed THEN SetWindowState(T, w) ELSE T

\* A destroyed window has lost its id: requests about it do nothing.
Managed(S, w) == S.win[w].managed /\ S.win[w].stage = "window"

OnCurrentDesktop(S, w) == S.win[w].desktop \in {AllDesktops, S.current}

\* Minimized, in show desktop mode or on another desktop
Away(S, w) == S.win[w].minimized \/ S.win[w].showDesktop \/ ~OnCurrentDesktop(S, w)

\* A shaded window on the current desktop keeps its frame.  A window that is
\* only on another desktop does not get the state Hidden.
Hide(S, w) ==
    IF ~Managed(S, w) \/ (~Away(S, w) /\ ~S.win[w].stateShaded) THEN S
    ELSE LET c == S.win[w]
             roll == ~Away(S, w)
             T == [S EXCEPT !.win[w].shaded = roll,
                            !.srv[w].frameMapped = @ /\ (roll \/ ~c.stateShaded)]
             U == CountedUnmap([T EXCEPT !.srv[w].frameMapped = @ /\ roll], w)
         IN  IF ~c.pendingMaps /\ ~c.viewable
             THEN [T EXCEPT !.crossed[w] = @ \/ S.srv[w].mapped]
             ELSE IF c.minimized \/ c.showDesktop \/ roll
             THEN ChangeState(U, w, c.stateShaded, TRUE)
             ELSE U

\* The end of show: the window is mapped.
ShowMapped(S, w) ==
    LET T == XMap([S EXCEPT !.win[w].shaded = FALSE, !.win[w].pendingMaps = TRUE,
                            !.srv[w].frameMapped = @ \/ S.win[w].frame,
                            !.crossed[w] = @ \/ ClientUnmaps(S, w)], w)
    IN  SetWindowState(ChangeState(T, w, S.win[w].stateShaded, FALSE), w)

\* Mutant: a window that is still shaded is mapped.
ShowShaded(S, w) ==
    IF ~Managed(S, w) \/ Away(S, w) THEN S ELSE ShowMapped(S, w)

Show(S, w) ==
    LET c == S.win[w]
    IN  IF ~Managed(S, w) THEN S
        ELSE IF Away(S, w)
        THEN IF c.minimized \/ c.showDesktop THEN S
             ELSE ChangeState(S, w, c.stateShaded, FALSE)
        ELSE IF c.stateShaded
        THEN [S EXCEPT !.win[w].shaded = TRUE, !.win[w].rolled = TRUE,
                       !.srv[w].frameMapped = @ \/ c.frame]
        ELSE ShowMapped(S, w)

\* The masks are cleared meanwhile: reparenting makes no events.
Reparent(S, w) ==
    IF S.win[w].frame \/ ~S.srv[w].exists THEN S
    ELSE [S EXCEPT !.win[w].frame = TRUE,
                   !.srv[w] = [@ EXCEPT !.parent = "wrapper", !.selected = TRUE,
                                        !.frameMapped = S.srv[w].mapped \/ S.win[w].shaded]]

\* Destroying the wrapper destroys what is in it.
Unreparent(S, w) ==
    IF ~S.win[w].frame THEN S
    ELSE LET gone == S.win[w].stage # "window"
             held == gone /\ S.srv[w].exists /\ S.srv[w].parent = "wrapper"
             T == IF held
                  THEN Send([S EXCEPT !.srv[w].exists = FALSE, !.srv[w].mapped = FALSE],
                            Event("DestroyNotify", w, "wm"))
                  ELSE S
         IN  [T EXCEPT !.win[w].frame = FALSE,
                       !.srv[w] = [@ EXCEPT
                           !.frameMapped = FALSE,
                           !.parent = IF gone THEN S.srv[w].parent ELSE "root",
                           !.selected = S.srv[w].selected \/ ~gone]]

\* CompWindow::map
Map(S, w) ==
    IF S.win[w].viewable THEN S
    ELSE LET c == [S.win[w] EXCEPT !.viewable = TRUE, !.pendingMaps = FALSE,
                                   !.rolled = @ /\ S.win[w].shaded]
         IN  SetWmState([S EXCEPT !.win[w] = c], w, "Normal")

\* CompWindow::unmap: a withdrawn window leaves its frame here.
Unmap(S, w) ==
    LET T == IF S.win[w].unmanaging THEN Unreparent(S, w) ELSE S
    IN  [T EXCEPT !.win[w] =
            [@ EXCEPT !.unmanaging = FALSE, !.viewable = FALSE,
                      !.rolled = T.win[w].rolled \/ (S.win[w].viewable /\ S.win[w].shaded)]]

Withdraw(S, w) ==
    LET c == [S.win[w] EXCEPT !.placed = FALSE, !.unmanaging = S.win[w].managed,
                              !.managed = FALSE]
    IN  SetWmState([S EXCEPT !.win[w] = c], w, "Withdrawn")

\* CompWindow::destroy
Destroy(S, w) == Unreparent([S EXCEPT !.win[w].stage = "destroyed"], w)

MinimizeOne(S, w) == Hide([S EXCEPT !.win[w].minimized = TRUE], w)

\* CompWindow::minimize; a window that is minimized is left alone, and so are
\* its transients.
Minimizable(S, w) ==
    S.win[w].stage = "window" /\ S.win[w].managed /\ ~S.win[w].minimized

MinimizeTransient(S, t) == IF Minimizable(S, t) THEN MinimizeOne(S, t) ELSE S

Minimize(S, w) ==
    IF ~Minimizable(S, w) THEN S
    ELSE MinimizeOne(ForEach(MinimizeTransient,
                             [S EXCEPT !.win[w].minimized = TRUE], Transients(w)), w)

UnminimizeOne(S, w) ==
    IF S.win[w].minimized THEN Show([S EXCEPT !.win[w].minimized = FALSE], w) ELSE S

Unminimize(S, w) ==
    IF ~S.win[w].minimized THEN S
    ELSE ForEach(UnminimizeOne, UnminimizeOne(S, w), Transients(w))

\* CompWindow::updateAttributes (restacking is left out)
UpdateAttributes(S, w) ==
    IF ~S.win[w].managed THEN S
    ELSE IF S.win[w].stateShaded THEN Hide(S, w)
    ELSE IF S.win[w].shaded THEN Show(S, w)
    ELSE S

-----------------------------------------------------------------------------
(* CompScreen and PrivateScreen                                            *)

SetCurrentDesktop(S, d) ==
    IF d >= S.number \/ d = S.current THEN S
    ELSE LET T == [S EXCEPT !.current = d]
             ShowOrHide(U, w) == IF U.win[w].desktop = d THEN Show(U, w) ELSE Hide(U, w)
         IN  ForEach(ShowOrHide, T, {w \in Listed(T) : T.win[w].desktop # AllDesktops})

\* CompWindow::setDesktop
SetDesktop(S, w, d) ==
    IF (d # AllDesktops /\ d >= S.number) \/ d = S.win[w].desktop THEN S
    ELSE LET T == [S EXCEPT !.win[w].desktop = d]
         IN  SetDesktopProperty(IF d \in {AllDesktops, S.current} THEN Show(T, w)
                                ELSE Hide(T, w), w)

SetNumberOfDesktops(S, k) ==
    IF k < 1 \/ k = S.number THEN S
    ELSE LET T == [S EXCEPT !.current = IF @ >= k THEN k - 1 ELSE @,
                            !.crossed = [w \in Windows |-> @[w] \/ S.current >= k]]
             Move(U, w) == SetDesktop(U, w, k - 1)
             U == ForEach(Move, T, {w \in Listed(T) :
                                       T.win[w].desktop # AllDesktops /\ T.win[w].desktop >= k})
         IN  [U EXCEPT !.number = k]

\* CompWindow::focus: windows are within the screen
MayFocus(S, w) ==
    /\ S.win[w].stage = "window"
    /\ S.win[w].managed /\ ~S.win[w].unmanaging
    /\ OnCurrentDesktop(S, w)
    /\ S.win[w].shaded \/ ~S.win[w].stateHidden

EnterShowDesktopMode(S) ==
    LET Enter(T, w) ==
            IF T.win[w].showDesktop \/ ~MayFocus(T, w) THEN T
            ELSE Hide([T EXCEPT !.win[w].showDesktop = TRUE], w)
        U == ForEach(Enter, S, Listed(S))
    IN  [U EXCEPT !.mask = \E w \in Listed(U) : U.win[w].showDesktop]

LeaveOne(S, w) ==
    IF S.win[w].showDesktop THEN Show([S EXCEPT !.win[w].showDesktop = FALSE], w) ELSE S

\* Mutant: the mode is over for all when one window leaves it.
LeaveShowDesktopModeForAll(S, w) ==
    IF ~S.win[w].showDesktop THEN S
    ELSE [LeaveOne(S, w) EXCEPT !.mask = FALSE]

\* leaveShowDesktopMode (window): the other windows stay in the mode.
LeaveShowDesktopMode(S, w) ==
    IF ~S.win[w].showDesktop THEN S
    ELSE LET T == LeaveOne(S, w)
         IN  [T EXCEPT !.mask = @ /\ \E x \in Listed(T) : T.win[x].showDesktop]

LeaveShowDesktopModeAll(S) == ForEach(LeaveOne, [S EXCEPT !.mask = FALSE], Listed(S))

Reveal(S, w) == LeaveShowDesktopMode(Unminimize(S, w), w)

\* CompWindow::activate: the window it is transient for is revealed first.
Activate(S, w) ==
    LET T == SetCurrentDesktop(S, S.win[w].desktop)
        U == Reveal(ForEach(Reveal, T, {x \in Listed(T) : TransientFor[w] = x}), w)
        V == IF ~U.win[w].stateHidden THEN U
             ELSE LET X == [U EXCEPT !.win[w].stateShaded = FALSE]
                  IN  IF X.win[w].shaded THEN Show(X, w) ELSE X
    IN  IF V.win[w].stateHidden \/ ~OnCurrentDesktop(V, w) THEN V
        ELSE UpdateAttributes(V, w)

\* CompWindow's constructor for a window of the server, first for one that is
\* mapped: it is mapped for compiz too, and unmapped again when it is iconic.
ManageMapped(S, w) ==
    LET iconic == S.srv[w].wmState = "Iconic"
        T == Reparent([S EXCEPT !.win[w].placed = TRUE], w)
        c == [T.win[w] EXCEPT
                  !.managed = TRUE, !.pendingMaps = TRUE,
                  !.shaded = iconic /\ T.win[w].stateShaded,
                  !.minimized = iconic /\ ~T.win[w].stateShaded,
                  !.desktop = IF iconic \/ @ = AllDesktops THEN @ ELSE S.current]
        U == Map([T EXCEPT !.win[w] = c], w)
        V == UpdateAttributes(IF iconic THEN U ELSE SetDesktopProperty(U, w), w)
        X == CountedUnmap([V EXCEPT !.win[w].stateHidden = TRUE,
                                    !.srv[w].frameMapped = @ /\ V.win[w].shaded], w)
    IN  IF V.win[w].minimized \/ V.win[w].shaded THEN SetWindowState(X, w) ELSE V

ManageUnmapped(S, w) ==
    IF S.srv[w].wmState # "Iconic" THEN S
    ELSE [Reparent(S, w) EXCEPT !.win[w] =
             [@ EXCEPT !.managed = TRUE, !.placed = TRUE,
                       !.shaded = S.win[w].stateHidden /\ S.win[w].stateShaded,
                       !.minimized = S.win[w].stateHidden /\ ~S.win[w].stateShaded]]

Manage(S, w) ==
    LET T == [S EXCEPT
                 !.win[w] = [NoRecord EXCEPT
                     !.stage = "window",
                     !.desktop = IF S.srv[w].desktop \in 0..S.number - 1 \cup {AllDesktops}
                                 THEN S.srv[w].desktop ELSE S.current,
                     !.stateShaded = S.srv[w].exists /\ S.srv[w].stateShaded,
                     !.stateHidden = S.srv[w].exists /\ S.srv[w].stateHidden],
                 !.srv[w].selected = S.srv[w].exists]
        U == IF ~S.srv[w].exists THEN T
             ELSE IF S.srv[w].mapped THEN ManageMapped(T, w) ELSE ManageUnmapped(T, w)
    IN  [U EXCEPT !.win[w].rolled = @ \/ U.win[w].shaded]

-----------------------------------------------------------------------------
(* Start: the windows that are there when compiz starts.                   *)

Init ==
    /\ course \in Courses
    /\ \E e \in [course.windows -> EarlyClients] :
           LET s == [w \in Windows |-> IF w \in course.windows THEN e[w] ELSE NotThere]
               S == [win |-> [w \in Windows |-> NoRecord], srv |-> s, queue |-> <<>>,
                     current |-> 0, number |-> Largest, mask |-> FALSE,
                     crossed |-> [w \in Windows |-> FALSE]]
               T == ForEach(Manage, S, {w \in Windows : s[w].exists})
           IN  /\ win = T.win /\ srv = T.srv /\ queue = T.queue
               /\ current = 0 /\ number = Largest /\ mask = FALSE
               /\ crossed = T.crossed
               /\ asked = [w \in Windows |-> IF s[w].wmState = "Withdrawn"
                                             THEN "hidden" ELSE "shown"]

-----------------------------------------------------------------------------
(* Requests of clients, as the server carries them out.                    *)

Request(kind) ==
    /\ kind \in course.kinds /\ course.requests > 0
    /\ course' = [course EXCEPT !.requests = @ - 1]

Create(w) ==
    /\ Request("create") /\ w \in course.windows
    /\ ~srv[w].exists /\ win[w].stage = "none"
    /\ \A i \in 1..Len(queue) : queue[i].win # w
    /\ Becomes(Send([S0 EXCEPT !.srv[w] = [NotThere EXCEPT !.exists = TRUE]],
                    Event("CreateNotify", w, "client")))
    /\ asked' = [asked EXCEPT ![w] = "hidden"]

\* XMapWindow is redirected to compiz where compiz selects it.
MapWindow(w) ==
    /\ Request("map")
    /\ srv[w].exists /\ ~srv[w].mapped
    /\ Becomes(IF Heard(S0, w) THEN Send(S0, Event("MapRequest", w, "client"))
               ELSE [S0 EXCEPT !.srv[w].mapped = TRUE])
    /\ asked' = [asked EXCEPT ![w] = IF @ = "away" THEN @ ELSE "shown"]

\* XWithdrawWindow: XUnmapWindow, and a synthetic UnmapNotify to the root
WithdrawWindow(w) ==
    /\ Request("withdraw")
    /\ srv[w].exists /\ asked[w] = "shown"
    /\ Becomes(Send(XUnmap(S0, w, "client"), Event("SyntheticUnmap", w, "client")))
    /\ asked' = [asked EXCEPT ![w] = "hidden"]

DestroyWindow(w) ==
    /\ Request("destroy")
    /\ srv[w].exists
    /\ LET T == Report(XUnmap(S0, w, "client"), w, "DestroyNotify", "client")
       IN  Becomes([T EXCEPT !.srv[w].exists = FALSE])
    /\ UNCHANGED asked

\* XReparentWindow by a client, into a window of its own (an embedder, say)
\* (A window that is only created and leaves stays created for ever; what
\* happens when it comes back, managed twice, is not followed.)
ReparentAway(w) ==
    /\ Request("away")
    /\ srv[w].exists /\ Heard(S0, w)
    /\ win[w].stage = "window" \/ "back" \notin course.kinds
    /\ LET T == Report(XUnmap(S0, w, "client"), w, "ReparentNotify", "other")
       IN  Becomes([T EXCEPT !.srv[w].parent = "other", !.srv[w].mapped = srv[w].mapped,
                             !.crossed[w] = @ \/ queue # <<>>])
    /\ asked' = [asked EXCEPT ![w] = "away"]

\* ... and back: the server maps the window again, which is redirected.
ReparentBack(w) ==
    /\ Request("back")
    /\ srv[w].exists /\ ~Heard(S0, w)
    /\ LET T == Send([S0 EXCEPT !.srv[w].parent = "root", !.srv[w].mapped = FALSE,
                                !.crossed[w] = @ \/ queue # <<>>],
                     Event("ReparentNotify", w, "root"))
       IN  Becomes(IF srv[w].mapped THEN Send(T, Event("MapRequest", w, "client")) ELSE T)
    /\ asked' = [asked EXCEPT ![w] = IF srv[w].mapped \/ srv[w].wmState = "Iconic"
                                     THEN "shown" ELSE "hidden"]

\* Client messages, to the root window
Message(kind, e) ==
    /\ Request(kind)
    /\ Becomes(Send(S0, e))
    /\ UNCHANGED asked

Iconify(w)    == srv[w].exists /\ Message("iconify", Event("Iconify", w, "client"))
Deiconify(w)  == srv[w].exists /\ Message("deiconify", Event("Deiconify", w, "client"))
AskActive(w)  == srv[w].exists /\ Message("activate", Event("Active", w, "client"))
Shade(w, b)   == srv[w].exists /\ Message("shade", Event("Shade", w, b))
AskDesktop(w, d) == srv[w].exists /\ Message("desktop", Event("WinDesktop", w, d))
AskCurrent(d) == Message("current", Event("CurrentDesktop", NoWindow, d))
AskNumber(k)  == Message("number", Event("NumberOfDesktops", NoWindow, k))
AskShowDesktop(b) == Message("showDesktop", Event("ShowingDesktop", NoWindow, b))

-----------------------------------------------------------------------------
(* handleEvent                                                             *)

Next1(type) == queue # <<>> /\ Head(queue).type = type
Popped == [S0 EXCEPT !.queue = Tail(@)]
Subject == Head(queue).win
Handled(S) == Becomes(S) /\ UNCHANGED <<asked, course>>

\* findWindow
Found == win[Subject].stage = "window"

CreateNotify ==
    /\ Next1("CreateNotify")
    /\ Handled([Popped EXCEPT !.win[Subject].stage = "created"])

DestroyNotify ==
    /\ Next1("DestroyNotify")
    /\ Handled(IF Found THEN Destroy(Popped, Subject)
               ELSE IF win[Subject].stage = "created"
               THEN [Popped EXCEPT !.win[Subject] = NoRecord]
               ELSE Popped)

\* pendingMaps: show has mapped the window
MapNotified(S, w) ==
    Map(IF S.win[w].pendingMaps
        THEN [Reparent(S, w) EXCEPT !.win[w].managed = TRUE]
        ELSE S, w)

MapNotify ==
    /\ Next1("MapNotify")
    /\ Handled(IF Found THEN MapNotified(Popped, Subject) ELSE Popped)

\* X -> Withdrawn.  The real event withdraws a window that was shown, the
\* synthetic one a window that was iconic.
Withdrawn(S, w, synthetic) ==
    IF S.win[w].stateHidden
    THEN Withdraw(ChangeState([S EXCEPT !.win[w].minimized = FALSE], w,
                              S.win[w].stateShaded, FALSE), w)
    ELSE IF ~synthetic THEN Withdraw(S, w) ELSE S

\* Mutant: pendingUnmaps is not counted down.
UnmapNotifiedKeeps(S, w, synthetic) ==
    LET T == IF S.win[w].pendingUnmaps > 0 THEN SetWmState(S, w, "Iconic")
             ELSE Withdrawn(S, w, synthetic)
    IN  IF synthetic THEN T ELSE Unmap(T, w)

\* pendingUnmaps: hide has unmapped the window, Normal -> Iconic
UnmapNotified(S, w, synthetic) ==
    LET T == IF S.win[w].pendingUnmaps > 0
             THEN SetWmState([S EXCEPT !.win[w].pendingUnmaps = @ - 1], w, "Iconic")
             ELSE Withdrawn(S, w, synthetic)
    IN  IF synthetic THEN T ELSE Unmap(T, w)

UnmapNotify ==
    /\ Next1("UnmapNotify")
    /\ Handled(IF Found THEN UnmapNotified(Popped, Subject, FALSE) ELSE Popped)

SyntheticUnmapNotify ==
    /\ Next1("SyntheticUnmap")
    /\ Handled(IF Found THEN UnmapNotified(Popped, Subject, TRUE) ELSE Popped)

\* XReparentWindow by compiz of a window it has let go
PutBack(S, w) ==
    IF S.srv[w].exists
    THEN LET T == IF S.srv[w].mapped THEN Report(S, w, "UnmapNotify", "wm") ELSE S
         IN  [Report(T, w, "ReparentNotify", "other") EXCEPT !.srv[w].parent = "other"]
    ELSE S

\* Mutant: the window stays where unreparent has put it.
ReparentedAwayOnly(S, w) == Destroy(S, w)

\* The window has left for a parent of another client.  When its UnmapNotify
\* has made compiz reparent it to the root, it is given back.  XSelectInput
\* is called with w->id (), which destroy has set to 1: it does nothing.
ReparentedAway(S, w) ==
    LET T == Destroy(S, w)
    IN  IF S.win[w].frame THEN T ELSE PutBack(T, w)

\* A created window is looked for under the parent's id: it is never found.
ReparentNotify ==
    /\ Next1("ReparentNotify")
    /\ Handled(IF Head(queue).arg = "root"
               THEN IF Found THEN Popped ELSE Manage(Popped, Subject)
               ELSE IF Found THEN ReparentedAway(Popped, Subject)
               ELSE Popped)

ProcessMap(S, w, allowFocus) ==
    LET T == [Reparent(S, w) EXCEPT !.win[w] =
                  [@ EXCEPT !.managed = TRUE, !.placed = TRUE]]
        U == LeaveShowDesktopMode(Unminimize(UpdateAttributes(T, w), w), w)
        V == IF allowFocus /\ ~OnCurrentDesktop(U, w)
             THEN SetCurrentDesktop(U, U.win[w].desktop) ELSE U
    IN  IF V.win[w].stateHidden THEN V ELSE Show(V, w)

\* A shaded window that is hidden is not processed.
MapRequested(S, w, allowFocus) ==
    LET T == IF S.win[w].stage = "created" THEN Manage(S, w) ELSE S
        c == T.win[w]
        U == IF c.stateHidden /\ ~c.minimized /\ ~c.showDesktop THEN T
             ELSE ProcessMap(T, w, allowFocus)
    IN  SetDesktopProperty([U EXCEPT !.win[w].managed = TRUE], w)

MapRequest(allowFocus) ==
    /\ Next1("MapRequest")
    /\ Handled(IF win[Subject].stage \in {"created", "window"}
               THEN MapRequested(Popped, Subject, allowFocus)
               ELSE XMap(Popped, Subject))

OfWindow(type, S) == Next1(type) /\ Handled(IF Found THEN S ELSE Popped)

\* Transients are dialogs, which have no minimize action.
IconifyMessage ==
    OfWindow("Iconify", IF TransientFor[Subject] = NoWindow
                        THEN Minimize(Popped, Subject) ELSE Popped)

DeiconifyMessage == OfWindow("Deiconify", Unminimize(Popped, Subject))

\* allowed: focus stealing prevention lets the request pass
ActiveMessage(allowed) ==
    OfWindow("Active", IF allowed THEN Activate(Popped, Subject) ELSE Popped)

\* A window has the shade action while it is decorated, that is, managed.
ShadeMessage ==
    OfWindow("Shade",
             IF Head(queue).arg = win[Subject].stateShaded \/ ~win[Subject].managed
             THEN Popped
             ELSE UpdateAttributes(ChangeState(Popped, Subject, Head(queue).arg,
                                               win[Subject].stateHidden), Subject))

DesktopMessage == OfWindow("WinDesktop", SetDesktop(Popped, Subject, Head(queue).arg))

CurrentDesktopMessage ==
    Next1("CurrentDesktop") /\ Handled(SetCurrentDesktop(Popped, Head(queue).arg))

NumberMessage ==
    Next1("NumberOfDesktops") /\ Handled(SetNumberOfDesktops(Popped, Head(queue).arg))

ShowingDesktopMessage ==
    /\ Next1("ShowingDesktop")
    /\ Handled(IF Head(queue).arg THEN EnterShowDesktopMode(Popped)
               ELSE LeaveShowDesktopModeAll(Popped))

\* processEvents, before it reads the next event
RemoveDestroyed ==
    /\ \E w \in Windows : win[w].stage = "destroyed"
    /\ win' = [w \in Windows |-> IF win[w].stage = "destroyed" THEN NoRecord ELSE win[w]]
    /\ UNCHANGED <<srv, queue, current, number, mask, crossed, asked, course>>

ClientRequest ==
    \/ \E w \in Windows :
           \/ Create(w) \/ MapWindow(w) \/ WithdrawWindow(w) \/ DestroyWindow(w)
           \/ ReparentAway(w) \/ ReparentBack(w)
           \/ Iconify(w) \/ Deiconify(w) \/ AskActive(w)
           \/ \E b \in BOOLEAN : Shade(w, b)
           \/ \E d \in 0..Largest : AskDesktop(w, d)
    \/ \E d \in 0..Largest - 1 : AskCurrent(d)
    \/ \E k \in Desktops : AskNumber(k)
    \/ \E b \in BOOLEAN : AskShowDesktop(b)

HandleEvent ==
    \/ CreateNotify \/ DestroyNotify \/ MapNotify \/ UnmapNotify
    \/ SyntheticUnmapNotify \/ ReparentNotify
    \/ \E b \in BOOLEAN : MapRequest(b)
    \/ IconifyMessage \/ DeiconifyMessage
    \/ \E b \in BOOLEAN : ActiveMessage(b)
    \/ ShadeMessage \/ DesktopMessage \/ CurrentDesktopMessage \/ NumberMessage
    \/ ShowingDesktopMessage

Next == ClientRequest \/ HandleEvent \/ RemoveDestroyed

Spec == Init /\ [][Next]_vars

-----------------------------------------------------------------------------
(* Properties                                                              *)

\* The fields have their types.
TypeOK ==
    /\ win \in [Windows ->
           [stage : Stages, viewable : BOOLEAN, pendingMaps : BOOLEAN,
            pendingUnmaps : Nat, managed : BOOLEAN, unmanaging : BOOLEAN,
            frame : BOOLEAN, placed : BOOLEAN, minimized : BOOLEAN,
            showDesktop : BOOLEAN, shaded : BOOLEAN, stateShaded : BOOLEAN,
            stateHidden : BOOLEAN, rolled : BOOLEAN, desktop : 0..Largest]]
    /\ srv \in [Windows ->
           [exists : BOOLEAN, mapped : BOOLEAN, parent : {"root", "wrapper", "other"},
            frameMapped : BOOLEAN, wmState : {"Withdrawn", "Normal", "Iconic"},
            selected : BOOLEAN, stateShaded : BOOLEAN, stateHidden : BOOLEAN,
            desktop : 0..Largest]]
    /\ current \in 0..Largest - 1 /\ number \in 1..Largest /\ mask \in BOOLEAN
    /\ asked \in [Windows -> {"hidden", "shown", "away"}]
    /\ crossed \in [Windows -> BOOLEAN]
    /\ course.requests \in Nat

\* compiz has handled everything, and the window is one it knows.
Quiet(w) ==
    /\ queue = <<>>
    /\ win[w].stage = "window" /\ srv[w].exists

\* When the queue is empty compiz and the server agree on what is mapped
\* (CompWindow::map, CompWindow::unmap against the server).
ViewableFollowsServer ==
    \A w \in Windows : Quiet(w) => (win[w].viewable <=> srv[w].mapped)

\* A window is in a frame of compiz exactly when compiz keeps a frame for it:
\* no window is left in a frame that is forgotten or destroyed (reparent,
\* unreparent, and reparenting by clients).
FrameFollowsParent ==
    \A w \in Windows : Quiet(w) => (win[w].frame <=> srv[w].parent = "wrapper")

\* A managed window is mapped exactly when nothing hides it: neither its
\* desktop, nor minimize, nor show desktop mode, nor shading (hide, show and
\* all that calls them).
ShownUnlessHidden ==
    \A w \in Windows :
        (Quiet(w) /\ win[w].managed /\ ~crossed[w]) =>
            (srv[w].mapped <=> ~Away(S0, w) /\ ~win[w].stateShaded)

\* The frame of a managed window is on the screen exactly when the window is
\* on the current desktop and neither minimized nor in show desktop mode.  (One
\* that was withdrawn while it was iconic stays unmanaging, and when it is
\* mapped again loses its frame with the next unmap.)
FrameShown ==
    \A w \in Windows :
        (Quiet(w) /\ win[w].managed /\ win[w].frame /\ ~crossed[w]) =>
            (srv[w].frameMapped <=> ~Away(S0, w))

\* The state Hidden has a reason on the current desktop: no window that the
\* user should see is left out of the task bar's windows.
HiddenHasReason ==
    \A w \in Windows :
        /\ Quiet(w) /\ win[w].managed /\ ~crossed[w]
        /\ win[w].stateHidden /\ OnCurrentDesktop(S0, w)
        =>
            win[w].minimized \/ win[w].showDesktop \/ win[w].stateShaded

\* WM_STATE tells pagers and clients what was done to the window: Normal when
\* it is mapped, Withdrawn when compiz does not manage it (a window first
\* mapped for another desktop is managed and still Withdrawn).
WmStateAgrees ==
    \A w \in Windows : (Quiet(w) /\ ~crossed[w]) =>
        /\ srv[w].wmState = "Normal" <=> srv[w].mapped
        /\ ~win[w].managed => srv[w].wmState = "Withdrawn"

\* pendingUnmaps counts the unmaps of compiz whose events are under way:
\* each of them is taken for Normal -> Iconic, and nothing else is.
UnmapsCounted ==
    \A w \in Windows :
        (win[w].stage = "window" /\ ~crossed[w]) =>
            win[w].pendingUnmaps =
                Cardinality({i \in 1..Len(queue) :
                                /\ queue[i].win = w
                                /\ queue[i].type = "UnmapNotify"
                                /\ queue[i].arg = "wm"})

\* A window its client has withdrawn is not managed and not mapped, unless its
\* unmap has crossed one of compiz ("since we already withdraw the window on
\* the real UnmapNotify, no need to do it again on the synthetic one").
WithdrawnUnlessCrossed ==
    \A w \in Windows :
        (Quiet(w) /\ asked[w] = "hidden" /\ ~crossed[w]) =>
            ~win[w].managed /\ ~srv[w].mapped

\* A mapped window that is not shaded has its height (the resize in map and
\* unmap undo each other).
MappedHasHeight ==
    \A w \in Windows : (Quiet(w) /\ win[w].viewable /\ ~crossed[w]) => ~win[w].rolled

\* Show desktop mode is on when some window is in it.
ModeCoversWindows ==
    ~mask => \A w \in Windows : win[w].stage = "window" => ~win[w].showDesktop

\* Every window is on a desktop that exists.
OnSomeDesktop ==
    /\ current < number
    /\ \A w \in Windows : win[w].stage = "window" =>
           win[w].desktop \in 0..number - 1 \cup {AllDesktops}

\* A window that leaves "is removed but not destroyed": only clients destroy
\* their windows, none is left in a wrapper that compiz destroys, if it leaves
\* when compiz has handled all events.
KeptUnlessCrossed ==
    \A i \in 1..Len(queue) : queue[i].type = "DestroyNotify" =>
        queue[i].arg = "client" \/ crossed[queue[i].win]

\* A window that its client has reparented stays there, also when compiz has
\* taken its unmap for a withdrawal and reparented it to the root ("interrupt
\* the client's request to reparent into another window").
LeftStaysLeft ==
    \A w \in Windows :
        (queue = <<>> /\ srv[w].exists /\ asked[w] = "away" /\ ~crossed[w]) =>
            srv[w].parent = "other"

\* compiz and the server agree on what is mapped, and it is what the client
\* and the reasons to hide a window ask for.
ShownAgrees ==
    /\ ViewableFollowsServer /\ ShownUnlessHidden /\ FrameShown /\ MappedHasHeight
    /\ HiddenHasReason /\ WmStateAgrees /\ WithdrawnUnlessCrossed

\* Show desktop mode and the desktops are those of the windows.
DesktopsAgree == TypeOK /\ ModeCoversWindows /\ OnSomeDesktop

\* Windows that clients put elsewhere are let go whole.
LeaversKept == FrameFollowsParent /\ KeptUnlessCrossed /\ LeftStaysLeft

=============================================================================
