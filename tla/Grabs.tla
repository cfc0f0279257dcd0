--------------------------------- MODULE Grabs ---------------------------------
(***************************************************************************)
(* The grabs of the core: a list of named grabs over one grab of the       *)
(* pointer and the keyboard, and the windows the interactive plugins act   *)
(* on.  A plugin that takes over the pointer (move, resize, scale, ...)    *)
(* pushes a grab and keeps its handle; other plugins ask otherGrabExist    *)
(* before they start.  The list is ordered by when grabs were pushed.      *)
(*                                                                         *)
(* The state of everything is one record S; every function of the code is *)
(* an operator from S to what S becomes.                                   *)
(***************************************************************************)
EXTENDS Integers, Sequences, FiniteSets, SequencesExt

CONSTANTS
    Windows,   \* the normal client windows
    NoWindow,  \* a NULL CompWindow pointer
    Unsynced,  \* the windows compiz sends no sync request
    Sizes,     \* the widths a window may have
    Places     \* the positions a window may have

ASSUME GrabsAssumption ==
    /\ NoWindow \notin Windows
    /\ Unsynced \subseteq Windows
    /\ Sizes \subseteq Nat \ {0} /\ Sizes # {}
    /\ Places \subseteq Nat /\ Places # {}

Null == 0          \* no GrabHandle
AnyButton == -1    \* the "button" argument when none was given

-----------------------------------------------------------------------------
(* The list of grabs: records of the handle and the name.                  *)

Handles(S) == {S.grabs[i].handle : i \in DOMAIN S.grabs}

NewHandle(S) == CHOOSE h \in 1 .. Len(S.grabs) + 1 : h \notin Handles(S)

\* another client has the pointer or the keyboard: only the first grab asks
\* the server for them
CanPush(S) == S.grabs # <<>> \/ ~S.foreign

\* pushGrab returns NewHandle(S), or NULL without CanPush(S)
PushGrab(S, name) ==
    IF CanPush(S)
    THEN [S EXCEPT !.grabs = Append(@, [handle |-> NewHandle(S), name |-> name])]
    ELSE [S EXCEPT !.refused = TRUE]

Pushed(S) == IF CanPush(S) THEN NewHandle(S) ELSE Null

\* mutant: the last grab leaves the list, whichever it is
RemoveLastGrab(S, handle) ==
    [S EXCEPT !.grabs = IF handle = Null \/ @ = <<>> THEN @ ELSE Front(@)]

\* nothing for a NULL handle; a handle that is not in the list leaves the list
RemoveGrab(S, handle) ==
    [S EXCEPT !.grabs = SelectSeq(@, LAMBDA g : g.handle # handle)]

OtherGrabExist(S, names) == \E i \in DOMAIN S.grabs : S.grabs[i].name \notin names

GrabExist(S, name) == \E i \in DOMAIN S.grabs : S.grabs[i].name = name

\* CompWindow::grabNotify and ungrabNotify, which the rotate plugin listens to
GrabNotify(S, w) ==
    [S EXCEPT !.rotate.grabWindow = IF @ = NoWindow THEN w ELSE @]

\* mutant: rotate does not hear of the end
UngrabUnheard(S, w) == S

UngrabNotify(S, w) ==
    [S EXCEPT !.rotate.grabWindow = IF @ = w THEN NoWindow ELSE @]

-----------------------------------------------------------------------------
(* Windows.  A geometry is a position and a width; "geometry" is what the  *)
(* core works with, "server" what it last asked of the X server            *)
(* (serverGeometry), "x" what the server has.  The server reports what     *)
(* happens to windows in one queue, "events"; a device event may have been *)
(* queued before any of them, so device events are handled at any time.    *)

\* the geometry a maximized window gets: the work area
WorkArea == [at |-> Min(Places), size |-> Max(Sizes)]

NewWindow ==
    LET g == [at |-> Min(Places), size |-> Min(Sizes)] IN
    \* stage: "mapped", "minimized", "unmapped" by the client, "gone"
    [stage |-> "mapped", there |-> TRUE, geometry |-> g, server |-> g, x |-> g,
     maximized |-> FALSE, before |-> g, syncWait |-> FALSE, syncGeometry |-> g]

\* findWindow: a destroyed window is not found
Found(S, w) == w \in Windows /\ S.win[w].stage # "gone"

Mapped(S) == {w \in Windows : S.win[w].stage = "mapped"}

\* the server has the new geometry and tells of a change
XConfigure(S, w, g) ==
    IF S.win[w].x = g \/ ~S.win[w].there THEN S
    ELSE [S EXCEPT !.win[w].x = g,
                   !.events = Append(@, [type |-> "ConfigureNotify", win |-> w, to |-> g])]

\* serverGeometry changes at once
ConfigureXWindow(S, w, g) ==
    XConfigure([S EXCEPT !.win[w].server = g], w, g)

\* Nothing for a window whose sync counter has no alarm.  initializeSyncCounter
\* keeps the alarm only when creating it raised an error (and destroys the good
\* ones): Unsynced are the windows whose alarm raised none, or without a counter.
SendSyncRequest(S, w) ==
    IF S.win[w].syncWait \/ w \in Unsynced THEN S
    ELSE [S EXCEPT !.win[w].syncWait = TRUE, !.win[w].syncGeometry = S.win[w].server]

Move(S, w, place) == [S EXCEPT !.win[w].geometry.at = place]

SyncPosition(S, w) ==
    LET at == S.win[w].geometry.at IN
    XConfigure([S EXCEPT !.win[w].server.at = at], w, [S.win[w].x EXCEPT !.at = at])

\* CompWindow::maximize and updateAttributes: the window goes to the work area,
\* or back to where saveWc has it; a sync request goes ahead of a new width
Maximize(S, w, on) ==
    IF S.win[w].maximized = on THEN S
    ELSE LET g == IF on THEN WorkArea ELSE S.win[w].before
             T == [S EXCEPT !.win[w].maximized = on,
                            !.win[w].before = IF on THEN S.win[w].server ELSE @]
         IN ConfigureXWindow(IF g.size # S.win[w].server.size
                             THEN SendSyncRequest(T, w) ELSE T, w, g)

=============================================================================
