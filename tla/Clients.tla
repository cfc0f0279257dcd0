------------------------------ MODULE Clients -------------------------------
(* The window manager's dealings with clients: the pings that tell whether  *)
(* a client still answers, requests to close a window, and the start of     *)
(* programs announced by their launchers.  C is the state of the window     *)
(* manager: C.win[w] of a window, C.seqs the sequences of programs that are *)
(* starting, newest first, C.out and C.sent the messages to the decorator   *)
(* and to clients of the event at hand.                                     *)
EXTENDS Naturals, Sequences, SequencesExt

CONSTANTS Window,   \* normal windows
          Pings,    \* those that know the ping protocol
          Deletes,  \* those that know the delete protocol
          None

(* lastPong and lastPing only matter compared with one another: answered    *)
(* says that they are equal.                                                *)
NewWindow == [viewable |-> FALSE, transient |-> FALSE, alive |-> TRUE, answered |-> TRUE,
              closeRequests |-> FALSE, lastCloseRequest |-> FALSE]

ToolkitAction(C, m) == [C EXCEPT !.out = Append(@, m)]
ForceQuitDialog(C, w, show) == ToolkitAction(C, <<"dialog", w, show>>)
SendEvent(C, m) == [C EXCEPT !.sent = Append(@, m)]

NewManager == [win |-> [w \in Window |-> NewWindow], seqs |-> <<>>, busy |-> FALSE,
               timer |-> FALSE, out |-> <<>>, sent |-> <<>>]

-----------------------------------------------------------------------------
(* Pings.                                                                   *)

Pinged(C, w) == C.win[w].viewable /\ w \in Pings /\ ~C.win[w].transient

(* PrivateWindow::handlePingTimeout: no answer to the last ping.            *)
AccuseUntold(C, w) ==
    IF C.win[w].answered \/ ~C.win[w].alive THEN C ELSE [C EXCEPT !.win[w].alive = FALSE]
Accuse(C, w) ==
    LET Dead(T) == [T EXCEPT !.win[w].alive = FALSE]
        Told(T) == [ForceQuitDialog(T, w, TRUE) EXCEPT !.win[w].closeRequests = FALSE]
    IN  IF C.win[w].answered \/ ~C.win[w].alive THEN C
        ELSE IF C.win[w].closeRequests THEN Told(Dead(C)) ELSE Dead(C)

HandlePingTimeout(C) ==
    LET One(T, w) == IF Pinged(T, w) THEN SendEvent(Accuse(T, w), <<"ping", w>>) ELSE T
        All(T) == FoldSet(LAMBDA w, U : One(U, w), T, Window)
    IN  [All(C) EXCEPT !.win = [w \in Window |-> [@[w] EXCEPT !.answered = FALSE]]]

(* PrivateWindow::handlePing: any answer counts for the last ping.          *)
Pardon(C, w) ==
    LET Alive(T) == [T EXCEPT !.win[w].alive = TRUE]
        Hidden(T) == [ForceQuitDialog(T, w, FALSE) EXCEPT !.win[w].lastCloseRequest = FALSE]
    IN  IF C.win[w].alive THEN C
        ELSE IF C.win[w].lastCloseRequest THEN Hidden(Alive(C)) ELSE Alive(C)
HandlePingUnhidden(C, w) ==
    [C EXCEPT !.win[w].alive = TRUE, !.win[w].lastCloseRequest = FALSE, !.win[w].answered = TRUE]
HandlePing(C, w) == [Pardon(C, w) EXCEPT !.win[w].answered = TRUE]

(* CompWindow::close and CompWindow::map; a window that is mapped again is  *)
(* taken for alive, and a dialog about it is not hidden.                    *)
Close(C, w) ==
    LET Ask(T) == SendEvent([T EXCEPT !.win[w].closeRequests = TRUE],
                            IF w \in Deletes THEN <<"delete", w>> ELSE <<"kill", w>>)
        Asked(T) == [T EXCEPT !.win[w].lastCloseRequest = TRUE]
    IN  Asked(IF C.win[w].alive THEN Ask(C) ELSE ForceQuitDialog(C, w, TRUE))
Map(C, w) ==
    [C EXCEPT !.win[w].viewable = TRUE, !.win[w].alive = TRUE, !.win[w].answered = TRUE]

-----------------------------------------------------------------------------
(* Startup sequences.  The busy cursor and the timer go with the list.      *)

UpdateStartupFeedback(C) == [C EXCEPT !.busy = C.seqs # <<>>]
AddSequence(C, s) ==
    UpdateStartupFeedback([C EXCEPT !.seqs = <<[id |-> s, old |-> FALSE]>> \o @, !.timer = TRUE])
Sequence(C, s) == {k \in DOMAIN C.seqs : C.seqs[k].id = s}
RemoveSequence(C, s) ==
    LET Erased(T, k) == [T EXCEPT !.seqs = RemoveAt(@, k), !.timer = @ /\ Len(C.seqs) > 1]
    IN  IF Sequence(C, s) = {} THEN C
        ELSE UpdateStartupFeedback(Erased(C, CHOOSE k \in Sequence(C, s) :
                                                \A l \in Sequence(C, s) : k <= l))
RemoveAllSequences(C) == UpdateStartupFeedback([C EXCEPT !.seqs = <<>>, !.timer = FALSE])

(* compScreenSnEvent: a sequence that is cancelled stays until it is old.   *)
SnEvent(C, type, s) ==
    CASE type = "initiated" -> AddSequence(C, s)
      [] type = "completed" -> RemoveSequence(C, s)
      [] type \in {"changed", "canceled"} -> C

(* handleStartupSequenceTimeout: the library tells every monitor, this one  *)
(* included, that the old sequences are complete.                           *)
StartupTimeout(C) ==
    LET Complete(T, k) == IF C.seqs[k].old THEN SendEvent(T, <<"completed", C.seqs[k].id>>) ELSE T
    IN  FoldSet(LAMBDA k, T : Complete(T, k), C, DOMAIN C.seqs)
-----------------------------------------------------------------------------
(* The window manager as a client of the session manager: it registers the  *)
(* command that starts it again, saves itself when asked to, and leaves     *)
(* when told to die.  S is its side of the connection and what the session  *)
(* manager has been told.                                                   *)

NoId == "none"
NewSession == [connected |-> FALSE, id |-> NoId, prev |-> NoId, watches |-> 0, argv |-> <<>>,
               clone |-> <<>>, restart |-> <<>>, style |-> "none", done |-> 0, told |-> <<>>,
               exited |-> FALSE]

(* setCloneRestartCommands: the arguments without the client id of the      *)
(* session before and without --replace, then with the id of this one.      *)
KeepArgument(kept, a) ==
    IF kept.skip THEN [kept EXCEPT !.skip = FALSE]
    ELSE CASE a = "--sm-client-id" -> [kept EXCEPT !.skip = TRUE]
           [] a = "--replace" -> kept
           [] OTHER -> [kept EXCEPT !.args = Append(@, a)]
CloneCommand(argv) == FoldLeft(KeepArgument, [args |-> <<>>, skip |-> FALSE], argv).args
RestartCommand(argv, id) ==
    LET args == CloneCommand(argv)
    IN  <<Head(args), "--sm-client-id", id>> \o Tail(args)

SetCloneRestart(S) ==
    [S EXCEPT !.clone = CloneCommand(S.argv), !.restart = RestartCommand(S.argv, S.id)]
SetRestartStyle(S, style) == [S EXCEPT !.style = style]
SessionEvent(S, e) == [S EXCEPT !.told = Append(@, e)]

(* CompSession::init: the connection is watched from the moment it opens.   *)
SessionInit(S, id, prev) ==
    LET Open(T) == [T EXCEPT !.connected = TRUE, !.id = id, !.prev = prev,
                             !.watches = @ + 1]
    IN  SetRestartStyle(SetCloneRestart(Open(S)), "immediately")

(* CompSession::close, at the end of the program too.                       *)
SessionClose(S) ==
    IF ~S.connected THEN S
    ELSE [SetRestartStyle(S, "ifRunning") EXCEPT !.connected = FALSE, !.watches = @ - 1,
                                                 !.id = NoId, !.prev = NoId]

(* The callbacks: each tells the plugins first.                             *)
SaveYourself(S) ==
    [SetRestartStyle(SetCloneRestart(SessionEvent(S, "save")), "immediately") EXCEPT !.done = @ + 1]
Die(S) == [SessionClose(SessionEvent(S, "die")) EXCEPT !.exited = TRUE]
SaveComplete(S) == SessionEvent(S, "complete")
ShutdownCancelled(S) == SessionEvent(S, "cancelled")

ClientId(S) == IF ~S.connected THEN NoId ELSE IF S.id # NoId THEN S.id ELSE S.prev
=============================================================================
