------------------------------- MODULE Stacking --------------------------------
(***************************************************************************)
(* The stacking order.  compiz keeps a list of the windows, bottom first,  *)
(* and restacks its own list at once when it asks the X server to restack  *)
(* a window.  The server has the order that counts; it reports every       *)
(* change (also those of override redirect windows, which ask nobody) by a *)
(* ConfigureNotify that names the window now below the one that moved, and *)
(* compiz replays these on its list.                                       *)
(*                                                                         *)
(* The state is a record S: stack is the list, server the order of the     *)
(* server, events what the server has told, win the windows.  Properties   *)
(* of windows (type, state, transient-for, group leader) decide which may  *)
(* be above which.                                                         *)
(***************************************************************************)
EXTENDS Integers, Sequences, FiniteSets, SequencesExt

CONSTANTS
    Windows,   \* the windows
    NoWindow   \* a NULL pointer, or no id

ASSUME StackingAssumption == NoWindow \notin Windows /\ IsFiniteSet(Windows)

\* recalcType: type from wmType and state
TypeOf(S, w) ==
    LET a == S.win[w]
        Dialog(t) == IF t = "normal" /\ a.trans # NoWindow THEN "dialog" ELSE t
        Dock(t) == IF t = "dock" /\ a.below THEN "normal" ELSE t
        Modal(t) == IF t \in {"normal", "dialog"} /\ a.modal THEN "modal" ELSE t
    IN Modal(Dock(Dialog(IF a.full THEN "fullscreen" ELSE a.wmType)))

Dialogs == {"dialog", "modal"}

\* findWindow finds it: a destroyed window has lost its id
Has(S, w) == w \in Windows /\ S.win[w].made /\ ~S.win[w].gone

\* the windows w is transient for, directly or not
Ancestors(S, w) ==
    LET known(v) == {S.win[v].trans} \cap {u \in Windows : Has(S, u)}
        up[n \in 0 .. Cardinality(Windows)] ==
            IF n = 0 THEN known(w)
            ELSE up[n - 1] \cup UNION {known(v) : v \in up[n - 1]}
    IN up[Cardinality(Windows)]

IsAncestorTo(S, transient, ancestor) == ancestor \in Ancestors(S, transient)

\* isGroupTransient
IsGroupTransient(S, w, leader) ==
    /\ leader # 0
    /\ S.win[w].trans = NoWindow
    /\ TypeOf(S, w) \in Dialogs
    /\ S.win[w].leader = leader

\* the leader that counts when w is stacked: none for a transient
LeaderOf(S, w) ==
    IF S.win[w].trans # NoWindow \/ IsGroupTransient(S, w, S.win[w].leader)
    THEN 0 ELSE S.win[w].leader

\* stackLayerCheck: w may be above the other, by state and kinship
StackLayerCheck(S, w, leader, other) ==
    \/ IsAncestorTo(S, w, other)
    \/ /\ ~IsAncestorTo(S, other, w)
       /\ ~(/\ leader # 0
            /\ S.win[other].leader = leader
            /\ IsGroupTransient(S, other, leader))
       /\ \/ S.win[w].above
          \/ IF S.win[w].below THEN S.win[other].below ELSE ~S.win[other].above

\* avoidStackingRelativeTo
AvoidStackingRelativeTo(S, w) == S.win[w].override \/ ~S.win[w].viewable \/ S.win[w].gone

\* a fullscreen window that is to be below stacks as a normal one
StackType(S, w) ==
    IF TypeOf(S, w) = "fullscreen" /\ S.win[w].below THEN "normal" ELSE TypeOf(S, w)

\* the common part of the searches: may w be right above the other?  under: the
\* types a normal window has to stay under
MayBeAbove(S, w, other, under) ==
    \/ TypeOf(S, other) = "desktop"
    \/ CASE StackType(S, w) = "desktop" -> FALSE
         [] StackType(S, w) \in {"fullscreen", "dock"} ->
              TypeOf(S, other) \in {"fullscreen", "dock"}
                  => StackLayerCheck(S, w, LeaderOf(S, w), other)
         [] OTHER -> /\ TypeOf(S, other) \notin under
                     /\ StackLayerCheck(S, w, LeaderOf(S, w), other)

\* the places of the list that hold a window w can be stacked relative to
Candidates(S, w) ==
    {i \in DOMAIN S.stack : S.stack[i] # w /\ ~AvoidStackingRelativeTo(S, S.stack[i])}

AtTop(S, places) == IF places = {} THEN NoWindow ELSE S.stack[Max(places)]

\* findSiblingBelow; overFs is aboveFs
FindSiblingBelow(S, w, overFs) ==
    LET under == IF overFs THEN {"dock"} ELSE {"dock", "fullscreen"}
    IN AtTop(S, {i \in Candidates(S, w) :
                   \/ MayBeAbove(S, w, S.stack[i], under)
                   \/ overFs /\ StackType(S, w) = "fullscreen"})

\* validSiblingBelow
ValidSiblingBelow(S, w, sibling) ==
    /\ sibling # w
    /\ ~AvoidStackingRelativeTo(S, sibling)
    /\ MayBeAbove(S, w, sibling, {"dock"})

\* findLowestSiblingBelow: down the stack as long as what is passed may stay above
\* w.  The search begins with the top of the list, whatever is there.
FindLowestSiblingBelow(S, w) ==
    LET leader == LeaderOf(S, w)
        Stops(other) ==
            \/ TypeOf(S, other) = "desktop"
            \/ StackType(S, w) = "desktop"
            \/ IF StackType(S, w) \in {"fullscreen", "dock"}
               THEN TypeOf(S, other) \in {"fullscreen", "dock"}
                       => ~StackLayerCheck(S, other, leader, w)
               ELSE /\ TypeOf(S, other) # "dock"
                    /\ ~StackLayerCheck(S, other, leader, w)
        \* from the end of the search, with the windows that were passed above it
        From(end, passed) ==
            LET lowest == IF passed = {} THEN Last(S.stack) ELSE S.stack[Min(passed)]
            IN IF end = 0 THEN lowest
               ELSE IF TypeOf(S, S.stack[end]) = "desktop" THEN S.stack[end]
               ELSE IF StackType(S, w) = "desktop" THEN NoWindow ELSE lowest
        Search(end) == From(end, {i \in Candidates(S, w) : i > end})
    IN Search(Max({0} \cup {i \in Candidates(S, w) : Stops(S.stack[i])}))

PlaceOf(S, w) == CHOOSE i \in DOMAIN S.stack : S.stack[i] = w

Prev(S, w) == IF PlaceOf(S, w) = 1 THEN NoWindow ELSE S.stack[PlaceOf(S, w) - 1]

\* findValidStackSiblingBelow: the highest window under the sibling w can be above
FindValidStackSiblingBelow(S, w, sibling) ==
    LET from == {i \in DOMAIN S.stack :
                    /\ i >= PlaceOf(S, sibling)
                    /\ ~AvoidStackingRelativeTo(S, S.stack[i])}
        refused == from # {} /\ ~ValidSiblingBelow(S, S.stack[Min(from)], w)
        \* up the list: [lowest, last], last being the last window passed
        Pass(before, v) ==
            IF v = w \/ AvoidStackingRelativeTo(S, v) THEN before
            ELSE [lowest |-> IF ValidSiblingBelow(S, w, v) /\ before.last = before.lowest
                             THEN v ELSE before.lowest,
                  last |-> v]
    IN IF refused THEN NoWindow
       ELSE FoldLeft(Pass, [f \in {"lowest", "last"} |-> FindLowestSiblingBelow(S, w)],
                     SubSeq(S.stack, 1, PlaceOf(S, sibling) - 1)).lowest

-----------------------------------------------------------------------------
(* Changing the order.                                                     *)

\* insertWindow after unhookWindow: w right above the other, or at the bottom
PutAbove(list, w, other) ==
    LET Split(rest, i) == SubSeq(rest, 1, i) \o <<w>> \o SubSeq(rest, i + 1, Len(rest))
        In(rest) == Split(rest, IF other = NoWindow THEN 0
                                ELSE CHOOSE i \in DOMAIN rest : rest[i] = other)
    IN In(SelectSeq(list, LAMBDA v : v # w))

\* PrivateWindow::restack
Restack(S, w, other) ==
    IF \/ other = w
       \/ other # NoWindow /\ (Prev(S, w) = other \/ ~Has(S, other))
       \/ other = NoWindow /\ Len(S.stack) = 1
    THEN S
    ELSE [S EXCEPT !.stack = PutAbove(@, w, other)]

\* The server restacks a window that exists relative to one that exists, and says so
\* when the order is another.
XRestack(S, w, other) ==
    LET Report(T) == IF T = S THEN S
                     ELSE [T EXCEPT !.events = Append(@, [type |-> "ConfigureNotify",
                                                          win |-> w, above |-> other])]
    IN IF w \notin ToSet(S.server) \/ other = w
            \/ other \notin ToSet(S.server) \cup {NoWindow}
       THEN S
       ELSE Report([S EXCEPT !.server = PutAbove(@, w, other)])

\* reconfigureXWindow with a sibling
ReconfigureXWindow(S, w, sibling) ==
    XRestack(Restack(S, w, sibling), w, sibling)

\* mutant: transients stay where they are
LeaveTransients(S, w, avoid, sibling) == [list |-> <<>>, failed |-> FALSE]

\* the windows stackTransients collects for w, top first, but for "avoid"; failed:
\* the sibling is one of them, or a dock has a transient that is none
StackTransients(S, w, avoid, sibling) ==
    LET leader == LeaderOf(S, w)
        child(u, v) == /\ v # u /\ v # avoid /\ Has(S, v)
                       /\ \/ S.win[v].trans = u
                          \/ IsGroupTransient(S, v, LeaderOf(S, u))
        \* the children of u, and theirs before them, as deep as there are windows
        tree[n \in 0 .. Cardinality(Windows), u \in Windows] ==
            IF n = 0 THEN [list |-> <<>>, failed |-> FALSE]
            ELSE LET kids == Reverse(SelectSeq(S.stack, LAMBDA v : child(u, v)))
                     sub == [i \in DOMAIN kids |-> tree[n - 1, kids[i]]]
                 IN [list |-> FlattenSeq([i \in DOMAIN kids |->
                                sub[i].list \o (IF S.win[kids[i]].viewable
                                                THEN <<kids[i]>> ELSE <<>>)]),
                     failed |-> \E i \in DOMAIN kids :
                                  \/ sub[i].failed \/ kids[i] = sibling
                                  \/ /\ TypeOf(S, u) = "dock"
                                     /\ TypeOf(S, kids[i]) # "dock"]
    IN tree[Cardinality(Windows), w]

Viewable(S, v) == IF S.win[v].viewable THEN <<v>> ELSE <<>>
DockClash(S, u, v) == TypeOf(S, u) = "dock" /\ TypeOf(S, v) # "dock"

\* the heads of the group of v with their transients, down to the first that clashes
GroupHeads(S, v, sibling) ==
    LET heads == Reverse(SelectSeq(S.stack, LAMBDA u :
                     /\ S.win[u].leader = S.win[v].leader
                     /\ S.win[u].trans = NoWindow /\ Has(S, u)
                     /\ ~IsGroupTransient(S, u, S.win[v].leader)))
        Add(acc, u, kin) ==
            IF acc.failed \/ kin.failed \/ u = sibling \/ DockClash(S, u, v)
            THEN [acc EXCEPT !.failed = TRUE]
            ELSE [acc EXCEPT !.list = @ \o kin.list \o
                     (IF TypeOf(S, u) = "desktop" THEN <<>> ELSE Viewable(S, u))]
    IN FoldLeft(LAMBDA acc, u : Add(acc, u, StackTransients(S, u, v, sibling)),
                [list |-> <<>>, failed |-> FALSE], heads).list

\* stackAncestors: the windows w is transient for, each after its other transients,
\* or the windows of its group that w is a group transient of
StackAncestors(S, w, sibling) ==
    LET Above(a, v, kin, further) == kin.list \o
            (IF kin.failed \/ TypeOf(S, a) = "desktop" \/ DockClash(S, a, v)
             THEN <<>> ELSE Viewable(S, a) \o further)
        up[n \in 0 .. Cardinality(Windows), v \in Windows] ==
            LET a == S.win[v].trans
            IN CASE n = 0 -> <<>>
                 [] n # 0 /\ a # NoWindow /\ Has(S, a) /\ a # sibling ->
                      Above(a, v, StackTransients(S, a, v, sibling), up[n - 1, a])
                 [] n # 0 /\ ~(a # NoWindow /\ Has(S, a) /\ a # sibling) ->
                      IF IsGroupTransient(S, v, S.win[v].leader)
                      THEN GroupHeads(S, v, sibling) ELSE <<>>
    IN up[Cardinality(Windows), w]

\* each window of the list above the one before; the result says above what the next
\* is to go
InOrder(start, list) ==
    FoldLeft(LAMBDA acc, v : [S |-> ReconfigureXWindow(acc.S, v, acc.last), last |-> v],
             start, list)

\* ancestors, w, transients, unless the sibling is one of these
InOrderWith(start, w, transients) ==
    IF transients.failed THEN start
    ELSE InOrder(start, Reverse(StackAncestors(start.S, w, start.last)) \o <<w>>
                            \o Reverse(transients.list))

\* configureXWindow to stack w above a sibling
ConfigureXWindow(S, w, sibling) ==
    LET start == [S |-> S, last |-> sibling]
    IN IF S.win[w].managed
       THEN InOrderWith(start, w, StackTransients(S, w, NoWindow, sibling))
       ELSE [start EXCEPT !.S = ReconfigureXWindow(S, w, sibling)]

\* what is below a fullscreen window that a window is put above: the docks, which
\* go above it first
DocksBelow(S, sibling) ==
    Reverse(SelectSeq(SubSeq(S.stack, 1, PlaceOf(S, sibling)),
                      LAMBDA v : TypeOf(S, v) = "dock" /\ ~S.win[v].gone))

\* addWindowStackChanges and configureXWindow: w goes above the sibling, or to the
\* bottom.  Stacking the docks leaves the sibling in xwc at the last of them.
StackAbove(S, w, sibling) ==
    IF sibling = w THEN S
    ELSE IF sibling = NoWindow
    THEN IF Prev(S, w) = NoWindow THEN S ELSE Restack(XRestack(S, w, NoWindow), w, NoWindow)
    ELSE IF Prev(S, w) = sibling THEN S
    ELSE LET docks == /\ TypeOf(S, sibling) = "fullscreen"
                      /\ TypeOf(S, w) \notin {"fullscreen", "dock"}
                      /\ ~IsAncestorTo(S, w, sibling)
         IN FoldLeft(LAMBDA acc, v : ConfigureXWindow(acc.S, v, acc.last),
                     [S |-> S, last |-> sibling],
                     (IF docks THEN DocksBelow(S, sibling) ELSE <<>>) \o <<w>>).S

-----------------------------------------------------------------------------
(* The operations.                                                         *)

\* CompWindow::raise
Raise(S, w) ==
    StackAbove(S, w,
        FindSiblingBelow(S, w, TypeOf(S, w) = "fullscreen" /\ S.active = w))

\* the stacking part of CompWindow::lower
LowerStack(S, w) == StackAbove(S, w, FindLowestSiblingBelow(S, w))

\* restackAbove: above the sibling, or the next above it that is valid
RestackAbove(S, w, sibling) ==
    LET valid == {i \in DOMAIN S.stack :
                    i >= PlaceOf(S, sibling) /\ ValidSiblingBelow(S, w, S.stack[i])}
    IN IF valid = {} THEN S ELSE StackAbove(S, w, S.stack[Min(valid)])

RestackBelow(S, w, sibling) ==
    StackAbove(S, w, FindValidStackSiblingBelow(S, w, sibling))

\* updateAttributes: where a window goes that is shown, activated or changed; mode is
\* the CompStackingUpdateMode
UpdateStacking(S, w, mode) ==
    LET overFs == \/ mode \in {"AboveFullscreen", "InitialMap"}
                  \/ TypeOf(S, w) = "fullscreen" /\ S.active = w
        \* not above the active window when focus was denied
        Under(sibling) == /\ mode = "InitialMapDeniedFocus"
                          /\ sibling # NoWindow
                          /\ Has(S, S.active)
                          /\ PlaceOf(S, S.active) <= PlaceOf(S, sibling)
                          /\ ValidSiblingBelow(S, S.active, w)
        OrLower(sibling, lower) == IF lower # NoWindow THEN lower ELSE sibling
        To(sibling) == IF ~Under(sibling) THEN sibling
                       ELSE OrLower(sibling, FindValidStackSiblingBelow(S, sibling, S.active))
    IN IF S.win[w].override \/ ~S.win[w].managed \/ mode = "None" THEN S
       ELSE StackAbove(S, w, To(FindSiblingBelow(S, w, overFs)))

\* getTopWindow: above it a new window goes, in both lists
TopWindow(list) == IF list = <<>> THEN NoWindow ELSE Last(list)

\* configure and configureFrame: the server has told
ConfigureNotify(S, w, other) == IF Has(S, w) THEN Restack(S, w, other) ELSE S

=============================================================================
