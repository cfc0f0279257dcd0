------------------------------- MODULE Dispatch -------------------------------
(***************************************************************************)
(* How compiz turns keys, buttons, edges and drags into the actions of the *)
(* options, while the configuration, the plugins and the keyboard's        *)
(* mapping change: the X server and the user, the queue of events, and     *)
(* handleActionEvent.  What an action does is its callbacks' business;     *)
(* here it runs, or it has ended.                                          *)
(***************************************************************************)
EXTENDS Bindings

CONSTANTS
    None,
    Sessions,    \* the configurations, what may happen in each and how often
    MaxQueue     \* bound: events the server may have under way when the user goes on

VARIABLES
    session,     \* the session that is played
    core,        \* what compiz and the server hold: the record S of the operators
    queue,       \* events under way
    hand,        \* the user: modifiers and key held down, button, place of the pointer, drag
    inputs       \* how much has happened

vars == <<session, core, queue, hand, inputs>>
S0 == core

-----------------------------------------------------------------------------
(* What a session may be.                                                   *)

RealMods == DOMAIN Weight \cup {Unmapped}

\* What an option may be set to: the strings of each kind stand for no more.
Parsed(Edge) ==
    LET Coded == [code : Nat, mods : SUBSET (Virtual \cup DOMAIN Weight)]
    IN  [key : Coded, button : Coded, edges : SUBSET Edge,
         type : SUBSET {"key", "button", "edgeButton"}, active : {FALSE}]

Fits(v, kind) == /\ kind = "key" => v.type \subseteq {"key"} /\ v.edges = {}
                 /\ kind = "button" => "key" \notin v.type /\ (v.type = {} => v.edges = {})
                 /\ kind = "edge" => v.type = {}

\* What compiz has before anything is bound
Unbegun(Option, Edge, S) ==
    [kind : [Option -> {"key", "button", "edge"}], owner : [Option -> STRING],
     value : [Option -> Parsed(Edge)], order : Seq(Option), loaded : SUBSET STRING,
     claims : SUBSET Option, noDelay : SUBSET Option, initialized : {FALSE}, xkb : BOOLEAN,
     delay : BOOLEAN, escape : Nat, return : Nat, modMask : [Virtual -> SUBSET RealMods],
     modMap : [DOMAIN S.modMap -> SUBSET Nat], foreign : SUBSET (Nat \X SUBSET RealMods),
     keyGrabs : {<<>>}, buttonGrabs : {<<>>}, rootKeys : {{}}, granted : {FALSE}, left : {{}},
     frames : [DOMAIN S.frames -> {{}}], edgeCount : [Edge -> {0}], edgesMapped : {{}},
     edgeWindow : {None}, xdndWindow : {None}, timer : {None},
     running : {{}}, rebound : {{}}, moved : {{}}, late : {FALSE}]

ASSUME SessionsAssumption ==
    \A s \in Sessions : LET S == s.start
                            Option == DOMAIN S.value
                            Edge == DOMAIN S.edgeCount IN
        /\ IsFiniteSet(Option) /\ IsFiniteSet(Edge) /\ DOMAIN s.values \subseteq Option
        /\ S \in Unbegun(Option, Edge, S) /\ s.masks \subseteq [Virtual -> SUBSET RealMods]
        /\ \A o \in Option : Fits(S.value[o], S.kind[o])
        /\ \A o \in DOMAIN s.values : \A v \in s.values[o] : v \in Parsed(Edge) /\ Fits(v, S.kind[o])

-----------------------------------------------------------------------------
(* Callbacks.  S.running holds <<option, how it was started>>; an action    *)
(* that runs has the state that lets it end.                                *)

ModMask(S) == RealMods \ Ignored(S)
BindMods(S, b) == VirtualToReal(S, b.mods)
Loaded(S) == SelectSeq(S.order, LAMBDA o : S.owner[o] \in S.loaded)

\* options are asked in order until an action says that it has dealt with the event
InitiateFirst(S, Match(_), how) ==
    LET asked == SelectSeq(Loaded(S), Match)
        claims == {n \in DOMAIN asked : asked[n] \in S.claims}
        last == IF claims = {} THEN Len(asked) ELSE Min(claims)
    IN  [S EXCEPT !.running = @ \cup {<<asked[n], how>> : n \in 1 .. last}]

\* terminate callbacks do not claim the event
TerminateAll(S, Match(_), how) ==
    [S EXCEPT !.running = {r \in @ : ~(r[2] \in how /\ Match(r[1]))}]

Is(S, o, type) == type \in S.value[o].type

TriggerButtonPress(S, e) ==
    LET bound(o) == /\ S.value[o].button.code = e.code
                    /\ BindMods(S, S.value[o].button) \cap ModMask(S) = e.mods \cap ModMask(S)
        atEdge == S.edgeWindow # None
        Match(o) == /\ bound(o)
                    /\ \/ Is(S, o, "button")
                       \/ atEdge /\ Is(S, o, "edgeButton") /\ S.edgeWindow \in S.value[o].edges
    IN  IF atEdge /\ e.window # S.edgeWindow THEN S ELSE InitiateFirst(S, Match, "button")

TriggerButtonRelease(S, e) ==
    TerminateAll(S, LAMBDA o : /\ S.value[o].type \cap {"button", "edgeButton"} # {}
                               /\ S.value[o].button.code = e.code, {"button"})

TriggerKeyPress(S, e) ==
    LET Match(o) == /\ Is(S, o, "key")
                    /\ \/ /\ S.value[o].key.code = e.code
                          /\ BindMods(S, S.value[o].key) \cap ModMask(S) = e.mods \cap ModMask(S)
                       \/ /\ ~S.xkb /\ S.value[o].key.code = 0 /\ e.code # 0
                          /\ BindMods(S, S.value[o].key) = e.mods \cap ModMask(S)
        Everything(T) == [T EXCEPT !.running = {}]
    IN  IF e.code = S.escape THEN Everything(S)
        ELSE InitiateFirst(IF e.code = S.return THEN Everything(S) ELSE S, Match, "key")

TriggerKeyRelease(S, e) ==
    LET mods == KeycodeToModifiers(S, e.code)
        Match(o) == /\ Is(S, o, "key")
                    /\ LET bind == BindMods(S, S.value[o].key)
                       IN  IF bind \cap ModMask(S) = {} THEN S.value[o].key.code = e.code
                           ELSE ~S.xkb /\ mods \cap ModMask(S) \cap bind # bind
    IN  IF ~S.xkb /\ mods = {} THEN S ELSE TerminateAll(S, Match, {"key"})

\* mutant: only the actions of bare modifiers end
ReleaseOfBare(S, e) ==
    LET held == e.mods \cap ModMask(S)
        Bare(o) == Is(S, o, "key") /\ S.value[o].key.code = 0
        Starts(o) == Bare(o) /\ BindMods(S, S.value[o].key) \subseteq held
        Ends(o) == Bare(o) /\ ~(BindMods(S, S.value[o].key) \subseteq held)
    IN  IF e.press THEN InitiateFirst(S, Starts, "key") ELSE TerminateAll(S, Ends, {"key"})

\* an XkbStateNotify with the modifiers that are down now
TriggerStateNotify(S, e) ==
    LET held == e.mods \cap ModMask(S)
        Starts(o) == /\ Is(S, o, "key") /\ S.value[o].key.code = 0
                     /\ BindMods(S, S.value[o].key) \subseteq held
        Ends(o) == Is(S, o, "key") /\ ~(BindMods(S, S.value[o].key) \subseteq held)
    IN  IF e.press THEN InitiateFirst(S, Starts, "key") ELSE TerminateAll(S, Ends, {"key"})

EdgeEnterBindings(S, edge, how, delayed) ==
    InitiateFirst(S, LAMBDA o : /\ edge \in S.value[o].edges
                                /\ ~Is(S, o, "edgeButton")
                                /\ delayed # {} => (o \in S.noDelay) \in delayed, how)

EdgeLeaveBindings(S, edge, how) ==
    TerminateAll(S, LAMBDA o : edge \in S.value[o].edges, {how})

\* with a delay only the actions that do not want one start now
TriggerEdgeEnter(S, edge, how) ==
    IF S.delay THEN EdgeEnterBindings([S EXCEPT !.timer = <<edge, how>>], edge, how, {TRUE})
               ELSE EdgeEnterBindings(S, edge, how, {})

DelayedEdgeTimeout(S) ==
    EdgeEnterBindings([S EXCEPT !.timer = None], S.timer[1], S.timer[2], {FALSE})

\* mutant: the delay goes on wherever the pointer goes
EnterTimerRuns(S, e) ==
    LET Left(T) == IF T.edgeWindow \in {None, e.window} THEN T
                   ELSE EdgeLeaveBindings([T EXCEPT !.edgeWindow = None], T.edgeWindow, "edge")
        Entered(T) == IF e.window \notin DOMAIN T.edgeCount THEN T
                      ELSE TriggerEdgeEnter([T EXCEPT !.edgeWindow = e.window], e.window, "edge")
    IN  Entered(Left(S))

EnterNotify(S, e) ==
    LET Left(T) == IF T.edgeWindow \in {None, e.window} THEN T
                   ELSE EdgeLeaveBindings([T EXCEPT !.edgeWindow = None], T.edgeWindow, "edge")
        Entered(T) == IF e.window \notin DOMAIN T.edgeCount THEN T
                      ELSE TriggerEdgeEnter([T EXCEPT !.edgeWindow = e.window], e.window, "edge")
    IN  Entered(Left([S EXCEPT !.timer = None]))

\* a drag of another client enters a window, moves in it and leaves it
DndMessage(S, e) ==
    LET Cleared(T) == [T EXCEPT !.xdndWindow = None]
    IN  CASE e.what = "xdndEnter" -> [S EXCEPT !.xdndWindow = e.window]
          [] e.what = "xdndLeave" ->
               IF S.xdndWindow = None THEN EdgeLeaveBindings(S, e.window, "dnd") ELSE S
          [] e.what = "xdndPosition" ->
               Cleared(IF S.xdndWindow = e.window THEN TriggerEdgeEnter(S, e.window, "dnd") ELSE S)

HandleActionEvent(S, e) ==
    CASE e.what = "ButtonPress" -> TriggerButtonPress(S, e)
      [] e.what = "ButtonRelease" -> TriggerButtonRelease(S, e)
      [] e.what = "KeyPress" -> TriggerKeyPress(S, e)
      [] e.what = "KeyRelease" -> TriggerKeyRelease(S, e)
      [] e.what = "StateNotify" -> TriggerStateNotify(S, e)
      [] e.what = "EnterNotify" -> EnterNotify(S, e)
      [] e.what = "MappingNotify" -> UpdateModifierMappings(S, e.mask)
      [] OTHER -> DndMessage(S, e)

-----------------------------------------------------------------------------
(* The user and the server.                                                 *)

Does(what) == what \in session.does

Act ==
    /\ inputs < session.most /\ inputs' = inputs + 1
    /\ Len(queue) <= MaxQueue
    /\ UNCHANGED session

Send(events) == queue' = queue \o events
Mods == hand.mods \cup hand.locked
Event(what, code, mods) == [what |-> what, code |-> code, mods |-> mods]

\* a key goes down: compiz hears of it if it holds the keyboard or has grabbed the key
Hears(code) == hand.kbd # None \/ <<code, Mods>> \in core.rootKeys
KeyEvents(what, code) == IF Hears(code) THEN <<Event(what, code, Mods)>> ELSE <<>>

PressKey == Does("keys") /\ Act /\ hand.key = None /\ \E k \in session.codes :
    /\ Send(KeyEvents("KeyPress", k))
    /\ hand' = [hand EXCEPT !.key = k, !.kbd = IF Hears(k) /\ hand.kbd = None THEN k ELSE @]
    /\ UNCHANGED core

ReleaseKey == hand.key # None /\ Len(queue) <= MaxQueue + 1 /\
    /\ Send(IF hand.kbd # None THEN <<Event("KeyRelease", hand.key, Mods)>> ELSE <<>>)
    /\ hand' = [hand EXCEPT !.key = None, !.kbd = IF hand.kbd = hand.key THEN None ELSE @]
    /\ UNCHANGED <<session, core, inputs>>

\* a modifier goes down or up; XKB tells of it whoever has the keyboard
PressModifier == Does("keys") /\ Act /\ \E m \in session.mods \ hand.mods :
    LET k == Min(core.modMap[m])
    IN  /\ Send(KeyEvents("KeyPress", k) \o
                (IF core.xkb THEN <<[what |-> "StateNotify", press |-> TRUE,
                                     mods |-> Mods \cup {m}]>> ELSE <<>>))
        /\ hand' = [hand EXCEPT !.mods = @ \cup {m},
                                !.kbd = IF Hears(k) /\ hand.kbd = None THEN k ELSE @]
        /\ UNCHANGED core

ReleaseModifier == Len(queue) <= MaxQueue + 1 /\ \E m \in hand.mods :
    LET k == Min(core.modMap[m])
    IN  /\ Send((IF hand.kbd # None THEN <<Event("KeyRelease", k, Mods)>> ELSE <<>>) \o
                (IF core.xkb THEN <<[what |-> "StateNotify", press |-> FALSE,
                                     mods |-> Mods \ {m}]>> ELSE <<>>))
        /\ hand' = [hand EXCEPT !.mods = @ \ {m}, !.kbd = IF hand.kbd = k THEN None ELSE @]
        /\ UNCHANGED <<session, core, inputs>>

\* a button on a window's frame or at an edge
PressButton == Does("buttons") /\ Act /\ hand.button = None /\ \E b \in session.buttons :
    LET frame == CHOOSE w \in DOMAIN core.frames : TRUE
        heard == hand.at # "root" \/ <<b, Mods>> \in core.frames[frame]
        window == IF hand.at = "root" THEN frame ELSE hand.at
        e == [what |-> "ButtonPress", code |-> b, mods |-> Mods, window |-> window]
    IN  /\ Send(IF heard THEN <<e>> ELSE <<>>)
        /\ hand' = [hand EXCEPT !.button = b, !.caught = heard]
        /\ UNCHANGED core

ReleaseButton == hand.button # None /\ Len(queue) <= MaxQueue + 1 /\
    /\ Send(IF hand.caught THEN <<[what |-> "ButtonRelease", code |-> hand.button,
                                   mods |-> Mods]>> ELSE <<>>)
    /\ hand' = [hand EXCEPT !.button = None]
    /\ UNCHANGED <<session, core, inputs>>

\* the pointer enters an edge that is mapped, or leaves it
MovePointer == Does("pointer") /\ Act /\ hand.drag = None /\ \E p \in core.edgesMapped \cup {"root"} :
    /\ p # hand.at
    /\ Send(<<[what |-> "EnterNotify", window |-> p]>>)
    /\ hand' = [hand EXCEPT !.at = p]
    /\ UNCHANGED core

Drag == Does("dnd") /\ Act /\ UNCHANGED core /\
    \/ /\ hand.drag = None
       /\ \E e \in core.edgesMapped :
            /\ Send(<<[what |-> "xdndEnter", window |-> e]>>)
            /\ hand' = [hand EXCEPT !.drag = e]
    \/ /\ hand.drag # None
       /\ Send(<<[what |-> "xdndPosition", window |-> hand.drag]>>)
       /\ UNCHANGED hand

LeaveDrag == hand.drag # None /\ Len(queue) <= MaxQueue + 1 /\
    /\ Send(<<[what |-> "xdndLeave", window |-> hand.drag]>>)
    /\ hand' = [hand EXCEPT !.drag = None]
    /\ UNCHANGED <<session, core, inputs>>

\* an edge window that is unmapped under the pointer lets it out
Rebind(S) ==
    /\ core' = S
    /\ IF hand.at \in {"root"} \cup S.edgesMapped THEN UNCHANGED <<queue, hand>>
       ELSE /\ Send(<<[what |-> "EnterNotify", window |-> "root"]>>)
            /\ hand' = [hand EXCEPT !.at = "root"]

\* history: an action that runs under the old binding
Rebound(S, options) == [S EXCEPT !.rebound = @ \cup {r \in S.running : r[1] \in options}]

SetsOption == Does("set") /\ Act /\ \E o \in DOMAIN session.values : \E v \in session.values[o] :
    /\ S0.owner[o] \in S0.loaded /\ ~Same(v, S0.value[o])
    /\ Rebind(Rebound(SetOption(S0, o, v), {o}))

OfPlugin(p) == {o \in DOMAIN core.value : core.owner[o] = p}

LoadsPlugin == Does("plugins") /\ Act /\ \E p \in Range(core.owner) \ core.loaded :
    Rebind(InitOptions([S0 EXCEPT !.loaded = @ \cup {p},
                                  !.value = [o \in DOMAIN @ |-> IF o \in OfPlugin(p)
                                                               THEN session.start.value[o]
                                                               ELSE @[o]]], OfPlugin(p)))

UnloadsPlugin == Does("plugins") /\ Act /\ \E p \in core.loaded \ {"core"} :
    LET S == FiniOptions(S0, OfPlugin(p))
    IN  Rebind([S EXCEPT !.loaded = @ \ {p},
                         !.running = {r \in @ : S.owner[r[1]] # p}])

ChangesMapping == Does("mapping") /\ Act /\ \E m \in session.masks :
    /\ Send(<<[what |-> "MappingNotify", mask |-> m]>>)
    /\ UNCHANGED <<core, hand>>

\* history: the active keys whose real modifiers a change of the mapping moves
Moved(S, mask) ==
    {o \in DOMAIN S.value :
        /\ S.value[o].active /\ Is(S, o, "key")
        /\ VirtualToReal(S, S.value[o].key.mods)
             # VirtualToReal([S EXCEPT !.modMask = mask], S.value[o].key.mods)}

\* history: a drag that leaves before its delay is over
Outlived(S, e) == e.what = "xdndLeave" /\ S.timer # None /\ S.timer[2] = "dnd"

HandleEvent ==
    /\ queue # <<>>
    /\ LET e == Head(queue)
           moved == IF e.what = "MappingNotify" THEN Moved(core, e.mask) ELSE {}
       IN  core' = HandleActionEvent([core EXCEPT !.moved = @ \cup moved,
                                                  !.late = @ \/ Outlived(core, e)], e)
    /\ queue' = Tail(queue)
    /\ UNCHANGED <<session, hand, inputs>>

EdgeTimer ==
    /\ core.timer # None
    /\ core' = DelayedEdgeTimeout(core)
    /\ UNCHANGED <<session, queue, hand, inputs>>

Init ==
    /\ session \in Sessions
    /\ core = InitOptions(AddScreenActions(session.start),
                          {o \in DOMAIN session.start.owner :
                              session.start.owner[o] \in session.start.loaded \ {"core"}})
    /\ queue = <<>>
    /\ hand = [mods |-> {}, locked |-> session.locked, key |-> None, kbd |-> None,
               button |-> None, caught |-> FALSE, at |-> "root", drag |-> None]
    /\ inputs = 0

Next ==
    \/ PressKey \/ ReleaseKey \/ PressModifier \/ ReleaseModifier \/ PressButton \/ ReleaseButton
    \/ MovePointer \/ Drag \/ LeaveDrag \/ SetsOption \/ LoadsPlugin \/ UnloadsPlugin
    \/ ChangesMapping \/ HandleEvent \/ EdgeTimer

Spec == Init /\ [][Next]_vars
-----------------------------------------------------------------------------
(* Keys that do not get into each other's way.                             *)

RealKey(S, key) == <<key.code, VirtualToReal(S, key.mods)>>
Combos(S, k) == AllCombinations(S, k[2], k[1])

\* The keys that options of a session may have, and the mappings there may be
Bindable(s) == {s.start.value[o] : o \in DOMAIN s.start.value}
              \cup UNION {s.values[o] : o \in DOMAIN s.values}
KeyStrings(s) == {v.key : v \in {c \in Bindable(s) : "key" \in c.type}}
Masks(s) == {s.start.modMask} \cup s.masks
Under(s, m) == [s.start EXCEPT !.modMask = m]

\* Removing the grab of a key ungrabs all its combinations with ignored modifiers, and a
\* changed mapping grabs the keys again without asking whether it may.  So keys must not
\* share combinations, and a mapping must not make another client's key of one of them.
KeysApart ==
    \A s \in Sessions : \A m \in Masks(s) : \A a \in KeyStrings(s) :
        LET S == Under(s, m)
            k == RealKey(S, a)
        IN  /\ \A b \in KeyStrings(s) : \/ RealKey(S, b) = k
                                        \/ Combos(S, k) \cap Combos(S, RealKey(S, b)) = {}
            /\ \A n \in Masks(s) : LET T == Under(s, n) IN
                  RealKey(T, a) = k /\ Combos(S, k) \cap S.foreign = {}
                    => Combos(T, k) \cap S.foreign = {}

-----------------------------------------------------------------------------
(* Properties.                                                              *)

Active == {o \in DOMAIN core.value : core.value[o].active}
Wanted == UNION {LET a == core.value[o] IN
                 IF Is(core, o, "key") THEN AllCombinations(core, VirtualToReal(core, a.key.mods), a.key.code)
                                       ELSE {} : o \in Active}

\* The keys grabbed on the root window are those of the active actions, each with and
\* without the ignored modifiers, however options and plugins come and go and share keys;
\* what a refused grab got before it was refused stays (addPassiveKeyGrab, CompOption::set).
KeysGrabbed ==
    core.moved = {} => Wanted \subseteq core.rootKeys /\ core.rootKeys \subseteq Wanted \cup core.left

\* Frames have the buttons of the active actions, under the modifiers that the keyboard
\* has now (updatePassiveButtonGrabs, updateModifierMappings).
ButtonsGrabbed ==
    LET wanted == {o \in Active : Is(core, o, "button")}
        Grabbed(b) == LET mods == VirtualToReal(core, b.mods)
                      IN  IF Unmapped \in mods THEN {}
                          ELSE {<<b.code, mods \cup i>> : i \in SUBSET Ignored(core)}
    IN  \A w \in DOMAIN core.frames :
            core.frames[w] = UNION {Grabbed(core.value[o].button) : o \in wanted}

\* An edge is mapped while some active action waits there, and only then.
EdgesMapped == core.edgesMapped = UNION {core.value[o].edges : o \in Active}

\* An action that a key started does not outlive the modifiers of its binding, or its key
\* where it has none, and that of a button not the button, in whatever order they go down
\* and up (triggerKeyRelease..., triggerStateNotify...); a binding may change meanwhile.
KeyActionsEnd ==
    queue = <<>> /\ core.xkb => \A r \in core.running \ core.rebound :
        /\ r[2] = "key" => LET key == core.value[r[1]].key
                               bind == BindMods(core, key) \cap ModMask(core)
                           IN  IF bind = {} THEN key.code = hand.key ELSE bind \subseteq Mods
        /\ r[2] = "button" => hand.button # None

\* An action that the pointer started at an edge does not go on, or start late, when the
\* pointer has left; nor that of a drag, unless the delay outlived the drag.
EdgeActionsEnd ==
    queue = <<>> => \A r \in core.running \ core.rebound :
        /\ r[2] = "edge" => hand.at \in core.value[r[1]].edges
        /\ r[2] = "dnd" => hand.drag # None \/ core.late

(* Keys, buttons and edges are grabbed for the active actions and no other. *)
GrabsAgree == KeysGrabbed /\ ButtonsGrabbed /\ EdgesMapped
=============================================================================
