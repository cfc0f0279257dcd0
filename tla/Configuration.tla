---------------------------- MODULE Configuration ----------------------------
(* The options of the core and of one plugin, ext, as users, programs on    *)
(* the bus and editors of the files change them while plugins come and go,  *)
(* and the matches of ext as windows change.                                *)
EXTENDS Settings

CONSTANTS Scenes,  (* what is loaded at the start and who does what         *)
          Texts,   (* the match texts                                       *)
          Sample,  (* those that options are set to                         *)
          Lists,   (* the lists of plugins, without the core                *)
          MaxOps   (* bound on what is done from outside                    *)

VARIABLES plugins, value, disk, watch, bus, regex, win,
          turn,    (* where the main loop is, and whether memory is sound   *)
          ops, scene
vars == <<plugins, value, disk, watch, bus, regex, win, turn, ops, scene>>

Now ==
    [plugins |-> plugins, initial |-> scene.initial,
     value |-> value.of, dirty |-> value.dirty, by |-> value.by, ahead |-> value.ahead,
     disk |-> disk.file, dir |-> disk.dir, home |-> disk.home, missed |-> disk.missed, block |-> FALSE,
     files |-> watch.files, watched |-> watch.watched, live |-> watch.live, queue |-> watch.queue,
     refused |-> watch.refused, hung |-> watch.hung,
     paths |-> bus.paths, heard |-> bus.heard, grown |-> bus.grown, left |-> bus.left,
     wraps |-> regex.wraps, timer |-> regex.timer, read |-> regex.read, deaf |-> regex.deaf,
     prop |-> win.prop, events |-> win.events, torn |-> turn.torn, inEvents |-> turn.inEvents]
Become(T) ==
    /\ plugins' = T.plugins
    /\ value' = [of |-> T.value, dirty |-> T.dirty, by |-> T.by, ahead |-> T.ahead]
    /\ disk' = [file |-> T.disk, dir |-> T.dir, home |-> T.home, missed |-> T.missed]
    /\ watch' = [files |-> T.files, watched |-> T.watched, live |-> T.live, queue |-> T.queue,
                  refused |-> T.refused, hung |-> T.hung]
    /\ bus' = [paths |-> T.paths, heard |-> T.heard, grown |-> T.grown, left |-> T.left]
    /\ regex' = [wraps |-> T.wraps, timer |-> T.timer, read |-> T.read, deaf |-> T.deaf]
    /\ win' = [prop |-> T.prop, events |-> T.events]
    /\ turn' = [torn |-> T.torn, inEvents |-> T.inEvents]

Missing == [exists |-> FALSE, text |-> <<>>]
NothingRead == [title |-> 0, role |-> 0, class |-> 0]

Init ==
    /\ scene \in Scenes
    /\ plugins = <<>>
    /\ value = [of |-> [active_plugins |-> scene.active, number |-> 0, match |-> <<>>],
                dirty |-> TRUE, by |-> "core", ahead |-> {}]
    /\ \E home \in BOOLEAN :
          disk = [file |-> [core |-> Missing, ext |-> Missing], dir |-> FALSE, home |-> home, missed |-> {}]
    /\ watch = [files |-> <<>>, watched |-> <<>>, live |-> {}, queue |-> <<>>, refused |-> {}, hung |-> FALSE]
    /\ bus = [paths |-> {}, heard |-> <<>>, grown |-> <<>>, left |-> {}]
    /\ regex = [wraps |-> FALSE, timer |-> FALSE, read |-> NothingRead, deaf |-> FALSE]
    /\ win = [prop |-> [wmName |-> 0, netName |-> 0, role |-> 0, class |-> 0], events |-> <<>>]
    /\ turn = [torn |-> FALSE, inEvents |-> FALSE]
    /\ ops = 0

Has(p) == Loaded(Now, p)
Inputs(o) == CASE o = "number" -> Numbers \ {Junk} [] o = "match" -> Sample [] OTHER -> Lists

-----------------------------------------------------------------------------
(* What the program does.  Nothing is said of it after a hang, or after the *)
(* library of an active plugin was unloaded.                                *)
Alive == ~watch.hung /\ ~turn.torn
Runs == Alive /\ UNCHANGED <<ops, scene>>

(* X events wake processEvents.  It first makes the plugins those of the    *)
(* option, if that has changed, and then handles events until none is left: *)
(* what changes the option meanwhile, or in another callback of the main    *)
(* loop, waits for the next event.                                          *)
Woken == Alive /\ ~turn.inEvents /\ win.events # <<>>
ProcessesEvents ==
    /\ Woken /\ Runs
    /\ LET T == [Now EXCEPT !.inEvents = TRUE] IN Become(IF T.dirty THEN UpdatePlugins(T) ELSE T)
HandlesProperty ==
    /\ turn.inEvents /\ win.events # <<>> /\ Runs
    /\ Become(PropertyNotify([Now EXCEPT !.events = Tail(@)], Head(win.events)))
EventsHandled ==
    turn.inEvents /\ win.events = <<>> /\ Runs /\ Become([Now EXCEPT !.inEvents = FALSE])
InEvents == Alive /\ turn.inEvents
Goes == HandlesProperty \/ EventsHandled

(* A file descriptor is ready, or a timer runs out, between two X events or *)
(* many of them, whether an update is due or not.                           *)
Waits == Alive /\ ~turn.inEvents
Notified == Alive /\ watch.queue # <<>>
Notifies == Waits /\ Notified /\ Runs /\ \E S \in ProcessEvents(Now) : Become(S)

TimerDue == Alive /\ regex.timer
RegexTimer == Waits /\ TimerDue /\ Runs /\ Become([MatchExpHandlerChanged(Now) EXCEPT !.timer = FALSE])

-----------------------------------------------------------------------------
(* What is done from outside.                                               *)
Op(who, T) == who \in scene.who /\ ops < MaxOps /\ ops' = ops + 1 /\ UNCHANGED scene /\ Become(T)

(* Another plugin sets an option, in the handler of an event or a callback. *)
PluginSets(o) ==
    /\ Alive /\ Has(Owner(o))
    /\ \E v \in Inputs(o) : Op("plugin", SetOption(Now, o, FromText(o, v)))

(* A message on the bus reaches a path that is registered.  The items of a  *)
(* list are put behind those the option has, and then nothing is set.       *)
Reached(o) == Waits /\ Has("dbus") /\ <<Owner(o), o>> \in bus.paths
BusSets(o, v) ==
    Op("bus", IF ~Has(Owner(o)) THEN Now
              ELSE IF o = "active_plugins"
                   THEN [Now EXCEPT !.value.active_plugins = @ \o v, !.grown = @ \o v, !.ahead = @ \cup {o}]
                   ELSE SetOption(Now, o, FromText(o, v)))
BusGets(o) ==
    Op("bus", IF Has(Owner(o)) THEN Hears(Now, o) ELSE Now)
BusMessage == \E o \in {"active_plugins", "number", "match"} :
    Reached(o) /\ (BusGets(o) \/ \E v \in Inputs(o) : BusSets(o, v))

(* Another program writes a file, deletes one, or all of them.              *)
Writes(o) ==
    \E v \in Inputs(o) \cup (IF o = "number" THEN {Junk} ELSE {}) :
        /\ disk.dir
        /\ LET p == Owner(o)
               old == disk.file[p].text
           IN  Op("editor", Change([Now EXCEPT !.disk[p] = [exists |-> TRUE, text |-> (o :> v) @@ old],
                                               !.missed = IF "ini" \in watch.live THEN @ ELSE @ \cup {p}],
                                   "ini", p))
Deletes(p) ==
    /\ disk.file[p].exists
    /\ Op("editor", Change([Now EXCEPT !.disk[p] = Missing], "ini", p))
DeletesAll ==
    /\ disk.dir
    /\ LET Gone(T, p) == IF disk.file[p].exists THEN Change([T EXCEPT !.disk[p] = Missing], "ini", p) ELSE T
       IN  Op("editor", [Gone(Gone(Now, "core"), "ext") EXCEPT !.dir = FALSE, !.live = @ \ {"ini"}])

(* The display stirs: an X event that none of these plugins looks at.       *)
Stirs == Waits /\ win.events = <<>> /\ UNCHANGED <<ops, scene>> /\ Become([Now EXCEPT !.events = <<"other">>])

(* The window gets another name, role or class.                             *)
ChangesProperty(atom) ==
    Op("client", [Now EXCEPT !.prop[atom] = 1 - @, !.events = Append(@, atom)])

Next ==
    \/ ProcessesEvents \/ HandlesProperty \/ EventsHandled \/ Notifies \/ RegexTimer \/ Stirs
    \/ \E o \in {"active_plugins", "number", "match"} : PluginSets(o) \/ Writes(o)
    \/ BusMessage
    \/ \E p \in {"core", "ext"} : Deletes(p)
    \/ DeletesAll
    \/ \E atom \in {"wmName", "netName", "role", "class"} : ChangesProperty(atom)

(* The main loop goes on: X events are handled, and every turn runs what is *)
(* due besides, however many events come.  Nobody must stir.                *)
Fairness ==
    /\ []<>~Woken \/ []<><<ProcessesEvents>>_vars
    /\ []<>~InEvents \/ []<><<Goes>>_vars
    /\ []<>~Notified \/ []<><<Notifies>>_vars
    /\ []<>~TimerDue \/ []<><<RegexTimer>>_vars

Spec == Init /\ [][Next]_vars /\ Fairness

-----------------------------------------------------------------------------
(* An expression of regex is used only while regex is loaded, and once its  *)
(* timer has fired every match has them; a match says of every window what  *)
(* its text says - texts in which "|" follows "!" or "&" left out, which    *)
(* are misread - and comes back from a file as it was; what regex compares  *)
(* is what the window says, unless only _NET_WM_NAME changed.               *)
ExpressionsLive ==
    /\ value.by = "regex" => Has("regex")
    /\ (Has("regex") /\ ~regex.timer /\ Has("ext")) => value.by = "regex"
TextsMean ==
    LET words == {"title", "role", "class"}
    IN  \A t \in Texts :
           LET m == Parse(t)
           IN  /\ Plain(t) => \A true \in SUBSET words : Matches(m, true) = Meaning(t, true)
               /\ Parse(ToText(m)) = m
NamesFresh ==
    (Has("regex") /\ win.events = <<>>) =>
        /\ regex.read.title = Title(win.prop) \/ regex.deaf
        /\ regex.read.role = win.prop.role
        /\ regex.read.class = win.prop.class
MatchesAgree == ExpressionsLive /\ (ops = 0 => TextsMean) /\ NamesFresh

(* When nothing is under way, options have the values of the files: what    *)
(* was set since and not saved is left out, and so are files whose events   *)
(* were told to the wrong plugin.                                           *)
Settled == watch.queue = <<>> /\ ~regex.timer
Quiet == watch.queue = <<>> /\ ~value.dirty /\ Alive
FilesFollowed ==
    (Quiet /\ Has("ini") /\ Has("inotify")) =>
        \A p \in Present(Now) \ disk.missed :
            \A o \in DOMAIN disk.file[p].text \ value.ahead :
                LET text == disk.file[p].text[o]
                IN  /\ Readable(o, text)
                    /\ Accepts(o, text) => value.of[o] = Shown(o, FromText(o, text))

(* The bus reaches every option there is, an option is what the bus last    *)
(* heard of it, followed by what was put there over the bus since, and once *)
(* dbus is gone nothing leads into it but what was left by plugins taken    *)
(* off before.                                                              *)
BusAgrees ==
    Alive =>
        /\ Has("dbus") => \A p \in Present(Now) : OptionPaths(p) \subseteq bus.paths
        /\ \A o \in DOMAIN bus.heard :
              /\ Has("dbus") /\ Has(Owner(o))
              /\ value.of[o] = IF o = "active_plugins" THEN bus.heard[o] \o bus.grown ELSE bus.heard[o]
        /\ ~Has("dbus") => \A x \in bus.paths : x[1] \in bus.left

(* The search of inotify ends, but when the kernel had refused the newest   *)
(* watch, of a directory that is not there.  Only the bus makes lists that  *)
(* name a plugin twice, which tear it.                                      *)
Stuck == watch.hung /\ Head(watch.files) \in watch.refused
Torn == turn.torn /\ "bus" \in scene.who
Ended == Stuck \/ Torn

(* Files, options and plugins do not set off one another for ever, and if X *)
(* events go on, no update is left to be done.                              *)
ComesToRest ==
    /\ <>[](Ended \/ Settled)
    /\ []<><<Stirs>>_vars => <>[](Settled /\ ~value.dirty)

(* Options agree with their files and with what the bus tells of them.      *)
SettingsAgree == FilesFollowed /\ BusAgrees
=============================================================================
