----------------------------- MODULE PluginManager -----------------------------
(***************************************************************************)
(* CompPlugin, CompManager and PrivateScreen::updatePlugins: the stack of  *)
(* active plugins and the active_plugins option it follows.                *)
(*                                                                         *)
(* updatePlugins compares the wanted list with the names it activated last *)
(* time, pops the plugins behind the common prefix, pushes the rest of the *)
(* wanted list (a popped plugin again, or a newly loaded one), unloads     *)
(* what is left and writes the result to the option.  Each push and each   *)
(* pop is a step of its own here, since it runs code of the plugin, which  *)
(* may set the option: the ini plugin reads it from its file when its      *)
(* screen is created.                                                      *)
(*                                                                         *)
(* A plugin stands for its library: init () fails while a plugin that it   *)
(* needs is not active, initScreen () fails for the broken ones, and       *)
(* initWindow () for the windows that a plugin refuses.                    *)
(***************************************************************************)
EXTENDS Integers, SequencesExt

CONSTANTS
    Names,       \* plugin names
    Core,        \* "core"
    Config,      \* the plugin that stores options in a file (ini)
    Loadable,    \* names of which a library can be loaded
    Needs,       \* the plugins whose ABI init () checks, by name
    Broken,      \* plugins whose initScreen () fails
    Refused,     \* the windows that a plugin's initWindow () refuses, by name
    Initials,    \* what may be on the command line
    Default,     \* the default of the option active_plugins
    Lists,       \* the values users give the option
    Windows,     \* the windows that may exist
    MaxChanges   \* bound on the changes users and clients make

AllLists == Lists \cup Initials \cup {Default}

ASSUME PluginAssumption ==
    /\ {Core, Config} \subseteq Names
    /\ Core # Config
    /\ Core \in Loadable /\ Loadable \subseteq Names
    /\ Needs \in [Names -> SUBSET Names]
    /\ Needs[Core] = {}
    /\ Broken \subseteq Names \ {Core}
    /\ Refused \in [Names -> SUBSET Windows]
    /\ Refused[Core] = {} /\ Refused[Config] = {}
    /\ "screen" \notin Windows
    /\ AllLists \subseteq Seq(Names)
    /\ MaxChanges \in Nat

VARIABLES
    plugins,   \* CompPlugin's list: the plugin activated last comes first
    map,       \* pluginsMap
    loaded,    \* how many CompPlugin objects exist, by name
    freed,     \* active plugins whose vTable has been deleted
    scr,       \* plugins whose screen object exists
    wins,      \* the windows each plugin has been given
    left,      \* objects that failing pushes left on the screen and on windows
    initial,   \* initialPlugins: the names on the command line
    plugin,    \* PrivateScreen::plugin: the names updatePlugins activated
    active,    \* the value of the option active_plugins
    file,      \* the list in the configuration file
    dirty,     \* dirtyPluginList
    asked,     \* the list somebody set since the last update began (history)
    ready,     \* PrivateScreen::initialized
    windows,   \* PrivateScreen::windows
    pc,        \* what the main thread is doing
    want,      \* pList
    next,      \* what remains of pList (or of the list screenInitPlugins walks)
    nPop,      \* how many plugins are still to be popped
    pop,       \* the popped plugins
    changes    \* how many changes users and clients have made

stack   == <<plugins, map, loaded, freed>>
objects == <<scr, wins, windows, left>>
options == <<active, dirty, asked, initial>>
update  == <<want, next, nPop, pop>>
vars == <<stack, objects, plugin, options, file, ready, pc, update, changes>>

\* "start": CompScreen::init after screenInitPlugins
Points == {"boot", "created", "initScreens", "start", "idle", "pop", "push",
           "loaded", "unload", "shutdown", "done", "aborted"}

-----------------------------------------------------------------------------
(* main: CompScreen's constructor has pushed core, the option has its      *)
(* default or the names on the command line.                               *)

Init ==
    /\ plugins = <<Core>>
    /\ map = {Core}
    /\ loaded = [n \in Names |-> IF n = Core THEN 1 ELSE 0]
    /\ freed = {}
    /\ scr = {}
    /\ wins = [n \in Names |-> {}]
    /\ left = [n \in Names |-> {}]
    /\ initial \in Initials
    /\ plugin = <<Core>>
    /\ active = IF initial = <<>> THEN Default ELSE initial
    /\ file \in Lists
    /\ dirty = TRUE /\ asked = <<>>
    /\ ready = FALSE
    /\ windows = {}
    /\ pc = "boot"
    /\ want = <<>> /\ next = <<>> /\ nPop = 0 /\ pop = <<>>
    /\ changes = 0

-----------------------------------------------------------------------------

\* PrivateScreen::setOption for active_plugins.  CompOption::set reports no
\* change when the value is the one the option has.
SetActive(l) ==
    /\ active' = l
    /\ dirty' = (dirty \/ l # active)
    /\ UNCHANGED initial

\* The same, by somebody else than updatePlugins
Ask(l) ==
    /\ SetActive(l)
    /\ asked' = IF l # active THEN l ELSE asked

\* The screen object of n is created; IniScreen's constructor loads the file.
LoadsConfig(n) == IF n = Config THEN Ask(file) ELSE UNCHANGED options

\* Plugins of which initScreen () fails, or initWindow () for some window
Failing == IF ready THEN Broken \cup {n \in Names : Refused[n] \cap windows # {}} ELSE {}

\* CompManager::initPlugin, when it succeeds: every window is given to n.
InitPlugin(n) ==
    /\ Needs[n] \subseteq map \cup {n}
    /\ n \notin Failing
    /\ scr' = IF ready THEN scr \cup {n} ELSE scr
    /\ wins' = [wins EXCEPT ![n] = IF ready THEN windows ELSE @]
    /\ UNCHANGED <<windows, left>>
    /\ IF ready THEN LoadsConfig(n) ELSE UNCHANGED options

\* CompScreen::initPluginForScreen, when initWindow () fails: the windows
\* before the last that n refuses are finished, those behind it keep their
\* objects, and so does the screen.  (Of those before it, windows that n
\* refuses too are finished a second time.)
LeavesHalf(n) ==
    \E behind \in SUBSET (windows \ Refused[n]) :
        left' = [left EXCEPT ![n] = @ \cup {"screen"} \cup behind]

\* CompManager::initPlugin, when it fails: in init () or initScreen (), which
\* leave nothing, or on a window.
InitPluginFails(n) ==
    /\ \/ /\ ~ Needs[n] \subseteq map \cup {n} \/ (ready /\ n \in Broken)
          /\ UNCHANGED left
       \/ /\ Needs[n] \subseteq map \cup {n} /\ n \in Failing \ Broken
          /\ LeavesHalf(n)
    /\ UNCHANGED <<scr, wins, windows, options>>

\* CompManager::finiPlugin
FiniPlugin(n) ==
    /\ scr' = scr \ {n}
    /\ wins' = [wins EXCEPT ![n] = {}]
    /\ UNCHANGED <<windows, left>>

\* CompPlugin::unload; the objects of one library share one vTable.
Unload(n) == loaded' = [loaded EXCEPT ![n] = @ - 1]

\* CompPlugin::push of an object of n, when it succeeds
Push(n) ==
    /\ n \notin map
    /\ InitPlugin(n)
    /\ plugins' = <<n>> \o plugins
    /\ map' = map \cup {n}

\* CompPlugin::push, when it fails; its callers then unload the object.
PushFails(n) ==
    /\ \/ n \in map /\ UNCHANGED <<objects, options>>
       \/ n \notin map /\ InitPluginFails(n)
    /\ freed' = IF n \in map THEN freed \cup {n} ELSE freed
    /\ UNCHANGED <<plugins, map, plugin>>

\* CompPlugin::pop
Pop ==
    /\ plugins # <<>>
    /\ plugins' = Tail(plugins)
    /\ map' = map \ {Head(plugins)}
    /\ freed' = freed \ {Head(plugins)}
    /\ FiniPlugin(Head(plugins))

-----------------------------------------------------------------------------
(* updatePlugins.                                                          *)

\* the names of s that are not in S, in their order
Without(s, S) ==
    LET kept[k \in 0..Len(s)] ==
            IF k = 0 THEN <<>>
            ELSE IF s[k] \in S THEN kept[k - 1]
            ELSE Append(kept[k - 1], s[k])
    IN  kept[Len(s)]

\* core, the command line, then the option without those
Wanted == <<Core>> \o Without(initial, {Core})
                   \o Without(active, {Core} \cup Range(initial))

\* Mutant: the names are not compared.
PrefixLengthOnly(l) == Max({k \in 1..Len(l) : k <= Len(plugin)})

\* How far the wanted list and the names activated last time agree; core is
\* never compared.
PrefixLength(l) ==
    Max({k \in 1..Len(l) : k <= Len(plugin) /\ \A i \in 2..k : plugin[i] = l[i]})

\* updatePlugins up to the loop that pops
StartUpdate ==
    /\ \/ pc = "boot"
       \/ pc \in {"start", "idle"} /\ dirty
    /\ dirty' = FALSE /\ asked' = <<>>
    /\ want' = Wanted
    /\ next' = SubSeq(Wanted, PrefixLength(Wanted) + 1, Len(Wanted))
    /\ nPop' = Len(plugin) - PrefixLength(Wanted)
    /\ pop' = <<>>
    /\ pc' = "pop"
    /\ UNCHANGED <<stack, objects, plugin, active, initial, file, ready, changes>>

PopOne ==
    /\ pc = "pop" /\ nPop > 0
    /\ Pop
    /\ pop' = Append(pop, Head(plugins))
    /\ plugin' = Front(plugin)
    /\ nPop' = nPop - 1
    /\ UNCHANGED <<loaded, options, file, ready, pc, want, next, changes>>

PopsDone ==
    /\ pc = "pop" /\ nPop = 0
    /\ pc' = "push"
    /\ UNCHANGED <<stack, objects, plugin, options, file, ready, update, changes>>

\* CompPlugin::load makes a new object, even if one exists.
LoadOne ==
    /\ pc = "push" /\ next # <<>>
    /\ Head(next) \in Loadable \ Range(pop)
    /\ loaded' = [loaded EXCEPT ![Head(next)] = @ + 1]
    /\ pc' = "loaded"
    /\ UNCHANGED <<plugins, map, freed, objects, plugin, options, file, ready, update, changes>>

\* The library cannot be loaded.
LoadFails ==
    /\ pc = "push" /\ next # <<>>
    /\ Head(next) \notin Loadable \cup Range(pop)
    /\ next' = Tail(next)
    /\ UNCHANGED <<stack, objects, plugin, options, file, ready, pc, want, nPop, pop, changes>>

\* A popped object of n, or the one just loaded, is taken for the push.
Take(n) ==
    /\ \/ pc = "push" /\ n \in Range(pop)
       \/ pc = "loaded"
    /\ pop' = Without(pop, {n})
    /\ pc' = "push"
    /\ next' = Tail(next)

\* One turn of the loop that pushes
PushOne ==
    /\ next # <<>>
    /\ Take(Head(next))
    /\ Push(Head(next))
    /\ plugin' = Append(plugin, Head(next))
    /\ UNCHANGED <<loaded, freed, file, ready, want, nPop, changes>>

\* Mutant: the object is not unloaded.
PushOneFailsKeep ==
    /\ next # <<>>
    /\ Take(Head(next))
    /\ PushFails(Head(next))
    /\ UNCHANGED <<loaded, file, ready, want, nPop, changes>>

\* The push fails, and the object is unloaded.
PushOneFails ==
    /\ next # <<>>
    /\ Take(Head(next))
    /\ PushFails(Head(next))
    /\ Unload(Head(next))
    /\ UNCHANGED <<file, ready, want, nPop, changes>>

PushesDone ==
    /\ pc = "push" /\ next = <<>>
    /\ pc' = "unload"
    /\ UNCHANGED <<stack, objects, plugin, options, file, ready, update, changes>>

\* Mutant: the option is not told.
EndUpdateUntold ==
    /\ pc = "unload"
    /\ loaded' = [n \in Names |-> IF n \in Range(pop) THEN loaded[n] - 1 ELSE loaded[n]]
    /\ pop' = <<>>
    /\ pc' = IF ready THEN "idle" ELSE "created"
    /\ UNCHANGED <<plugins, map, freed, objects, plugin, options, file, ready, want, next, nPop, changes>>

\* The plugins that were not pushed again are unloaded, and the option is
\* told, unless a plugin has changed it meanwhile.
EndUpdate ==
    /\ pc = "unload"
    /\ loaded' = [n \in Names |-> IF n \in Range(pop) THEN loaded[n] - 1 ELSE loaded[n]]
    /\ pop' = <<>>
    /\ IF dirty THEN UNCHANGED options ELSE SetActive(plugin) /\ UNCHANGED asked
    /\ pc' = IF ready THEN "idle" ELSE "created"
    /\ UNCHANGED <<plugins, map, freed, objects, plugin, file, ready, want, next, nPop, changes>>

-----------------------------------------------------------------------------
(* CompScreen::init and the destructor.                                    *)

\* From here on plugins are given the screen when they are pushed.
ScreenInit ==
    /\ pc = "created"
    /\ ready' = TRUE
    /\ next' = Reverse(plugins)
    /\ pc' = "initScreens"
    /\ UNCHANGED <<stack, objects, plugin, options, file, want, nPop, pop, changes>>

\* CompPlugin::screenInitPlugins: a plugin whose screen fails stays active.
\* There are no windows yet.
InitScreen ==
    /\ pc = "initScreens" /\ next # <<>>
    /\ LET n == Head(next) IN
       IF n \in Broken
       THEN UNCHANGED <<scr, options>>
       ELSE /\ scr' = scr \cup {n}
            /\ LoadsConfig(n)
    /\ next' = Tail(next)
    /\ UNCHANGED <<stack, wins, windows, left, plugin, file, ready, pc, want, nPop, pop, changes>>

InitScreensDone ==
    /\ pc = "initScreens" /\ next = <<>>
    /\ pc' = "start"
    /\ UNCHANGED <<stack, objects, plugin, options, file, ready, update, changes>>

Started ==
    /\ pc = "start" /\ ~ dirty
    /\ pc' = "idle"
    /\ UNCHANGED <<stack, objects, plugin, options, file, ready, update, changes>>

\* CompScreen::~CompScreen deletes the windows, then pops and unloads all.
Shutdown ==
    /\ pc = "idle"
    /\ windows' = {}
    /\ wins' = [n \in Names |-> IF n \in map THEN {} ELSE wins[n]]
    /\ left' = [n \in Names |-> left[n] \ windows]
    /\ pc' = "shutdown"
    /\ UNCHANGED <<stack, scr, plugin, options, file, ready, update, changes>>

ShutdownPop ==
    /\ pc = "shutdown"
    /\ Pop
    /\ Unload(Head(plugins))
    /\ UNCHANGED <<plugin, options, file, ready, pc, update, changes>>

ShutdownDone ==
    /\ pc = "shutdown" /\ plugins = <<>>
    /\ pc' = "done"
    /\ UNCHANGED <<stack, objects, plugin, options, file, ready, update, changes>>

-----------------------------------------------------------------------------
(* What events bring.                                                      *)

Change == pc = "idle" /\ changes < MaxChanges /\ changes' = changes + 1

\* A window is created: CompPlugin::windowInitPlugins
AddWindow(w) ==
    /\ Change
    /\ w \notin windows
    /\ \A n \in map : w \notin Refused[n]
    /\ windows' = windows \cup {w}
    /\ wins' = [n \in Names |-> IF n \in map THEN wins[n] \cup {w} ELSE wins[n]]
    /\ UNCHANGED <<stack, scr, left, plugin, options, file, ready, pc, update>>

\* An active plugin refuses a new window: the assertion of its constructor.
AddWindowFails(w) ==
    /\ pc = "idle" /\ changes < MaxChanges
    /\ w \notin windows
    /\ \E n \in map : w \in Refused[n]
    /\ pc' = "aborted"
    /\ UNCHANGED <<stack, objects, plugin, options, file, ready, update, changes>>

\* A window is deleted: CompPlugin::windowFiniPlugins
DeleteWindow(w) ==
    /\ Change
    /\ w \in windows
    /\ windows' = windows \ {w}
    /\ wins' = [n \in Names |-> IF n \in map THEN wins[n] \ {w} ELSE wins[n]]
    /\ left' = [n \in Names |-> left[n] \ {w}]
    /\ UNCHANGED <<stack, scr, plugin, options, file, ready, pc, update>>

\* A client of the dbus plugin sets the option; the ini plugin would save it
\* only if the option then differed from the value just set.
SetOption(l) ==
    /\ Change
    /\ Ask(l)
    /\ UNCHANGED <<stack, objects, plugin, file, ready, pc, update>>

\* The file changes: IniScreen::fileChanged
EditFile(l) ==
    /\ Change
    /\ file' = l
    /\ IF Config \in scr THEN Ask(l) ELSE UNCHANGED options
    /\ UNCHANGED <<stack, objects, plugin, ready, pc, update>>

\* What a failing push left is hooked on functions of the core, but its code
\* is unloaded; so is that of an active plugin whose vTable was deleted.  What
\* then happens is undefined: nothing, or the end.
Crash ==
    /\ pc \in {"idle", "pop", "push", "shutdown"}
    /\ freed # {} \/ \E n \in Names : left[n] # {}
    /\ pc' = "aborted"
    /\ UNCHANGED <<stack, objects, plugin, options, file, ready, update, changes>>

-----------------------------------------------------------------------------
Turns == PopOne \/ PopsDone \/ LoadOne \/ LoadFails \/ PushOne \/ PushOneFails
            \/ PushesDone \/ EndUpdate

Update == StartUpdate \/ Turns

Screen == ScreenInit \/ InitScreen \/ InitScreensDone \/ Started
            \/ Shutdown \/ ShutdownPop \/ ShutdownDone

Events ==
    \/ \E w \in Windows : AddWindow(w) \/ AddWindowFails(w) \/ DeleteWindow(w)
    \/ \E l \in Lists : SetOption(l) \/ EditFile(l)

Terminated == pc \in {"done", "aborted"} /\ UNCHANGED vars

Next == Update \/ Screen \/ Events \/ Crash \/ Terminated

Spec == Init /\ [][Next]_vars

\* An update is a loop of the one thread, and so is the start.  processEvents
\* runs updatePlugins when there is an X event: that one comes is assumed.
FairSpec ==
    /\ Spec
    /\ WF_vars(Turns)
    /\ WF_vars(ScreenInit \/ InitScreen \/ InitScreensDone \/ Started)
    /\ WF_vars(StartUpdate)

-----------------------------------------------------------------------------
(* Properties.                                                             *)

TypeOK ==
    /\ plugins \in Seq(Names)
    /\ map \in SUBSET Names
    /\ loaded \in [Names -> Nat]
    /\ freed \in SUBSET Names
    /\ scr \in SUBSET Names
    /\ wins \in [Names -> SUBSET Windows]
    /\ left \in [Names -> SUBSET (Windows \cup {"screen"})]
    /\ initial \in Initials
    /\ plugin \in Seq(Names)
    /\ active \in Seq(Names)
    /\ file \in Seq(Names)
    /\ dirty \in BOOLEAN
    /\ asked \in Seq(Names)
    /\ ready \in BOOLEAN
    /\ windows \in SUBSET Windows
    /\ pc \in Points
    /\ want \in Seq(Names)
    /\ next \in Seq(Names)
    /\ nPop \in Nat
    /\ pop \in Seq(Names)
    /\ changes \in 0..MaxChanges

Running == pc \notin {"shutdown", "done", "aborted"}

\* The map, the stack and the names the next comparison starts from stay the
\* same list however updates fail half-way: otherwise the next update pops
\* the wrong plugins.
SameLists ==
    /\ map = Range(plugins)
    /\ IsInjective(plugins)
    /\ Running => plugin = Reverse(plugins)

\* While a plugin is active, so is everything it needs, below it on the stack:
\* no plugin is finished before the plugins that use it.
DependenciesBelow ==
    \A i \in 1..Len(plugins) :
        Needs[plugins[i]] \subseteq {plugins[j] : j \in i..Len(plugins)}

\* Every CompPlugin object is active or about to be unloaded, exactly once:
\* failures neither leak an object nor delete what an active plugin uses.
LoadedOnce ==
    /\ freed = {}
    /\ \A n \in Names :
          loaded[n] = (IF n \in map THEN 1 ELSE 0) + (IF n \in Range(pop) THEN 1 ELSE 0)
                          + (IF pc = "loaded" /\ n = Head(next) THEN 1 ELSE 0)

\* An inactive plugin has no object left on the screen or on a window, and an
\* active one has been given every window, whether it started before it or
\* after it.
WindowsCovered ==
    /\ scr \subseteq map
    /\ \A n \in Names : wins[n] = IF n \in map THEN windows ELSE {}

\* An active plugin refuses no window there is, and nothing is left of those
\* that are not active but what a push that failed on a window leaves.
HalvesLeft ==
    /\ \A n \in map : Refused[n] \cap windows = {}
    /\ \A n \in Names :
          left[n] # {} => /\ Refused[n] # {}
                          /\ "screen" \in left[n] /\ left[n] \ {"screen"} \subseteq windows \ Refused[n]

\* The only plugins that are active without a screen object are those that
\* were started before the screen and failed in screenInitPlugins.
ScreenCovered ==
    ready /\ pc # "initScreens" => map \ scr \subseteq Broken \cap Range(initial \o Default)

\* A plugin can be pushed on the list acc, unless it is one that fails.
Can(acc, n, failing) ==
    /\ n \in Loadable /\ n \notin Range(acc)
    /\ Needs[n] \subseteq Range(acc) \cup {n}
    /\ n \notin failing

\* What the wanted list comes to, tried in order from nothing.
Outcome(l, failing) ==
    LET after[k \in 0..Len(l)] ==
            IF k = 0 THEN <<>>
            ELSE IF Can(after[k - 1], l[k], failing) THEN Append(after[k - 1], l[k])
            ELSE after[k - 1]
    IN  after[Len(l)]

\* An update leads to the same active plugins whatever was active before:
\* keeping the common prefix and reusing popped plugins is an optimisation.
UpdateForgets == pc = "unload" /\ map \cap Broken = {} => plugin = Outcome(want, Failing)

\* When there is nothing left to update, the option shows the plugins that
\* are really active, not those that somebody asked for.
OptionShowsActive == pc = "idle" /\ ~ dirty => active = plugin

\* What somebody sets, also while an update runs, is what the next one starts
\* from: the update that ends does not put its own list in its place.
AskedKept == asked # <<>> => dirty /\ active = asked

Over == pc \in {"shutdown", "done", "aborted"}

\* An update that leaves out a plugin of the command line: the next one pops
\* all behind it, and if ini is among these, its file is read once more.
Short == pc = "unload" /\ Config \in map /\ ~ Range(initial) \subseteq map

\* core.xml says of active_plugins: "List of currently active plugins".  Users
\* make finitely many changes, so the option settles on that list.
OptionSettles == <>[](Over \/ active = plugin) \/ []<>Short

\* Reloading comes to an end after the last change.
UpdatesEnd == <>[](Over \/ pc = "idle") \/ []<>Short

\* However pushes, loads and pops fail half-way, the stack, the map, the names
\* of the next comparison, the plugins' objects on screen and windows and the
\* libraries agree, and no plugin is active without those it needs; what fails
\* on a window leaves what the code leaves, and nothing more; and no list that
\* was set is lost.
PluginsAgree ==
    /\ TypeOK /\ SameLists /\ DependenciesBelow
    /\ LoadedOnce /\ WindowsCovered /\ HalvesLeft /\ ScreenCovered
    /\ OptionShowsActive /\ AskedKept

\* Users' changes end, so reloading does, and the option tells what came of it,
\* unless a plugin of the command line can never be activated.
UpdatesSettle == UpdatesEnd /\ OptionSettles

=============================================================================
