# A TLA+ verification of compiz

compiz is an X11 window manager and compositing manager. It is one single-threaded process around a
GLib main loop: it reads the events of the X server, keeps an object for each window, and runs plugins
through chains of wrapped functions. A second process, `gtk-window-decorator`, draws the frames of
windows and talks to it by properties and client messages. Nothing runs concurrently inside a process,
but many parties act on what it keeps: the X server with its queue of events, the clients that own the
windows, the user, the plugins whose code is called from the middle of the core's functions, timers, and
the other process. What is hard is what they do *between* two steps.

This directory holds TLA+ modules of the program, the configurations with which TLC checks them, and
proofs that TLAPS checks. `PROJECT.json` maps every definition to the lines of the source it stands for,
lists the runs, one mutant of the code for every property, the hazards the properties are about, and the
proved theorems.

## Modules

| part | modules | run | specification checked |
|---|---|---|---|
| timers and the main loop | `TimerPromise`, `Timers` | `timers`: `Timers.cfg`, `MCTimers` | `Timers` |
| plugin manager | `PluginManager` | `plugins`: `Plugins.cfg`, `MCPluginManager` | `PluginManager` |
| life of a client window | `WindowLifecycle` | `lifecycle`: `Lifecycle.cfg`, `MCWindowLifecycle` | `WindowLifecycle` |
| stacking and focus | `Stacking` < `Focus` < `Desktop` | `desktop`: `Desktop.cfg`, `MCDesktop` | `Desktop` |
| geometry, placement, viewports | `Geometry` < `Place` < `Viewports` | `viewports`: `Viewports.cfg`, `MCViewports` | `Viewports` |
| bindings and actions | `Bindings` < `Dispatch` | `dispatch`: `Dispatch.cfg`, `MCDispatch` | `Dispatch` |
| interactive plugins | `Grabs` < `MoveResize`, `Pickers`, `ScreenModes` < `Interaction` | `interaction`: `Interaction.cfg`, `MCInteraction` | `Interaction` |
| compositing and painting | `Painting` | `painting`: `Painting.cfg` | `Painting` |
| effects | `FadeBlur` < `Wobbly` < `Effects` | `effects`: `Effects.cfg`, `MCEffects` | `Effects` |
| decorations, two processes | `Decor` < `Decoration` | `decoration`: `Decoration.cfg` | `Decoration` |
| decorator's user, pings, startup, session | `Frames`, `Clients` < `Peers` | `peers`: `Peers.cfg`, `MCPeers` | `Peers` |
| options, files, bus, matches | `Settings` < `Configuration` | `configuration`: `Configuration.cfg`, `MCConfiguration` | `Configuration` |

`A < B`: B extends or instantiates A. The left ones hold operators on a record of the state, one per
function of the code, which call each other as the functions do (an operator takes the whole state and returns the next);
the right one makes actions of them: one for each request, event, timer or frame. So an action is a
whole handler. `TimersProofs`, `PluginManagerProofs`, `WindowLifecycleProofs`, `DispatchProofs` and `PaintingProofs` prove
theorems about the modules they are named for, with `DataLemmas`, `WindowLifecycleLemmas` and
`WindowLifecycleHandlers` below them (see *Proofs*).

Run, for instance, `tlc -config Timers.cfg MCTimers`, `tlc -config Painting.cfg Painting` or
`tlapm TimersProofs.tla`. Each run takes from some seconds to two minutes; the proofs of timers, plugins and painting take
some minutes, those of the bindings and the three modules about the lifecycle ten to twelve minutes each.

In most runs the constant `Sessions` (`Scenes`, `Courses`, `Combinations`, `Budgets`, `Loads`) is a set
of starting points: who is there and what may be done. The initial state chooses one, and what happens in it happens in
every order. This keeps each of them small and deep, where their union would be too large.

## Inventory

**Timers** (`timer.cpp`, `screen.cpp` 183-215). State: the list `timers`, sorted by the time left, the
fields of each `CompTimer`, `mLastTimeout`. Correct if the list is exactly the active timers in order, no timer
fires early or after it was stopped, and each fires in the end.

**Plugin manager** (`plugin.cpp`, `screen.cpp` 632-931). State: the stack `plugins`, the map of names,
the option `active_plugins`, the list `plugin` of the last update, the objects of the screen and of
windows. Every step may fail. Correct if the lists agree after every failure, no list that was set is lost, and updates end.

**Window lifecycle** (`event.cpp`, `window.cpp`). State per window: map state, `managed`, `unmanaging`, frame
and wrapper, `minimized`, `shaded`, `inShowDesktopMode`, `desktop`, `pendingMaps`, `pendingUnmaps`.
Correct if, once events are handled, what is mapped is what the flags say, and what clients ask for happens.

**Stacking and focus** (`window.cpp` 2087-3255, 3845-3975, `screen.cpp`, `event.cpp` 1820-1910). State: the
list `windows`, `activeWindow`, `nextActiveWindow`, the history, grabs of buttons. Correct if list and
server agree, dialogs are above their parents, and the active window has the focus.

**Geometry and viewports** (`screen.cpp` 1757-1920, 3149-3858, `window.cpp` 958-1159, 2603-3003,
`plugins/place`). State: three geometries of each window (asked for, last reported, the server's), the saved one,
struts, work areas, viewport. Correct if they agree when all is reported, and windows fit, return and can be reached.

**Bindings** (`action.cpp`, `modifierhandler.cpp`, `screen.cpp` 2890-3090, `event.cpp` 134-947). State:
grabs with counts, modifier masks, running actions. Correct if the server's grabs are those active actions
need, and actions end when what started them does.

**Interactive plugins** (`move`, `resize`, `scale`, `switcher`, `rotate`, `cube`, `zoom`, `annotate`,
`screenshot`, `clone`, `water`). State: the list of grabs, each plugin's mode, handle, windows, timers and
hooks. Correct if modes and grabs agree, nothing points to a window that is gone, and modes end.

**Compositing, effects** (`composite`, `opengl`; `fade`, `blur`, `wobbly`). State: damage, overlays,
pixmaps, textures; what each effect of each window is going to. Correct if the screen shows what clients
drew, resources are let go, and painting stops when nothing moves.

**Decorations** (`decor`, `gtk-window-decorator`, `libdecoration`). State: decorations with counts, frames,
properties, on both sides. Correct if each window has the decoration that fits it, once, however the two programs come and go.

**Peers** (`events.c`, `actionmenu.c`, `tooltip.c`, `forcequit.c`; ping and startup sequences in
`screen.cpp`; `session.cpp`). State: pressed and entered buttons, menus, dialogs, pings, sequences, the saved
command. Correct if clicks act once, dialogs appear when owed and go.

**Configuration** (`match.cpp`, `option.cpp`, `ini`, `dbus`, `inotify`, `regex`). State: options, files,
watches, bus paths, operations of matches. Correct if options follow files, matches mean what they say,
and nothing sets off anything else for ever.

Interactions: the main loop dispatches timers before X events. `handleEvent` is the only caller of the
lifecycle; focus, stacking and viewports are called from it and call it back. Options set by back ends
reach the plugin manager and the passive grabs through `setOption`. Plugins wrap most functions; where the
order of plugin and core matters (place, decor, move, resize, scale) both are modelled in that order.
The modules meet at these interfaces: each abstracts the others to what it needs of them (the geometry has no
focus, the focus no geometry), and `TimerPromise` is what the others assume of a timer.

The hard behaviours, with their lines, are the hazards of `PROJECT.json`.

## Bounds and fairness

Bounds are named constants or fields of the sessions: `MaxOps`, `MaxChanges`, `MaxInputs`, `most`,
`requests` and the budgets of `Peers` bound how often something is asked; `MaxQueue`, `MaxEvents` and
`MaxReports` bound what may be under way when it is. Handling of events, timers and frames is never
bounded. A session allows two to five requests: the properties are violated by two or three requests
that cross with one event or timer under way, and the mutants (one step of the code left out or misordered) are all found
within these. Two windows are enough for one to disturb the other; families of dialogs and layers have three. `decoration` has one:
decorations, textures and frames of the two programs, and what comes between, multiply the states; that two windows share one decoration, so that
its count is more than one window's, is not exercised there.

Deadlock is checked for `timers` and `plugins`, whose programs never stop. Elsewhere the system may rest:
when nobody asks for anything and all is handled there is nothing to do.

Fairness is of the program's own steps only, never of users, clients or configuration: the main loop turns,
queues are handled, timers that are running run out, frames that are asked for are painted. X delivers
events in order, `poll` returns when its timeout is over, and `paint` is a timer, so that is what the code relies on. `updatePlugins` is the
exception: it runs at the start of `processEvents` (`screen.cpp:696`), which only an X event wakes (`eventsource.cpp:77`), so an update that a timer, the bus or a
file asks for waits for whatever X event comes next. That one comes is assumed of the display: as fairness of `StartUpdate` in
`PluginManager`, and in `Configuration` as the premise of the second part of `ComesToRest`. Where it is written `[]<>~Ready \/
[]<><<A>>_vars` it is weak fairness of `A` with what enables it written out, which TLC evaluates much faster than `ENABLED` of a
large action. Fault models: a client that does not answer (syncs, pings), a plugin that fails, a grab
that is refused, a texture that is refused, a decorator that dies at any point, a file that is deleted
while it is watched, a bad clock.

## The runs

Every run finishes with no error. In the names below, `X = Y /\ Z` means that the property `X` of the
run is the conjunction of named parts.

### `timers`

`CompTimer`'s operations and the callbacks of `CompTimeoutSource` (`prepare`, `check`, `callback`) are actions,
one for each phase of a turn of the loop, with `poll`, the handlers of events and the callbacks of timers, which may start, stop, change
and delete any timer, between them. The clock is kept modulo one second, as `tv_sec` and `tv_usec` are, because
`TIMESPECDIFF` gives a wrong difference over a second's end.

- `ListAgrees = NoDuplicates /\ ActiveIffQueued /\ Sorted /\ CheckHasTimer`: the list is the active timers, in order.
- `WaitMeetsMaxima`: what `prepare` gives `poll` is within each timer's maximum and reaches some minimum.
- `KeepsPromise`: `Timers` implements `TimerPromise`, the abstract specification of what `timer.h` offers
  (`P == INSTANCE TimerPromise WITH ...`): none early, none after it was stopped, one callback at a time.
- `TimersServed = LoopTurns /\ EachFires`: timers that arm themselves again do not hold the loop; each active timer is invoked.

Two timers, windows of time that overlap, are equal or empty, a second of three ticks.

### `plugins`

`PluginManager`'s actions are the steps of `updatePlugins`: each pop, load, push and unload is one, as code of the plugin runs in it, and so are
the start, what users, the file and windows do, and the end. Plugins that cannot be loaded, lack others, fail on the screen or refuse a window are in the lists.
`push` gives a plugin all windows there are, and nothing comes between them; a plugin that refuses one of them (`Refused`) fails as the code does it:
the windows before the last refused one are finished, those behind it and the screen keep their objects (`LeavesHalf`, `left`), and the library is unloaded.
What then happens is undefined (`Crash`): nothing, or the end of the program. A new window that an active plugin refuses ends it at the assertion of
`CompWindow`'s constructor (`AddWindowFails`). The command line (`initial`) is empty, names `ini`, or names a plugin that cannot be loaded before it.
With an empty one, `ini` is pushed and popped by updates while the program runs, and sets the option from its file in the middle of one.

- `PluginsAgree`: stack, map, names, objects on the screen and on windows, and libraries agree after any failure; of a plugin that is not active nothing is
  left but what a push that failed on a window leaves (`HalvesLeft`); the list somebody set while an update runs is what the next starts from (`AskedKept`).
- `UpdateForgets`: what is active depends on the list wanted, not on the one before.
- `UpdatesSettle`: `setOption` inside `push` inside `updatePlugins` comes to an end, and the option shows the active plugins. The exception is an update that
  leaves out a plugin of the command line again and again while `ini` is active (`Short`): it reloads `ini` for ever, as under *Observations*.

### `lifecycle`

One action for each event that `handleEvent` has for windows, one for each request of a client, and a
queue of the server's events between them. `hide` and `show` and what they count are parts of the actions that call them.

- `ShownAgrees`: once events are handled, what is viewable, whose frame is mapped and what is hidden follows from `minimized`, `shaded`,
  `desktop` and the mode; `WM_STATE` agrees; a window that its client withdrew is not managed.
- `DesktopsAgree`: show desktop mode is on when a window is in it, and each window is on a desktop there is.
- `UnmapsCounted`: `pendingUnmaps` is the number of compiz' own unmaps under way, so that each is told from a withdrawal.
- `LeaversKept`: a window that its client reparents or destroys leaves no frame, is not destroyed by compiz, and stays left.

`crossed` records the windows for which a request of the client met one of compiz under way: only those may be lost.

Three courses: all requests on one window; leaving and coming back; a dialog with its parent.

### `desktop`

`Stacking` has the list of windows and the server's; `Focus` the active window and its history; `Desktop` the
events: reports of the server's order and of windows (ConfigureNotify, CreateNotify, MapNotify, UnmapNotify, DestroyNotify), requests
(MapRequest, ConfigureRequest), FocusIn, EnterNotify, LeaveNotify and ButtonPress, and the clients' messages, all in one queue that is handled late.
FocusOut, CirculateNotify and PropertyNotify are not among them.

- `StackKept = StackAgrees /\ TransientsAbove`: once events are handled the list is the server's; no dialog is below its parent.
- `FocusKept = FocusAgrees /\ FocusSomewhere`: the active window is the one with the focus; the focus is never left on nothing while some window could have it.
- `ClickReaches`: with click to focus, compiz hears a click on a window that is not active.

`crossed` is set when the server's order changes while a report of an earlier change is under way (ConfigureNotify, CreateNotify, MapRequest,
ConfigureRequest): `StackKept` then says no more. `hasty` is set when a window is shown again on request without being given the focus, or before the report that it was hidden
has come: `FocusSomewhere` then says no more.

Three windows in six sessions of three or four requests: ordinary windows, a family of dialogs, layers, an override redirect menu,
focus under the pointer with autoraise, prevention of focus stealing.

### `viewports`

`Geometry` has positions, sizes, struts, outputs and work areas, `Place` the placement modes and the
validation of requests, `Viewports` who asks and what is reported when. Coordinates are integers of a screen of 100 by 80,
so that arithmetic (`%` of negative numbers, increments, halves) is the code's.

- `GeometryKept = GeometryAgrees /\ MaximizedFits /\ SizesAllowed /\ WindowsReachable`: after the last report, the three
  geometries agree; maximized windows fill the work area of their output; sizes obey the client's hints unless they were
  cut down to the work area; every window can be reached by switching viewports.
- `RestoredHome`: what is maximized and restored is where it was, moved by the viewports crossed.
- `PlacedInside`: a window that compiz places and that fits is inside the work area of an output, on the viewport it was started on.

Sessions for viewports, numbers of them, docks with whole and partial struts, changes of the screen and of the outputs, each mode of
placement on each choice of the output, places chosen by the user or the client, and size hints with allowed actions. `crossed` remembers windows
to which one of the remarks below has happened; `GeometryKept` and `RestoredHome` leave those out of the part concerned.

### `dispatch`

`Bindings` has the passive grabs with their counts, refusals and the masks of modifiers; `Dispatch` the handlers of keys, buttons,
edges, drags and modifiers, the edge delay, and the changes of options, plugins and mappings. Actions of options answer as their
plugins' do: some go on until they are terminated. `SessionsAssumption` says what a session may be: options with what their strings can
be parsed to, none bound yet, any mapping of the modifiers, keys that belong to other clients.

- `GrabsAgree = KeysGrabbed /\ ButtonsGrabbed /\ EdgesMapped`: the server's grabs are those the active actions need.
- `KeyActionsEnd`, `EdgeActionsEnd`: no action outlives the key, the modifiers, the button or the edge that started it.

### `interaction`

`Grabs` has the list of grabs, and the others a plugin or a few each, on one record. An action is an input, an
event, a timer or a frame, given to the plugins that listen. The *combinations* bring two or three plugins together that
compete for the pointer or for windows. The sizes that decide what rotate and cube do, columns of viewports (`Columns`) and faces of the
cube over all outputs (`Faces`), are constants: the rest of the configuration is in the combination. A picker that is done asks for its window by an *Activate* message,
which arrives after other events; a press beside scale's windows but over the
work area ends the mode and hides every window that is not in a hand (show desktop).

- `GrabsAgree = GrabsHeld /\ OneMode`: a grab belongs to a mode that runs, and modes that exclude each other do.
- `WindowsAgree = ModesForget /\ AtRest /\ ResizeEnds`: no mode points to a window that is destroyed; at the end windows have what was asked for.
- `PaintAgrees = HooksFollow /\ CloneTrees`: wrapped paint functions are on while needed; clones of outputs are trees.
- `ModesEnd = EscapeFrees /\ ComesToRest`: Escape lets the pointer go, and animations finish.

### `painting`

Operators have damage, overlays, redirection and pixmaps; the actions are what clients do, events and frames. The screen is
three cells on two outputs, and what a cell shows is a version of what a client drew there.

- `ScreenShows`: what is on screen when all is handled is what clients drew, in the server's order.
- `ResourcesAgree = OverlaysCounted /\ PixmapsReleased /\ NoDamageAsleep`: the hole of the overlay window counts unredirected windows;
  pixmaps go with windows; damage never waits for a timer that does not run.
- `ComesToRest`: painting causes no damage.

### `effects`

`FadeBlur` has the fade and blur plugins, `Wobbly` the third; each works on a part of the state. What blur draws behind a
window may be nothing (`hidden`), or its program may not load, or its frame buffer be incomplete; without the extension for them there is none (`ext`). A fade goes in levels, wobbly's model in frames on a line, blur in cells.
The assumption `EdgesHold` of `Effects` makes TLC compare wobbly's search for the edge to snap to with its definition.

- `FadesFinish`: a fade ends at the opacity, brightness and saturation it was going to.
- `EffectsAgree = BlursAgree /\ WobblesAgree`: what the plugins keep of windows agrees with the windows.
- `ComesToRest`: the screen is not painted for ever.

### `decoration`

`Decor` has the plugin and gtk-window-decorator, on a shared record of the server's properties and
selections; `Decoration` delivers. The decorator may be killed, quit or be replaced at any point.

- `CountedOnce`: references of decorations and textures are those in use.
- `DecorationsAgree = RightDecoration /\ FrameStays /\ DecoratorFollows`: each window has the decoration for its state; its
  frame is where it was; the decorator has frames for the windows that should have one.
- `ComesToRest`: the programs do not answer each other for ever.

### `peers`

`Frames` is the decorator's user interface, `Clients` what compiz keeps of clients that hang, start and save. They meet
in the client message of the force quit dialog, and in windows that come and go.

- `HoversAgree`: buttons that look entered, and tooltips, are under the pointer.
- `PeersAgree = DialogsAgree /\ RecordsAgree`: the dialog is up when owed; sequences and saved commands follow what happened.
- `ClicksAct`: a button acts on a press and a release on it.
- `EverAnswered`: a client that hangs when it is asked to close is offered to be killed; busy cursors end.

### `configuration`

`Settings` has the parser of match expressions over tokens and the evaluation of its operations against the meaning of the text; then options, files, watches, and the bus.
`Configuration` has the main loop around them. X events wake `processEvents`, which first updates the plugins if their option has changed and then handles the events.
Between two X events the loop runs what else is due: inotify's descriptor, messages of the bus, the timer of regex. They run while an update is due,
too, so options are set, lists grow and watches come and go between a change of the list and its update, and the update runs on what has become of it.
`Stirs` is any other X event.


- `MatchesAgree = ExpressionsLive /\ TextsMean /\ NamesFresh`: operations point to expressions that live; they mean what the text means; regex follows names.
- `SettingsAgree = FilesFollowed /\ BusAgrees`: options are what their file says, unless set and not saved since (`ahead`) or the event of the file was told
  to the wrong plugin or to none (`missed`); the bus reaches every option, and an option is what the bus last heard of it, and for a list what
  was put there over the bus since (`grown`); once dbus is gone only paths of plugins that were taken off before it are left (`left`).
- `ComesToRest`: writing a file, which is watched, which sets an option, which is written, ends; and if X events go on, no update is left to be done. Two ends are no rest,
  and only these are allowed: the search of inotify that does not end, and only where the kernel had refused its newest watch (`Stuck`); a list with a name twice, which
  only the bus makes, and which unloads the library of an active plugin (`Torn`).

Some properties name an exception that the code makes: `crossed`, `hasty`, `raced`, `lost`, `skipped`, `changed`, `missed`, `forgotten`, `cut`, `moved`, `late`, `deaf`,
`ahead`, `grown`, `left`, `refused`, and the operators `Short`, `Stuck`, `Torn`, `Restless` and `Plain`. The variables are the
model's history, set by the steps that lead to it. They are there so that the property holds of
everything else; what each stands for is described with its run or under *Observations*. `RestoredHome` has another limit: it forgets where a maximized window came from
when the size of the screen changes, so the way back over several changes of the size is not covered.

## Proofs

Five components have theorems, for every value of the constants that their named assumptions allow. Of the
properties of their runs, the theorems state all safety properties but `ShownAgrees`, `ScreenShows`, `KeyActionsEnd` and `EdgeActionsEnd`.

| module | theorem | says |
|---|---|---|
| `TimersProofs` | `TypeCorrect` | `Spec => []TypeOK` |
| | `ListCorrect` | `Spec => []ListAgrees` |
| | `WaitCorrect` | `Spec => []WaitMeetsMaxima` |
| | `NeverEarlyHolds` | `Spec => NeverEarly`: a timer's callback runs after its minimum time has really passed |
| | `AllDueFiredHolds` | `Spec => AllDueFired`: `dispatch` leaves no timer that is due |
| | `PromiseKept` | `Spec => KeepsPromise`: the refinement |
| `PluginManagerProofs` | `ListsAgree` | `Spec => []` of all of `PluginsAgree` but `LoadedOnce`, for any lists |
| | `PluginsAgreeHolds` | `Spec => []PluginsAgree`, for lists that name no plugin twice |
| | `UpdateForgetsHolds` | `Spec => []UpdateForgets` |
| `WindowLifecycleProofs` | `DesktopsAgreeHolds` | `Spec => []DesktopsAgree` |
| | `UnmapsCountedHolds` | `Spec => []UnmapsCounted` |
| | `LeaversKeptHolds` | `Spec => []LeaversKept` |
| `DispatchProofs` | `EdgesMappedHolds` | `Spec => []EdgesMapped` |
| | `ButtonsGrabbedHolds` | `Spec => []ButtonsGrabbed` |
| | `NoKeyLeftHolds` | `Spec => []` of the half of `KeysGrabbed` that says that no key is grabbed for an action that is gone |
| | `GrabsAgreeHolds` | `Spec => []GrabsAgree`, where keys do not share combinations (`KeysApart`) |
| `PaintingProofs` | `ResourcesAgreeHolds` | `Spec => []ResourcesAgree` |

Each module also has the theorem that its inductive invariant holds (`Inductive` in `TimersProofs`, `Invariant` in the others).

### Timers

From `TimersAssumption` alone (the constants have their types; a minimum is at most its maximum), with

    IInv == TypeOK /\ ListInv /\ PhaseOK /\ ScanOK /\ WaitMeetsMaxima

None of the properties is inductive alone. `Sorted` survives `check` because it charges the same time to exactly the timers in the list;
that needs `ActiveIffQueued`. `NeverEarly` needs that the age of a timer with what is left to it is at least its minimum and the time
still to be charged (`AgeOK`): `TimeDiff` may lose ticks over a second's end but
never gains any (`ChargedBound`). `WaitMeetsMaxima` needs what `prepare`'s loop has
seen so far (`ScanOK`). The invariant is shown action by action (`PrepareInv` to `ReturnInv`); operations that callbacks
and handlers share have lemmas of their own (`UnlinkInv`, `RestartInv`, `ChangeInv`, `CallInv`). Lemmas about lists say what
insertion at a position, removal of the first occurrence, and the ordered insertion of `addTimer` return. The refinement shows that each
step is one of `TimerPromise` or a stutter, from `IInv` and `IdleOK` (a timer that is not active has no time).

### Plugin manager

From `PluginAssumption`: `core` exists, needs nothing and does not fail, and neither it nor `ini` refuses a window (theirs never do); otherwise any
plugins, dependencies, failures, refused windows, command lines and lists.

    IInv == TypeOK /\ Mirrored /\ DependenciesBelow /\ Phases /\ Planned /\ Popped
            /\ Objects /\ WindowsCovered /\ HalvesLeft /\ Screens /\ ScreenCovered /\ OptionTold /\ AskedKept

The heart is `Mirrored` (the stack is the list backwards, with `core` at the bottom, so that `Pop` takes what the list says is last)
and `Planned` (`next` is the rest of the wanted list; while plugins are popped, what stays is the common prefix of old and wanted list;
while they are pushed, all that is active is from the part dealt with). A popped plugin is known not to be active (`Popped`), so that each
count of `Objects` is 0 or 1 and `TypeOK`'s naturals do not get negative. Before there is a screen only plugins of the command line can
be active (`Screens`): that is why those without a screen object are among them (`ScreenCovered`). `HalvesLeft` says what a push that fails on a window leaves, and that no active plugin
refuses a window there is; it holds because a window that one refuses is never added (`AddWindowFails`) and a plugin that refuses one is never active. `AskedKept` needs that
every step between the start of an update and its end leaves `dirty` alone or sets it. Each part has its own lemma, `TypeStep` to
`AskedStep`, with one step for each action that touches it.

`LoadedOnce` says that no library is unloaded while its plugin is active. With a list that names a plugin twice this fails in the code
(`plugin.cpp:208`, see *Observations*). Therefore `PluginsAgreeHolds` assumes `DistinctLists`, and `Distinct` shows that then no wanted list
repeats a name, whoever sets the option: what is active, and the lists merged by `Wanted`, repeat none. All the rest, `ListsAgree`, is without the assumption.

`UpdateForgets` compares with `Outcome(want, Failing)`, a recursive function on the wanted list, where `Failing` are the plugins that fail on the screen or on a window there is. `Forgets` strengthens it to the part dealt with so far: kept
prefix and pushes give what trying from nothing gives. While popping it says nothing; when pops end, the plugins of the prefix are all
active and each could be pushed on those before it because `DependenciesBelow` holds of them (`OutcomeActive`).

### Window lifecycle

From the assumptions on the constants alone: any finite sets of windows and of numbers of
desktops, and any transients one level deep (the model's bound on the recursion of `minimizeTransients`). The state is
a record `S` that operators pass on, as functions of the code call each other, so the invariant is about `S` (`Between`), and most
of the 6300 lines are about operators, not actions.

    Between(S, ask) == Sound(S) /\ Placed(S) /\ ModeCovers(S) /\ \A w : WindowInv(S, w, ask[w])

`Sound` has the types, `Placed` and `ModeCovers` are the two halves of `DesktopsAgree`. `WindowInv` says what may be in the queue and in which
order: the properties speak of one moment (`UnmapsCounted`) or of an empty queue (`LeaversKept`), and what makes them true is what compiz will still
read. `Counted` is `UnmapsCounted`; it survives the handling of an UnmapNotify only because the first one in the queue is compiz' own when any is
(`Ordered`: compiz never unmaps behind a client's unmap unless `crossed`). `CreatedFirst`, `Comes`, `ReturnsFirst` and `LeavesFirst` order creation, map
requests and reparenting of a window; `Framed` ties frame and parent, up to a ReparentNotify that is still to come; `Gone` and
`LeftOrGivenBack` are `KeptUnlessCrossed` and `LeftStaysLeft` for a queue that is not empty.

Inside a handler more is true: the window whose event it is has not left (`Here`; `Within == Between /\ Here`). `hide`, `show`, `map`, `unmap`, `withdraw`, state changes,
desktops, minimizing, and leaving show desktop mode only append events of known kinds, count those they must, and leave stage, frame and parent
alone (`Keeps`), and put no window into show desktop mode (`Follows`); what keeps all that from a state `Within` is `Within`. Minimizing and showing go over sets of transients or windows: the model folds an operator over a set, and the induction over the fold is proved once, in
`DataLemmas`, for an operator given by the instance. `Rest` is what is left of `Between` between popping the event of a window and the end of
its handler, used for unmaps, reparenting and destruction. `WindowLifecycleLemmas` has the operators, `WindowLifecycleHandlers` the handlers that take windows
in or let them go and the start (`InitIInv`: a loop over the windows that exist already), `WindowLifecycleProofs` the remaining events, the
clients' requests, and the theorems.

### Bindings

From `SessionsAssumption`: any finite sets of options and edges, any keys, buttons, modifiers, plugins and mappings, and
any sequence of settings. The state is the record `core` that the operators of `Bindings` pass on.

    Good(s, S) == Sound(s, S) /\ Counted(S) /\ Known(s, S)
    Inv == session \in Sessions /\ core.initialized /\ Good(session, core) /\ Fitting(session, queue)

`GrabsAgree` compares what the server has with the active actions; the code compares neither: it counts. So the invariant
puts the counts in the middle. `Sound` (with `EdgesFit`, `ButtonsFit`, `KeysFit`) says that the server has what the counts say, `Counted` that each count is the number of active
actions that use the edge, the button or the key. `addAction` and `removeAction` change the counts before or after the option
has its new value, and `CompOption::set` adds the new binding while the old one is still counted. In between, `Counted` is wrong by one action:
`Recounted` is the lemma on a count that one user joins or leaves (`CountChanges`), `ActionAdded` and `ActionRemoved` say by how much, and `OptionSet`, `OptionBegun`
and `OptionEnded` close the gap. `Known` keeps actions of plugins that are not loaded inactive, so that loading one may reset its
values. `Fitting` is about the queue: no mapping is announced that the session does not have.

Keys are counted under real modifiers. A change of the mapping that moves a key (`moved`) ends what can be said of it, as in the
property. Otherwise two things can go wrong, and do for some configurations, though for no session of the run. With another key that shares a
combination with it (Mod1 with and without an ignored modifier written out, or a bare modifier and the key that is it), the last removal of
the one ungrabs that combination of the other: the server has one grab for a combination, and compiz counts keys. And a changed mapping grabs keys again without
asking whether a combination is refused. `KeysApart` excludes both, and TLC evaluates it on the run's sessions (`SessionsApart`). Only the half of `KeysGrabbed` that says
that the keys of active actions *are* grabbed needs it; edges, buttons and `NoKeyLeft` hold without.

### Painting

From the constants' assumptions: any finite set of windows, any cells, places and outputs, and any bound on what clients do. As
in the lifecycle the state is a record that operators pass on, so the invariant is about a record.

    Good(T) == T \in State /\ CreatesOnce(T) /\ Counted(T) /\ Holds(T) /\ Awake(T) /\ Whole(T)

`Holds` and `Awake` are `PixmapsReleased` and `NoDamageAsleep`. `OverlaysCounted` says that the count of windows left to the server is their number, and that
there is no hole in the output window without one. It is not inductive: `redirect` and `unredirect` count by one, on the flag `overlay`, while
`~CompositeWindow` looks at `redirected`. So `Counted` ties the two flags of every known window. A window that is created is redirected anew, and
nothing is counted for it: that is right only if the compositor does not know it yet, hence `CreatesOnce`, about the
creations and destructions still in the queue. Between a change
of the count and the new shape of the output window, `Whole` does not hold: `Sound` is `Good` without it, and the lemmas on `redirect`, `unredirect` and the destructor lead from `Sound` to `Good`.

Most operators change nothing of this (`Kept`: same count, holes, stack and flags; pixmaps and textures may be let go, or bound by windows on
screen) or only damage (`Damages`); there is one lemma for each operator, one for each event, and `StepGood` joins them. A frame goes over outputs and windows, and so do registering the compositor and leaving: `DataLemmas` has the induction, for sets and for sequences, and five
instances of it (`RedirectedFold` to `OutputFold`) give the operator.

### Recursion

`DataLemmas` proves induction over the naturals and definition by recursion on them in a form without operator parameters (a set that holds 0 and with each
element the next), from the library's facts on well-founded relations. From these it has the induction over the folds of the community modules: for a step `Stepped` that an
instance gives, what holds at first and is kept by each step holds at the end, as membership in a set (`FoldReaches`, `FoldLeftReaches`) or as a predicate `Reached`
that may mention the elements already done (`FoldHolds`). So `Outcome` and the folds over sets and sequences are reasoned about for all inputs.

### Only model-checked

- Liveness (`TimersServed`, `UpdatesSettle`, `ModesEnd`, `ComesToRest`, `EverAnswered`, ...): fairness and `ENABLED` are beyond the prover.
- `ShownAgrees`: it needs an invariant about each MapNotify, UnmapNotify and MapRequest under way and the flags it meets; not attempted yet. The lemmas on
  `Follows` and on the order of the queue are the ones it would rest on.
- `ScreenShows` of `Painting`: it needs that every version of a window a client drew and the screen does not show is covered by damage, or by an event still
  to come, through pixmaps, textures and the holes; not attempted yet.
- Whatever `Settings`, `Configuration`, `Place` and `Viewports` compute: they hold RECURSIVE operators (match expressions, placement), which the prover cannot load.
- The other modules, no proof of which has been tried: `Stacking` to `Desktop`, `Interaction`, `Effects`, `Decoration`, `Peers`. The next ones: the grabs
  of `Interaction`, the counts of `Decor`, that `Stacking` permutes its list.
- `KeyActionsEnd` and `EdgeActionsEnd` of `Dispatch`: they are about an empty queue, and need an invariant on which releases are still in it and what other
  actions claim before.

## Observations

What the runs and the reading of the code showed that a maintainer may want to know. None is stated as a run
that fails: where a doc or comment of the code disagrees, its line is given.

**Timers and plugins.** `TIMESPECDIFF` (`compiz.h:50`) counts a second as a million nanoseconds, so time is lost whenever a second
ends. With no timer the source is ready on every turn and starves the X events (`timer.cpp:82`). A callback that stops its
own timer and returns true has it queued again. A plugin of the command line that cannot be loaded makes `ini` reload for ever (`ini.cpp:546`,
`screen.cpp:929`). A plugin named twice shares one `vTable` (`plugin.cpp:208`).

A plugin that refuses a window when it is pushed is only half undone (`plugin.cpp:287-291`, 319-337): its screen object stays, and so do the objects of the windows behind the
last refused one; they remain hooked on the core's functions when the library is unloaded. Of the windows before that one, those refused as well are
finished although they were never initialised. For a new window the call of `windowInitPlugins` is the argument of an `assert` (`window.cpp:5304`): a refusal ends the program, and
a build with `NDEBUG` would not give plugins any window. No plugin of this tree refuses a window, though their interface lets them.

**Lifecycle.** A synthetic UnmapNotify is dropped if a map request crosses it (`event.cpp:1207`) or the window is only on
another desktop (`event.cpp:1191`). MapRequest after a reparent takes the window into a wrapper that is being destroyed (`event.cpp:1272`). After a
DestroyNotify, `XSelectInput` is called with id 1 (`event.cpp:1292`). `createdWindows` never forgets a reparented window (`event.cpp:1278`). A
withdrawn iconic window stays `unmanaging` and loses its frame (`window.cpp:1375`). `pendingUnmaps` counts twice for one that is
shaded and iconic at the start (`window.cpp:5274`); `pendingMaps` is zeroed with maps under way (`window.cpp:1254`);
`setNumberOfDesktops` does not show windows (`screen.cpp:3663`).

**Stacking and focus.** The list is changed when a restack is asked for and again at its report (`window.cpp:2419`); a report that comes after a later change of the
server's order puts a window beside a neighbour it no longer has, so list and server may differ (`crossed`). A window that is shown again because its
client asks for the normal state, or whose map overtakes the report of its unmap, may be the only one and not get the focus (`hasty`). Docks are restacked with the caller's `xwc` (`window.cpp:3083-3086`), so its sibling may be wrong. An active window that is covered
keeps its raise-on-click grab (`window.cpp:1652`). `focusDefaultWindow` does nothing when `activeWindow` is stale (`screen.cpp:2572`). `restackBelow` without an
allowed sibling goes to the bottom (`window.cpp:3255`). User times are compared without regard to 32 bit wrapping. `desktopWindowCount` may lose step with windows that change their type.

**Geometry and viewports.** `moveViewport` and `syncPosition` start from the last report, not from what was asked for. `setVirtualScreenSize` does not move
windows wrapped to the left, whose viewport goes too (comment `screen.cpp:1775`). A width asked for while a window is maximized horizontally is
dropped (`window.cpp:2946`). `place.cpp:538` and `805` test `actions ()` against `MAXIMIZE_STATE`: bits of states against bits of actions, that is *stick* and
*minimize* (`window.h:85-103`), so windows that cannot be minimized are not maximized on their own, and windows of a fixed size are asked
to, which `constrainWindowState` refuses. `place` cuts a request to the work area after `constrainNewWindowSize`, so the result may be off the increments or below
the minimum. New hints do not constrain the size of a maximized window again. `place.cpp:594` negates the mask before `&`; `shiftY` uses the new width
(`place.cpp:172`). No upper bound is tested when a viewport is set. `setFullscreenMonitors` gives the far corner of the monitors to a constructor that takes a size
(`window.cpp:459`), so the rectangle of monitors that do not start at the corner of the screen is too large. `updateOutputDevices` sets each output's work area to the whole
output before `updateWorkarea` compares it (`output.cpp:81`, `screen.cpp:3219`): without docks, maximized windows keep the size of the outputs there were. A cascaded window placed to the right of another
is moved by the other's borders (`place.cpp:1238`).

**Bindings.** Grabs are added for actions before `initialized` is set (`screen.cpp:4587`, 4596), so the ones meant to be added then are not. A key grab keeps its real mask when the mapping changes, and is then grabbed
again without a look at the answer (`screen.cpp:3010`). A refused combination leaves the grabs made before it. The last removal of a key takes along combinations that another key has, too (`screen.cpp:2994`). Without XKB, an action
ends with the key, not with its modifiers. The edge delay outlives a drag: one that ends while the delay runs
still initiates the action (`late`). Keys of actions whose real modifiers a new mapping moves are not followed (`moved`).

**Interactive plugins.** Switcher may list a window twice and keeps `zoomedWindow` after its end. Scale's hover timer is not stopped. `initializeSyncCounter` tests
`checkForError` the wrong way round (`window.cpp:1551`), so an alarm that was created is destroyed. Resize and rotate set their state before `pushGrab` can fail. An option that changes in
the middle of a move or zoom leaves hooks behind (`changed`). `clone` disables `outputChangeNotify` and never enables it, so clones of outputs that are gone stay. A cancelled screenshot leaves its hook. The destroy handler calls
`resizeTerminate` twice.

**Painting and effects.** Damage of a full screen is lost for windows with overlays (`composite/src/screen.cpp:824`; `forgotten`). An alarm that arrives late makes `nDamage` -1
(`composite/src/window.cpp:534`). Textures are kept of a window that is not redirected any more. The hole of an overlay does not follow it. A
constant-speed fade of saturation never gets there, and repaints for ever (`fade.xml.in`).
Other fades stop short (`cut`): the dimming of a bell in the mode of constant time leaves the old target, so the brightness does not come back; steps of that mode are counted
while the window is not exposed, and lost; `glPaint` returns early for values that are already the wanted ones, and keeps a target that is not; a step that reaches
opacity 0 ends the fade, whatever it was going to (`fade.cpp:222-300`); and a change of the mode or of the option to dim is not followed by windows that are not drawn. A blur's `updateMatch` does not set `moreBlur`
(`blur.xml.in:38`). Wobbly keeps its force mask when a maximized window in hand is destroyed.

**Decorations.** A move asked for by the decoration outlives withdrawal (`raced`). A refused texture makes both programs change the kind of frame for ever. `checkForDm`
overwrites the decorations of a decorator that was replaced (`lost`, `decor.cpp:1359`). Hints toggled quickly are seen once (`skipped`). Undecorating by
hints may use a null pointer.

**Peers.** A press on a frame that ends elsewhere leaves its button pressed. The tooltip is lost from one button to the next. Frames drawn by the compositor get no leave
event; hidden buttons have boxes of size zero at places never set; a button stays entered
if the pointer leaves it while a menu has the grab, or it is hidden under the pointer (`missed`). The menu of a dock is freed but its pointer kept (`actionmenu.c:73`). A late pong counts
for the next ping. `closeRequests` is never reset. Cancelled startup sequences stay until their time is over. `iceWatchFdHandle` holds one descriptor only.

**Configuration.** Flags of a match are not reset at `|` (`match.cpp:302`, against the example of its comment, 285-295; `Plain`). `ini` does not save a changed option
(`ini.cpp:534`; `ahead`). inotify's search for the watch of an event increments the other iterator (`inotify.cpp:91`): the event goes to the plugin of another watch, or to none (`missed`), and
if the newest watch was refused by the kernel the search does not end (`hung`). A list set over the bus grows: its items are put behind those that are there, without `setOption`
(`dbus.cpp:930`), against the comment that says that the argument is the new value (`dbus.cpp:868-888`). The plugins hear of such a list with the next one that is set, and
a name it then holds twice deletes the `vTable` of an active plugin (`torn`). dbus leaves the paths of plugins it is taken off before (`left`). An update of the plugins
waits for the next X event (`screen.cpp:696`). `regex` misses `_NET_WM_NAME` (`deaf`).

## Not modelled

- The KDE decorator and back end (`src/kde`, `plugins/kde`): their behaviour is KWin's and Qt's; the protocol with `decor` is modelled from gtk-window-decorator.
- Wrapable functions and plugin class storage: every module has the plugins' functions in the order of their chain; the bookkeeping of the chain is not a module.
- Rectangles and regions: wrappers of libX11's, used as sets. Start of the program, atoms, icons, strings: formatting and I/O.
- Drawing: libdecoration's quads and shadows, cairo and metacity themes, GL, water's waves, annotate's shapes. Pixels and floating point.
- `commands`, `copytex`, `gnomecompat`, `imgpng`, `imgsvg`, `obs`: bindings that run a program, decoders, one value per window.
- In what is modelled: other screens, borders, aspect ratios and gravity other than what `Geometry` has, override redirect windows outside `Desktop`,
  option types other than numbers, matches and lists, and the *unmap* and *destroy* reference counts that plugins hold (`Effects` has those of its plugins).

Each part's note in `PROJECT.json` says what of it is left out.
