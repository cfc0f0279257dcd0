------------------------------ MODULE Settings -------------------------------
(* Options and who watches them: the core sets them, the ini plugin keeps   *)
(* them in files, inotify tells it when a file changed, dbus lets other     *)
(* programs read and set them, and regex makes the expressions of matches,  *)
(* which come first.                                                        *)
(* Every operator takes the whole state T and returns the next.             *)
EXTENDS Integers, Sequences, SequencesExt, FiniteSets

-----------------------------------------------------------------------------
(* Match expressions: how the text of a match becomes a list of operations, *)
(* what the list says of a window, and how it is written back.              *)

(* A text is a sequence of terms, each with the sign before it ("|" before  *)
(* the first), maybe negated, and either a word or a group in parentheses.  *)
Term(sign, not, word, group) == [sign |-> sign, not |-> not, word |-> word, group |-> group]

(* An operation has the same form, with the flags AND and NOT.              *)
Operation(flags, word, group) == [flags |-> flags, word |-> word, group |-> group]

(* What is negated or joined by & is so until the next &: a "|" leaves the  *)
(* flags as they are.                                                       *)
FlagsBefore(flags, t) ==
    (IF t.sign = "&" THEN {"and"} ELSE flags) \cup (IF t.not THEN {"not"} ELSE {})

RECURSIVE Parse(_)
AddTerm(acc, t) ==
    LET flags == FlagsBefore(acc.flags, t)
    IN  [flags |-> flags,
         ops |-> Append(acc.ops, Operation(flags, t.word, IF t.group = <<>> THEN <<>> ELSE Parse(t.group)))]
KeepsFirst(ops) ==
    [i \in DOMAIN ops |-> IF i = 1 THEN [ops[1] EXCEPT !.flags = @ \ {"and"}] ELSE ops[i]]
Parse(text) == KeepsFirst(FoldLeft(AddTerm, [flags |-> {}, ops |-> <<>>], text).ops)

(* The list written as a text again.                                        *)
RECURSIVE ToText(_)
ToText(ops) ==
    [i \in DOMAIN ops |->
        Term(IF "and" \in ops[i].flags /\ i > 1 THEN "&" ELSE "|", "not" \in ops[i].flags,
             ops[i].word, ToText(ops[i].group))]

(* The value of a list for a window, left to right: the rest is looked at   *)
(* only as long as it can change the result.                                *)
RECURSIVE Evaluate(_, _, _, _)
Holds(op, true) ==
    (IF op.group = <<>> THEN op.word \in true ELSE Evaluate(op.group, 1, FALSE, true)) # ("not" \in op.flags)
Evaluate(ops, i, result, true) ==
    IF i > Len(ops) THEN result
    ELSE IF "and" \in ops[i].flags
         THEN result /\ Evaluate(ops, i + 1, Holds(ops[i], true), true)
         ELSE result \/ Evaluate(ops, i + 1, Holds(ops[i], true), true)
Matches(ops, true) == Evaluate(ops, 1, FALSE, true)

(* The operators of CompMatch put what they join into groups.               *)
Group(flags, ops) == Operation(flags, "", ops)
Or(a, b) == <<Group({}, a), Group({}, b)>>

(* The words of a list, on every level.                                     *)
RECURSIVE Words(_)
Words(ops) ==
    UNION {IF ops[i].group = <<>> THEN {ops[i].word} ELSE Words(ops[i].group) : i \in DOMAIN ops}

-----------------------------------------------------------------------------
(* What a reader takes a text to mean: from left to right, each sign joins  *)
(* one term to the rest, the first taken first.                             *)
RECURSIVE Meaning(_, _)
TermHolds(t, true) == (IF t.group = <<>> THEN t.word \in true ELSE Meaning(t.group, true)) # t.not
Meaning(text, true) ==
    IF Len(text) = 1 THEN TermHolds(text[1], true)
    ELSE LET rest == [Tail(text) EXCEPT ![1].sign = "|"]
         IN  IF text[2].sign = "&" THEN TermHolds(text[1], true) /\ Meaning(rest, true)
                                   ELSE TermHolds(text[1], true) \/ Meaning(rest, true)

(* Texts in which no "|" follows a "!" or "&" of the same level.            *)
RECURSIVE Plain(_)
Plain(text) ==
    \A i \in DOMAIN text :
        /\ text[i].group # <<>> => Plain(text[i].group)
        /\ (i > 1 /\ text[i].sign = "|") => ~\E j \in 1 .. i - 1 : text[j].not \/ text[j].sign = "&"

-----------------------------------------------------------------------------

CONSTANTS Numbers,  (* what may be set or written for the number option     *)
          Range_,   (* the values it accepts, of which only even ones show  *)
          Broken    (* the names of plugins that cannot be loaded           *)

Junk == -1
Options(p) == CASE p = "core" -> {"active_plugins"} [] p = "ext" -> {"number", "match"} [] OTHER -> {}
Owner(o) == IF o = "active_plugins" THEN "core" ELSE "ext"
Loaded(T, p) == p = "core" \/ p \in ToSet(T.plugins)
Present(T) == {p \in {"core", "ext"} : Loaded(T, p)}
Without(seq, x) == SelectSeq(seq, LAMBDA y : y # x)

-----------------------------------------------------------------------------
(* File watches, the newest first, and inotify's own list of them.  A watch *)
(* is known by who asked for it; the kernel has none for what is missing.   *)
BusWatches == <<"home", "plugindir", "here">>
There(T, x) == CASE x = "ini" -> T.dir [] x = "home" -> T.home [] OTHER -> TRUE
FileWatchAdded(T, x) ==
    CASE ~Loaded(T, "inotify") -> T
      [] Loaded(T, "inotify") /\ There(T, x) ->
            [T EXCEPT !.watched = Append(@, x), !.live = @ \cup {x}, !.refused = @ \ {x}]
      [] OTHER -> [T EXCEPT !.refused = @ \cup {x}]
AddFileWatch(T, x) == FileWatchAdded([T EXCEPT !.files = <<x>> \o @], x)
FileWatchRemoved(T, x) ==
    IF Loaded(T, "inotify") THEN [T EXCEPT !.watched = Without(@, x), !.live = @ \ {x},
                                             !.queue = SelectSeq(@, LAMBDA e : e[1] # x)] ELSE T
RemoveFileWatch(T, x) ==
    IF x \in ToSet(T.files) THEN FileWatchRemoved([T EXCEPT !.files = Without(@, x)], x) ELSE T

(* A change in a watched directory is queued for inotify to read.           *)
Change(T, x, name) ==
    IF x \in T.live /\ (T.queue = <<>> \/ Last(T.queue) # <<x, name>>)
    THEN [T EXCEPT !.queue = Append(@, <<x, name>>)] ELSE T

-----------------------------------------------------------------------------
(* Matches are given the expressions of the plugins loaded at the time.     *)
MatchInitExp(T) == IF T.wraps THEN "regex" ELSE "core"
MatchExpHandlerChanged(T) == IF Loaded(T, "ext") THEN [T EXCEPT !.by = MatchInitExp(T)] ELSE T

(* CompOption::set: what is not in range is refused, and so is what is      *)
(* there already; a number is rounded.                                      *)
Accepts(o, v) == o = "number" => v \in Range_
Rounded(v) == ((v + 1) \div 2) * 2
Shown(o, v) == IF o = "number" THEN Rounded(v) ELSE v
Sets(T, o, v) == Loaded(T, Owner(o)) /\ T.value[o] # v /\ Accepts(o, v)
CoreSet(T, o, v) ==
    [T EXCEPT !.value[o] = Shown(o, v),
              !.dirty = @ \/ o = "active_plugins",
              !.by = IF o = "match" THEN MatchInitExp(T) ELSE @]

-----------------------------------------------------------------------------
(* The ini plugin writes all of a plugin's options, and makes the directory *)
(* and watches it when it is gone.                                          *)
UpdateDirectoryWatch(T) == AddFileWatch(RemoveFileWatch(T, "ini"), "ini")
Written(T, o) == IF o = "match" THEN ToText(T.value[o]) ELSE T.value[o]
Save(T, p) ==
    IF Options(p) = {} THEN T
    ELSE LET D == IF T.dir THEN T ELSE UpdateDirectoryWatch([T EXCEPT !.dir = TRUE])
         IN  Change([D EXCEPT !.disk[p] = [exists |-> TRUE, text |-> [o \in Options(p) |-> Written(T, o)]],
                              !.ahead = @ \ Options(p), !.missed = @ \ {p}], "ini", p)

(* The path of an option on the bus, and of a plugin.                       *)
OptionPaths(p) == {<<p, o>> : o \in Options(p)}
Register(T) ==
    [T EXCEPT !.paths = @ \cup UNION {OptionPaths(p) : p \in Present(T)}
                          \cup {<<p, "">> : p \in {"core"} \cup ToSet(T.plugins)}]
Unregister(T) ==
    [T EXCEPT !.paths = {x \in @ : ~Loaded(T, x[1])}, !.left = {p \in @ : ~Loaded(T, p)}]

(* The bus is told the value of an option; nothing has been put behind it.  *)
Hears(T, o) ==
    [T EXCEPT !.heard = (o :> T.value[o]) @@ @, !.grown = IF o = "active_plugins" THEN <<>> ELSE @]

(* The change of an option as its wrappers see it: dbus tells the bus, and  *)
(* ini saves if the option now has another value than it was given.         *)
BusHears(T, o) ==
    IF o = "active_plugins" THEN Register(Unregister(Hears(T, o))) ELSE Hears(T, o)
IniSaves(T, o, v) ==
    IF T.value[o] # v THEN Save(T, Owner(o)) ELSE [T EXCEPT !.ahead = @ \cup {o}]
Wrapped(T, o, v) ==
    LET B == IF Loaded(T, "dbus") THEN BusHears(T, o) ELSE T
    IN  CASE T.block -> B
          [] ~T.block /\ Loaded(T, "ini") -> IniSaves(B, o, v)
          [] OTHER -> [B EXCEPT !.ahead = @ \cup {o}]
SetOption(T, o, v) == IF Sets(T, o, v) THEN Wrapped(CoreSet(T, o, v), o, v) ELSE T

(* A file is read line by line; a line that cannot be read has the whole    *)
(* file written anew, and so does a file that is missing.                   *)
Readable(o, text) == o = "number" => text # Junk
FromText(o, text) == IF o = "match" THEN Parse(text) ELSE text
ReadLine(T, o, text) == [SetOption(T, o, FromText(o, text)) EXCEPT !.ahead = @ \ {o}]
ReadLines(T, lines) ==
    FoldLeft(LAMBDA S, o : IF o \in DOMAIN lines /\ Readable(o, lines[o]) THEN ReadLine(S, o, lines[o]) ELSE S,
             T, <<"active_plugins", "number", "match">>)
ReadAndSave(T, p, lines) == Save(ReadLines(T, lines), p)
ReadFile(T, p, lines) ==
    LET R == ReadLines([T EXCEPT !.missed = @ \ {p}], lines)
    IN  IF \E o \in DOMAIN lines : ~Readable(o, lines[o]) THEN Save(R, p) ELSE R
Load(T, p) ==
    IF Options(p) = {} THEN T
    ELSE IF T.disk[p].exists
         THEN [ReadFile([T EXCEPT !.block = TRUE], p, T.disk[p].text) EXCEPT !.block = FALSE]
         ELSE Save(T, p)

-----------------------------------------------------------------------------
(* Events of inotify.  The watch of an event is found in inotify's list,    *)
(* but then that list is searched, round and round, for the newest watch,   *)
(* whose owner is told.                                                     *)
ToldUnmapped(T, x, name) ==
    IF x = "ini" /\ name \in ToSet(T.plugins) THEN Load(T, name) ELSE T
Told(T, x, name) ==
    IF x = "ini" /\ name \in Present(T) THEN Load(T, name) ELSE T
Misses(T, e) == IF e[1] = "ini" THEN [T EXCEPT !.missed = @ \cup {e[2]}] ELSE T
Deliver(T, e) ==
    LET newest == Head(T.files)
        S == IF newest = e[1] THEN T ELSE Misses(T, e)
    IN  IF e[1] \notin ToSet(T.watched) THEN {T}
        ELSE {Told(S, newest, e[2])} \cup (IF newest \in ToSet(T.watched) THEN {} ELSE {[S EXCEPT !.hung = TRUE]})
ProcessEvents(T) == Deliver([T EXCEPT !.queue = Tail(@)], Head(T.queue))

-----------------------------------------------------------------------------
(* What a window says of itself, and what regex has read of it.             *)
Title(prop) == IF prop.netName # 0 THEN prop.netName ELSE prop.wmName
UpdateTitle(T) == [T EXCEPT !.read.title = Title(T.prop), !.deaf = FALSE]
UpdateRole(T) == [T EXCEPT !.read.role = T.prop.role]
UpdateClass(T) == [T EXCEPT !.read.class = T.prop.class]
UpdateAll(T) == UpdateClass(UpdateTitle(UpdateRole(T)))
PropertyNotify(T, atom) ==
    CASE ~Loaded(T, "regex") -> T
      [] Loaded(T, "regex") /\ atom = "wmName" -> UpdateTitle(T)
      [] Loaded(T, "regex") /\ atom = "role" -> UpdateRole(T)
      [] Loaded(T, "regex") /\ atom = "class" -> UpdateClass(T)
      [] Loaded(T, "regex") /\ atom = "other" -> T
      [] OTHER -> [T EXCEPT !.deaf = @ \/ T.read.title # Title(T.prop)]

-----------------------------------------------------------------------------
(* A plugin is put on the stack and starts, and then the windows and the    *)
(* wrappers of initPluginForScreen learn of it.                             *)
Starts(T, p) ==
    CASE p = "ini" -> Load(UpdateDirectoryWatch([T EXCEPT !.dir = TRUE]), "core")
      [] p = "inotify" -> FoldLeft(FileWatchAdded, T, T.files)
      [] p = "dbus" -> Register(FoldLeft(AddFileWatch, T, Reverse(BusWatches)))
      [] p = "regex" -> [T EXCEPT !.wraps = TRUE, !.timer = TRUE]
      [] p = "ext" -> [T EXCEPT !.by = MatchInitExp(T),
                                !.ahead = @ \ Options(p), !.missed = @ \cup {p}]
      [] OTHER -> T
InitPluginForScreen(T, p) ==
    LET B == IF Loaded(T, "dbus") THEN [T EXCEPT !.paths = @ \cup OptionPaths(p)] ELSE T
        W == IF p = "regex" THEN UpdateAll(B) ELSE B
    IN  IF Loaded(T, "ini") THEN Load(W, p) ELSE W
Push(T, p) == InitPluginForScreen(Starts([T EXCEPT !.plugins = Append(@, p)], p), p)

(* It ends, and leaves the stack; regex no longer wraps when it has all    *)
(* matches made anew.                                                       *)
Unwraps(T) == [T EXCEPT !.wraps = FALSE, !.timer = FALSE]
RegexEnds(T) == MatchExpHandlerChanged(Unwraps(T))
Ends(T, p) ==
    CASE p = "ini" -> RemoveFileWatch(T, "ini")
      [] p = "inotify" -> [FoldLeft(FileWatchRemoved, T, T.files) EXCEPT !.queue = <<>>]
      [] p = "dbus" -> [Unregister(FoldLeft(RemoveFileWatch, T, BusWatches)) EXCEPT !.heard = <<>>]
      [] p = "regex" -> RegexEnds(T)
      [] p = "ext" -> [T EXCEPT !.value.number = 0, !.value.match = <<>>, !.by = "core",
                                !.heard = [o \in DOMAIN @ \ Options(p) |-> @[o]]]
      [] OTHER -> T
Pop(T) ==
    LET p == Last(T.plugins)
    IN  [Ends(T, p) EXCEPT !.plugins = Front(@),
                           !.left = IF p # "dbus" /\ Loaded(T, "dbus") THEN @ \cup {p} ELSE @]

(* The stack is made to be the list: what differs is taken off, the rest is *)
(* put on, and the option shows what there is.  A plugin that is active     *)
(* already cannot be put on again: the second object is thrown away, and    *)
(* with it the table of functions that the two share.                       *)
Wanted(T) == T.initial \o SelectSeq(T.value.active_plugins, LAMBDA p : p \notin ToSet(T.initial))
Common(a, b) == Len(LongestCommonPrefix({a, b}))
RECURSIVE Popped(_, _)
Popped(T, n) == IF Len(T.plugins) = n THEN T ELSE Popped(Pop(T), n)
Pushed(T, p) ==
    CASE p \in Broken -> T
      [] p \notin Broken /\ Loaded(T, p) -> [T EXCEPT !.torn = TRUE]
      [] OTHER -> Push(T, p)
ShowsPlugins(T) == IF T.dirty THEN T ELSE SetOption(T, "active_plugins", T.plugins)
UpdateWith(T, wanted, n) ==
    ShowsPlugins(FoldLeft(Pushed, Popped(T, n), SubSeq(wanted, n + 1, Len(wanted))))
UpdatePlugins(T) ==
    LET wanted == Wanted(T) IN UpdateWith([T EXCEPT !.dirty = FALSE], wanted, Common(T.plugins, wanted))
==============================================================================
