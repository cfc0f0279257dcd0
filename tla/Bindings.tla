------------------------------- MODULE Bindings -------------------------------
(***************************************************************************)
(* What the actions of the options ask of the X server: keys grabbed on    *)
(* the root window, buttons on the frames of windows and the mapped        *)
(* windows at the edges of the screen.  Grabs are counted, modifiers are   *)
(* virtual (Alt, Super) or real (Mod1), and some are ignored.              *)
(*                                                                         *)
(* A binding is the value of an action: a record of its key and button,    *)
(* each with a code (0: none) and modifiers, its edges, the types of       *)
(* binding it has and whether it is active.                                *)
(***************************************************************************)
EXTENDS Integers, SequencesExt, FiniteSetsExt

Virtual == {"Alt", "Super", "NumLock", "ScrollLock"}
Unmapped == "No"                      \* CompNoMask: no key has the modifier
Weight == [Shift |-> 1, Lock |-> 2, Control |-> 4, Mod1 |-> 8, Mod2 |-> 16, Mod4 |-> 64]

Extend(f, k, v) == [e \in DOMAIN f \cup {k} |-> IF e = k THEN v ELSE f[e]]
Without(f, k) == [e \in DOMAIN f \ {k} |-> f[e]]

-----------------------------------------------------------------------------
(* Bindings as the configuration gives them.                                *)

NoKey == [code |-> 0, mods |-> {}]
Unbound == [key |-> NoKey, button |-> NoKey, edges |-> {}, type |-> {}, active |-> FALSE]

\* a string holds modifiers, edges and the name of a key or button; 0 is no known name
KeyFromString(str) ==
    IF str.code # 0 \/ str.mods # {}
      THEN [Unbound EXCEPT !.key = [code |-> str.code, mods |-> str.mods], !.type = {"key"}]
      ELSE Unbound

ButtonFromString(str) ==
    IF str.code = 0 THEN Unbound
    ELSE [Unbound EXCEPT !.button = [code |-> str.code, mods |-> str.mods],
                         !.edges = str.edges,
                         !.type = IF str.edges = {} THEN {"button"} ELSE {"edgeButton"}]

EdgeMaskFromString(str) == [Unbound EXCEPT !.edges = str.edges]

Same(a, b) == [a EXCEPT !.active = FALSE] = [b EXCEPT !.active = FALSE]

-----------------------------------------------------------------------------
(* Modifiers.                                                               *)

VirtualToReal(S, mods) == (mods \ Virtual) \cup UNION {S.modMask[m] : m \in mods \cap Virtual}

Ignored(S) == {"Lock"} \cup ((S.modMask["NumLock"] \cup S.modMask["ScrollLock"]) \ {Unmapped})

\* the mask of a is less than that of b
Before(a, b) == \E m \in b \ a : \A n \in a \ b : Weight[n] < Weight[m]

\* the modifiers that the key code has
KeycodeToModifiers(S, code) == {m \in DOMAIN S.modMap : code \in S.modMap[m]}

-----------------------------------------------------------------------------
(* Keys.                                                                    *)

\* what is grabbed on the root window for real modifiers and a set of ignored ones:
\* the key, or the keys of the modifiers themselves
Combinations(S, mods, code, ignore) ==
    IF code # 0 THEN {<<code, mods \cup ignore>>}
    ELSE UNION {{<<k, (mods \ {m}) \cup ignore>> : k \in S.modMap[m]}
                : m \in mods \cap DOMAIN S.modMap}

AllCombinations(S, mods, code) ==
    IF Unmapped \in mods THEN {}
    ELSE UNION {Combinations(S, mods, code, ignore) : ignore \in SUBSET Ignored(S)}

\* grab: stops at the first set of ignored modifiers the server refuses, in the order of
\* their masks, and leaves what it has granted
GrabKeys(S, mods, code) ==
    LET refused == {i \in SUBSET Ignored(S) : Combinations(S, mods, code, i) \cap S.foreign # {}}
        tried == {i \in SUBSET Ignored(S) : ~\E j \in refused : Before(j, i)}
        granted == (UNION {Combinations(S, mods, code, i) : i \in tried}) \ S.foreign
    IN  [S EXCEPT !.rootKeys = @ \cup granted, !.granted = refused = {},
                  !.left = IF refused = {} THEN @ ELSE @ \cup granted]

UngrabKeys(S, mods, code) ==
    [S EXCEPT !.rootKeys = @ \ AllCombinations(S, mods, code)]

AddPassiveKeyGrab(S, key) ==
    LET mask == VirtualToReal(S, key.mods)
        k == <<key.code, mask>>
        Counted(T) == IF T.granted THEN [T EXCEPT !.keyGrabs = Extend(@, k, 1)] ELSE T
    IN  IF k \in DOMAIN S.keyGrabs THEN [S EXCEPT !.keyGrabs[k] = @ + 1, !.granted = TRUE]
        ELSE Counted(IF Unmapped \in mask THEN [S EXCEPT !.granted = TRUE]
                     ELSE GrabKeys(S, mask, key.code))

\* mutant: whoever leaves takes the grab along
RemoveUncounted(S, key) ==
    LET mask == VirtualToReal(S, key.mods)
        k == <<key.code, mask>>
    IN  IF k \notin DOMAIN S.keyGrabs THEN S
        ELSE UngrabKeys([S EXCEPT !.keyGrabs = Without(@, k)], mask, key.code)

RemovePassiveKeyGrab(S, key) ==
    LET mask == VirtualToReal(S, key.mods)
        k == <<key.code, mask>>
    IN  IF k \notin DOMAIN S.keyGrabs THEN S
        ELSE IF S.keyGrabs[k] > 1 THEN [S EXCEPT !.keyGrabs[k] = @ - 1]
        ELSE LET T == [S EXCEPT !.keyGrabs = Without(@, k)]
             IN  IF Unmapped \in mask THEN T ELSE UngrabKeys(T, mask, key.code)

UpdatePassiveKeyGrabs(S) ==
    FoldSet(LAMBDA k, T : IF Unmapped \in k[2] THEN T ELSE GrabKeys(T, k[2], k[1]),
            [S EXCEPT !.rootKeys = {}], DOMAIN S.keyGrabs)

-----------------------------------------------------------------------------
(* Buttons, on the frames of windows that have not got the full grab.       *)

ButtonCombinations(S) ==
    UNION {LET mods == VirtualToReal(S, b[2])
           IN  IF Unmapped \in mods THEN {}
               ELSE {<<b[1], mods \cup ignore>> : ignore \in SUBSET Ignored(S)}
           : b \in DOMAIN S.buttonGrabs}

UpdatePassiveButtonGrabs(S) ==
    [S EXCEPT !.frames = [w \in DOMAIN @ |-> ButtonCombinations(S)]]

AddPassiveButtonGrab(S, button) ==
    LET b == <<button.code, button.mods>>
    IN  IF b \in DOMAIN S.buttonGrabs THEN [S EXCEPT !.buttonGrabs[b] = @ + 1]
        ELSE UpdatePassiveButtonGrabs([S EXCEPT !.buttonGrabs = Extend(@, b, 1)])

RemovePassiveButtonGrab(S, button) ==
    LET b == <<button.code, button.mods>>
    IN  IF b \notin DOMAIN S.buttonGrabs THEN S
        ELSE IF S.buttonGrabs[b] > 1 THEN [S EXCEPT !.buttonGrabs[b] = @ - 1]
        ELSE UpdatePassiveButtonGrabs([S EXCEPT !.buttonGrabs = Without(@, b)])

\* the keyboard's mapping of modifiers has changed
UpdateModifierMappings(S, mask) ==
    IF mask = S.modMask THEN S
    ELSE UpdatePassiveButtonGrabs(UpdatePassiveKeyGrabs([S EXCEPT !.modMask = mask]))

-----------------------------------------------------------------------------
(* Edges.                                                                   *)

EnableEdge(S, e) ==
    [S EXCEPT !.edgeCount[e] = @ + 1,
              !.edgesMapped = IF S.edgeCount[e] = 0 THEN @ \cup {e} ELSE @]

DisableEdge(S, e) ==
    [S EXCEPT !.edgeCount[e] = @ - 1,
              !.edgesMapped = IF S.edgeCount[e] = 1 THEN @ \ {e} ELSE @]

-----------------------------------------------------------------------------
(* Actions and options.  S.granted says whether addAction succeeded.        *)

AddAction(S, a) ==
    LET Keyed == IF "key" \in a.type THEN AddPassiveKeyGrab(S, a.key)
                                     ELSE [S EXCEPT !.granted = TRUE]
        Buttoned(T) == IF "button" \in a.type THEN AddPassiveButtonGrab(T, a.button) ELSE T
        Edged(T) == FoldSet(LAMBDA e, U : EnableEdge(U, e), T, a.edges)
        Rest(T) == IF T.granted THEN Edged(Buttoned(T)) ELSE T
    IN  IF ~S.initialized \/ a.active THEN [S EXCEPT !.granted = FALSE] ELSE Rest(Keyed)

RemoveAction(S, a) ==
    LET Unkeyed == IF "key" \in a.type THEN RemovePassiveKeyGrab(S, a.key) ELSE S
        Unbuttoned(T) == IF "button" \in a.type THEN RemovePassiveButtonGrab(T, a.button) ELSE T
    IN  IF ~S.initialized \/ ~a.active THEN S
        ELSE FoldSet(LAMBDA e, U : DisableEdge(U, e), Unbuttoned(Unkeyed), a.edges)

\* a key or button option does not take a value that has neither before nor after
Pointless(kind, old, new) ==
    /\ old.type = new.type
    /\ \/ kind = "key" /\ "key" \notin new.type
       \/ kind = "button" /\ new.type \cap {"button", "edgeButton"} = {}

\* CompOption::set of the option o, which grabs automatically
SetOption(S, o, val) ==
    LET old == S.value[o]
        Stored(T) == [T EXCEPT !.value[o] = IF Pointless(S.kind[o], old, val)
                                            THEN [old EXCEPT !.active = FALSE]
                                            ELSE [val EXCEPT !.active = TRUE]]
        Added(T) == IF T.granted THEN Stored(RemoveAction(T, old)) ELSE T
    IN  IF Same(old, val) THEN S ELSE Added(AddAction(S, val))

\* the options of a plugin when it is loaded, and when it goes
InitOptions(S, options) ==
    FoldSet(LAMBDA o, T : LET U == AddAction(T, T.value[o])
                          IN  IF U.granted THEN [U EXCEPT !.value[o].active = TRUE] ELSE U,
            S, options)

FiniOptions(S, options) ==
    FoldSet(LAMBDA o, T : [RemoveAction(T, T.value[o]) EXCEPT !.value[o].active = FALSE],
            S, options)

\* the start: the core's options exist before the screen does
AddScreenActions(S) == [InitOptions(S, {o \in DOMAIN S.value : S.owner[o] = "core"}) EXCEPT
                            !.initialized = TRUE]
=============================================================================
