---------------------------- MODULE DispatchProofs ----------------------------
(***************************************************************************)
(* Proofs that the server has grabbed what the active actions need: edges  *)
(* that are mapped, buttons on the frames and keys on the root window,     *)
(* however options, plugins and the mapping of the modifiers change.       *)
(* The operators of module Bindings take the state as a record, so most    *)
(* lemmas say what one of them makes of a record that is Sound.            *)
(***************************************************************************)
EXTENDS Dispatch, DataLemmas

-----------------------------------------------------------------------------
(* The inductive invariant.                                                *)

Option(s) == DOMAIN s.start.value
Edge(s) == DOMAIN s.start.edgeCount
Coded == [code : Nat, mods : SUBSET (Virtual \cup DOMAIN Weight)]
Binding(s) == [key : Coded, button : Coded, edges : SUBSET Edge(s),
               type : SUBSET {"key", "button", "edgeButton"}, active : BOOLEAN]

\* The fields of the record; what the grabs do not depend on is left open.
Record(s, S) ==
    [kind : {s.start.kind}, owner : {s.start.owner}, value : [Option(s) -> Binding(s)],
     order : {S.order}, loaded : {S.loaded}, claims : {S.claims}, noDelay : {S.noDelay},
     initialized : BOOLEAN, xkb : {S.xkb}, delay : {S.delay}, escape : {S.escape},
     return : {S.return}, modMask : Masks(s), modMap : {s.start.modMap},
     foreign : {s.start.foreign}, keyGrabs : {S.keyGrabs}, buttonGrabs : {S.buttonGrabs},
     rootKeys : {S.rootKeys}, granted : BOOLEAN, left : {S.left},
     frames : {S.frames}, edgeCount : [Edge(s) -> Int],
     edgesMapped : SUBSET Edge(s), edgeWindow : {S.edgeWindow}, xdndWindow : {S.xdndWindow},
     timer : {S.timer}, running : {S.running}, rebound : {S.rebound}, moved : {S.moved},
     late : {S.late}]
Recorded(s, S) == S \in Record(s, S)

One(p) == IF p THEN 1 ELSE 0
Amount(f, k) == IF k \in DOMAIN f THEN f[k] ELSE 0
Positive(f) == IsFiniteSet(DOMAIN f) /\ f \in [DOMAIN f -> Nat \ {0}]

EdgesFit(S) == S.edgesMapped = {e \in DOMAIN S.edgeCount : S.edgeCount[e] > 0}

ButtonsFit(S) ==
    /\ Positive(S.buttonGrabs)
    /\ S.frames = [w \in DOMAIN S.frames |-> ButtonCombinations(S)]

KeysFit(s, S) ==
    /\ Positive(S.keyGrabs)
    /\ S.rootKeys \subseteq (UNION {Combos(S, k) : k \in DOMAIN S.keyGrabs}) \cup S.left
    /\ S.moved = {} => \A k \in DOMAIN S.keyGrabs : \E a \in KeyStrings(s) : k = RealKey(S, a)
    /\ KeysApart /\ S.moved = {} =>
          \A k \in DOMAIN S.keyGrabs : /\ Combos(S, k) \subseteq S.rootKeys
                                       /\ Combos(S, k) \cap S.foreign = {}

\* What the server has been asked for is what the counts say.
Sound(s, S) == Recorded(s, S) /\ EdgesFit(S) /\ ButtonsFit(S) /\ KeysFit(s, S)

\* Who needs an edge, a button and a key
EdgeUsers(S, e) == {o \in DOMAIN S.value : S.value[o].active /\ e \in S.value[o].edges}
HasButton(v, b) == "button" \in v.type /\ b = <<v.button.code, v.button.mods>>
ButtonUsers(S, b) == {o \in DOMAIN S.value : S.value[o].active /\ HasButton(S.value[o], b)}
HasKey(S, v, k) == "key" \in v.type /\ k = RealKey(S, v.key)
KeyUsers(S, k) == {o \in DOMAIN S.value : S.value[o].active /\ HasKey(S, S.value[o], k)}

\* The counts are those of the active actions.
Counted(S) ==
    /\ \A e \in DOMAIN S.edgeCount : S.edgeCount[e] = Cardinality(EdgeUsers(S, e))
    /\ \A b : Amount(S.buttonGrabs, b) = Cardinality(ButtonUsers(S, b))
    /\ S.moved = {} => \A k : Amount(S.keyGrabs, k) = Cardinality(KeyUsers(S, k))

Known(s, S) ==
    \A o \in Option(s) : /\ S.value[o].active => S.owner[o] \in S.loaded
                         /\ "key" \in S.value[o].type => S.value[o].key \in KeyStrings(s)

Good(s, S) == Sound(s, S) /\ Counted(S) /\ Known(s, S)

\* Events are those that compiz knows, and no mapping is announced that there may not be.
Kinds == {"ButtonPress", "ButtonRelease", "KeyPress", "KeyRelease", "StateNotify",
          "EnterNotify", "MappingNotify", "xdndEnter", "xdndLeave", "xdndPosition"}
Understood(s, e) == e.what \in Kinds /\ (e.what = "MappingNotify" => e.mask \in s.masks)
Fitting(s, q) == \E Q : q \in Seq(Q) /\ \A e \in Q : Understood(s, e)

\* The inductive invariant
Inv == session \in Sessions /\ core.initialized /\ Good(session, core) /\ Fitting(session, queue)

-----------------------------------------------------------------------------
(* Counts and mappings.                                                    *)

LEMMA CountChanges ==
    ASSUME NEW A, NEW B, NEW o, IsFiniteSet(A), A \ {o} = B \ {o}
    PROVE  /\ IsFiniteSet(B) /\ Cardinality(A) \in Nat
           /\ Cardinality(B) = Cardinality(A) - One(o \in A) + One(o \in B)
<1> DEFINE C == A \ {o}
<1>1. /\ IsFiniteSet(C) /\ Cardinality(A) \in Nat /\ Cardinality(C) \in Nat
      /\ Cardinality(C) = IF o \in A THEN Cardinality(A) - 1 ELSE Cardinality(A)
  BY FS_RemoveElement, FS_CardinalityType
<1>2. /\ IsFiniteSet(C \cup {o})
      /\ Cardinality(C \cup {o}) = IF o \in C THEN Cardinality(C) ELSE Cardinality(C) + 1
  BY <1>1, FS_AddElement
<1>3. CASE o \in B
  <2>1. B = C \cup {o}
    BY <1>3
  <2>2. QED
    BY <1>1, <1>2, <1>3, <2>1 DEF One
<1>4. CASE o \notin B
  <2>1. B = C
    BY <1>4
  <2>2. QED
    BY <1>1, <1>4, <2>1 DEF One
<1>5. QED
  BY <1>3, <1>4

\* What a binding stands for is decided by the mapping alone.
Mapped(S, T) == T.modMask = S.modMask /\ T.modMap = S.modMap

\* What adding and removing a grab does not touch, and the three things it may touch
SameBase(S, T) ==
    /\ Mapped(S, T) /\ T.foreign = S.foreign /\ T.moved = S.moved /\ T.value = S.value
    /\ T.loaded = S.loaded /\ T.initialized = S.initialized
SameKeys(S, T) == T.keyGrabs = S.keyGrabs /\ T.rootKeys = S.rootKeys /\ T.left = S.left
SameButtons(S, T) == T.buttonGrabs = S.buttonGrabs /\ T.frames = S.frames
SameEdges(S, T) == T.edgeCount = S.edgeCount /\ T.edgesMapped = S.edgesMapped

LEMMA MappedSame ==
    ASSUME NEW S, NEW T, Mapped(S, T)
    PROVE  /\ \A mods : VirtualToReal(T, mods) = VirtualToReal(S, mods)
           /\ \A key : RealKey(T, key) = RealKey(S, key)
           /\ Ignored(T) = Ignored(S)
           /\ \A mods, code, i : Combinations(T, mods, code, i) = Combinations(S, mods, code, i)
           /\ \A mods, code : AllCombinations(T, mods, code) = AllCombinations(S, mods, code)
           /\ \A k : Combos(T, k) = Combos(S, k)
           /\ \A v, k : HasKey(T, v, k) = HasKey(S, v, k)
           /\ T.buttonGrabs = S.buttonGrabs => ButtonCombinations(T) = ButtonCombinations(S)
<1>1. \A mods : VirtualToReal(T, mods) = VirtualToReal(S, mods)
  BY DEF VirtualToReal, Mapped
<1>2. Ignored(T) = Ignored(S)
  BY DEF Ignored, Mapped
<1>3. \A mods, code, i : Combinations(T, mods, code, i) = Combinations(S, mods, code, i)
  BY DEF Combinations, Mapped
<1>4. \A mods, code : AllCombinations(T, mods, code) = AllCombinations(S, mods, code)
  BY <1>2, <1>3 DEF AllCombinations
<1>5. T.buttonGrabs = S.buttonGrabs => ButtonCombinations(T) = ButtonCombinations(S)
  BY SMTT(30), <1>1, <1>2 DEF ButtonCombinations
<1>6. QED
  BY <1>1, <1>2, <1>3, <1>4, <1>5 DEF RealKey, Combos, HasKey

-----------------------------------------------------------------------------
(* Edges.                                                                  *)

EnableStep(p, T, e) == EnableEdge(T, e)
DisableStep(p, T, e) == DisableEdge(T, e)
EnableFold == INSTANCE DataLemmas WITH Stepped <- EnableStep
DisableFold == INSTANCE DataLemmas WITH Stepped <- DisableStep

\* The counts of the edges in D are n more.
Shifted(c, D, n) == [e \in DOMAIN c |-> IF e \in D THEN c[e] + n ELSE c[e]]
Awaited(c) == {e \in DOMAIN c : c[e] > 0}
With(S, c) == [S EXCEPT !.edgeCount = c, !.edgesMapped = Awaited(c)]
More(S, D, n) == With(S, Shifted(S.edgeCount, D, n))

LEMMA WithCount ==
    ASSUME NEW s \in Sessions, NEW S, Recorded(s, S), NEW c \in [Edge(s) -> Int]
    PROVE  /\ Recorded(s, With(S, c)) /\ EdgesFit(With(S, c))
           /\ With(S, c).edgeCount = c
           /\ EdgesFit(S) => With(S, S.edgeCount) = S
           /\ \A d \in [Edge(s) -> Int] : With(With(S, c), d) = With(S, d)
<1>1. Awaited(c) \in SUBSET Edge(s)
  BY DEF Awaited
<1>2. Recorded(s, With(S, c)) /\ With(S, c).edgeCount = c
  BY <1>1 DEF With, Recorded, Record
<1>3. EdgesFit(With(S, c))
  BY DEF With, EdgesFit, Awaited, Recorded, Record
<1>4. EdgesFit(S) => S.edgesMapped = Awaited(S.edgeCount)
  BY DEF EdgesFit, Awaited
<1>5. EdgesFit(S) => With(S, S.edgeCount) = S
  BY <1>4 DEF With, Recorded, Record
<1>6. \A d \in [Edge(s) -> Int] : With(With(S, c), d) = With(S, d)
  BY DEF With, Recorded, Record
<1>7. QED
  BY <1>2, <1>3, <1>5, <1>6

LEMMA EdgeStep ==
    ASSUME NEW s \in Sessions, NEW S, Recorded(s, S), EdgesFit(S), NEW e \in Edge(s)
    PROVE  /\ EnableEdge(S, e) = More(S, {e}, 1)
           /\ DisableEdge(S, e) = More(S, {e}, -1)
<1> DEFINE c == S.edgeCount
<1>1. c \in [Edge(s) -> Int]
  BY DEF Recorded, Record
<1>2. /\ [c EXCEPT ![e] = @ + 1] = Shifted(c, {e}, 1)
      /\ [c EXCEPT ![e] = @ - 1] = Shifted(c, {e}, -1)
  BY <1>1 DEF Shifted
<1>3. (IF c[e] = 0 THEN S.edgesMapped \cup {e} ELSE S.edgesMapped) = Awaited(Shifted(c, {e}, 1))
  BY <1>1 DEF EdgesFit, Awaited, Shifted
<1>4. (IF c[e] = 1 THEN S.edgesMapped \ {e} ELSE S.edgesMapped) = Awaited(Shifted(c, {e}, -1))
  BY <1>1 DEF EdgesFit, Awaited, Shifted
<1>5. EnableEdge(S, e) = More(S, {e}, 1)
  BY <1>2, <1>3 DEF EnableEdge, More, With, Recorded, Record
<1>6. DisableEdge(S, e) = More(S, {e}, -1)
  BY <1>2, <1>4 DEF DisableEdge, More, With, Recorded, Record
<1>7. QED
  BY <1>5, <1>6

LEMMA MoreTwice ==
    ASSUME NEW s \in Sessions, NEW S, Recorded(s, S), NEW d \in SUBSET Edge(s), NEW e \in d,
           NEW n \in {1, -1}
    PROVE  LET U == More(S, d \ {e}, n)
           IN  Recorded(s, U) /\ EdgesFit(U) /\ More(U, {e}, n) = More(S, d, n)
<1> DEFINE c == S.edgeCount
           C == [Edge(s) -> Int]
           U == More(S, d \ {e}, n)
<1>1. c \in C
  BY DEF Recorded, Record
<1>2. \A D : Shifted(c, D, n) \in C
  BY <1>1 DEF Shifted
<1>3. Shifted(Shifted(c, d \ {e}, n), {e}, n) = Shifted(c, d, n)
  BY <1>1 DEF Shifted
<1>4. More(U, {e}, n) = With(S, Shifted(Shifted(c, d \ {e}, n), {e}, n))
  BY <1>2, <1>3, WithCount DEF More
<1>5. Recorded(s, U) /\ EdgesFit(U)
  BY <1>2, WithCount DEF More
<1>6. QED
  BY <1>3, <1>4, <1>5 DEF More

LEMMA EdgesFolded ==
    ASSUME NEW s \in Sessions, NEW S, Recorded(s, S), EdgesFit(S), NEW D \in SUBSET Edge(s)
    PROVE  /\ FoldSet(LAMBDA e, U : EnableEdge(U, e), S, D) = More(S, D, 1)
           /\ FoldSet(LAMBDA e, U : DisableEdge(U, e), S, D) = More(S, D, -1)
<1>3. ASSUME NEW d \in SUBSET D, NEW e \in d, NEW n \in {1, -1}
      PROVE  /\ Recorded(s, More(S, d \ {e}, n)) /\ EdgesFit(More(S, d \ {e}, n))
             /\ More(More(S, d \ {e}, n), {e}, n) = More(S, d, n)
             /\ e \in Edge(s)
  <2>1. d \in SUBSET Edge(s)
    OBVIOUS
  <2>2. Recorded(s, More(S, d \ {e}, n)) /\ EdgesFit(More(S, d \ {e}, n))
    BY <2>1, MoreTwice
  <2>3. More(More(S, d \ {e}, n), {e}, n) = More(S, d, n)
    BY <2>1, MoreTwice
  <2>4. QED
    BY <2>1, <2>2, <2>3
<1> DEFINE V == [d \in SUBSET D |-> {More(S, d, 1)}]
           W == [d \in SUBSET D |-> {More(S, d, -1)}]
<1>1. IsFiniteSet(D)
  BY SessionsAssumption, FS_Subset DEF Edge
<1>2. S = More(S, {}, 1) /\ S = More(S, {}, -1)
  <2>1. Shifted(S.edgeCount, {}, 1) = S.edgeCount /\ Shifted(S.edgeCount, {}, -1) = S.edgeCount
    BY DEF Shifted, Recorded, Record
  <2>2. S.edgeCount \in [Edge(s) -> Int]
    BY DEF Recorded, Record
  <2>3. QED
    BY <2>1, <2>2, WithCount DEF More
<1>4. ASSUME NEW d \in SUBSET D, NEW e \in d, NEW U \in V[d \ {e}]
      PROVE  EnableStep(0, U, e) \in V[d]
  <2>1. U = More(S, d \ {e}, 1)
    OBVIOUS
  <2>2. /\ Recorded(s, U) /\ EdgesFit(U) /\ e \in Edge(s)
        /\ More(U, {e}, 1) = More(S, d, 1)
    BY <1>3, <2>1
  <2>3. EnableEdge(U, e) = More(S, d, 1)
    BY <2>2, EdgeStep
  <2>4. QED
    BY <2>3 DEF EnableStep
<1>5. ASSUME NEW d \in SUBSET D, NEW e \in d, NEW U \in W[d \ {e}]
      PROVE  DisableStep(0, U, e) \in W[d]
  <2>1. U = More(S, d \ {e}, -1)
    OBVIOUS
  <2>2. /\ Recorded(s, U) /\ EdgesFit(U) /\ e \in Edge(s)
        /\ More(U, {e}, -1) = More(S, d, -1)
    BY <1>3, <2>1
  <2>3. DisableEdge(U, e) = More(S, d, -1)
    BY <2>2, EdgeStep
  <2>4. QED
    BY <2>3 DEF DisableStep
<1>6. S \in V[{}] /\ S \in W[{}]
  BY <1>2
<1> HIDE DEF V, W
<1>7. EnableFold!Folded(0, D, S) \in V[D]
  BY <1>1, <1>4, <1>6, EnableFold!FoldReaches DEF IsFiniteSet, EnableFold!IsFiniteSet
<1>8. DisableFold!Folded(0, D, S) \in W[D]
  BY <1>1, <1>5, <1>6, DisableFold!FoldReaches DEF IsFiniteSet, DisableFold!IsFiniteSet
<1>9. FoldSet(LAMBDA e, U : EnableEdge(U, e), S, D) = EnableFold!Folded(0, D, S)
  BY DEF FoldSet, MapThenFoldSet, EnableFold!Folded, EnableStep
<1>10. FoldSet(LAMBDA e, U : DisableEdge(U, e), S, D) = DisableFold!Folded(0, D, S)
  BY DEF FoldSet, MapThenFoldSet, DisableFold!Folded, DisableStep
<1>11. QED
  BY <1>7, <1>8, <1>9, <1>10 DEF V, W

LEMMA FitsKept ==
    ASSUME NEW s, NEW S, NEW T, SameBase(S, T)
    PROVE  /\ SameKeys(S, T) /\ KeysFit(s, S) => KeysFit(s, T)
           /\ SameButtons(S, T) /\ ButtonsFit(S) => ButtonsFit(T)
           /\ SameEdges(S, T) /\ EdgesFit(S) => EdgesFit(T)
<1>1. /\ \A key : RealKey(T, key) = RealKey(S, key)
      /\ \A k : Combos(T, k) = Combos(S, k)
      /\ T.buttonGrabs = S.buttonGrabs => ButtonCombinations(T) = ButtonCombinations(S)
  BY MappedSame DEF SameBase
<1>2. SameKeys(S, T) /\ KeysFit(s, S) => KeysFit(s, T)
  BY <1>1 DEF SameKeys, SameBase, KeysFit
<1>3. SameButtons(S, T) /\ ButtonsFit(S) => ButtonsFit(T)
  BY <1>1 DEF SameButtons, ButtonsFit
<1>4. SameEdges(S, T) /\ EdgesFit(S) => EdgesFit(T)
  BY DEF SameEdges, EdgesFit
<1>5. QED
  BY <1>2, <1>3, <1>4

\* Amounts, when one more or less has an entry
LEMMA MoreOf ==
    ASSUME NEW f, Positive(f), NEW k, k \notin DOMAIN f
    PROVE  /\ Positive(Extend(f, k, 1)) /\ DOMAIN Extend(f, k, 1) = DOMAIN f \cup {k}
           /\ \A l : Amount(Extend(f, k, 1), l) = Amount(f, l) + One(l = k)
<1>1. IsFiniteSet(DOMAIN f \cup {k})
  BY FS_AddElement DEF Positive
<1>2. DOMAIN Extend(f, k, 1) = DOMAIN f \cup {k}
  BY DEF Extend
<1>3. Extend(f, k, 1) \in [DOMAIN f \cup {k} -> Nat \ {0}]
  BY DEF Extend, Positive
<1>4. \A l : Amount(Extend(f, k, 1), l) = Amount(f, l) + One(l = k)
  BY DEF Extend, Amount, One, Positive
<1>5. QED
  BY <1>1, <1>2, <1>3, <1>4 DEF Positive

LEMMA CountedUp ==
    ASSUME NEW f, Positive(f), NEW k \in DOMAIN f
    PROVE  LET g == [f EXCEPT ![k] = @ + 1]
           IN  /\ Positive(g) /\ DOMAIN g = DOMAIN f
               /\ \A l : Amount(g, l) = Amount(f, l) + One(l = k)
  BY DEF Positive, Amount, One

LEMMA CountedDown ==
    ASSUME NEW f, Positive(f), NEW k \in DOMAIN f, f[k] > 1
    PROVE  LET g == [f EXCEPT ![k] = @ - 1]
           IN  /\ Positive(g) /\ DOMAIN g = DOMAIN f
               /\ \A l : Amount(g, l) = Amount(f, l) - One(l = k)
  BY DEF Positive, Amount, One

LEMMA LessOf ==
    ASSUME NEW f, Positive(f), NEW k \in DOMAIN f, ~(f[k] > 1)
    PROVE  /\ Positive(Without(f, k)) /\ DOMAIN Without(f, k) = DOMAIN f \ {k}
           /\ \A l : Amount(Without(f, k), l) = Amount(f, l) - One(l = k)
<1>1. IsFiniteSet(DOMAIN f \ {k})
  BY FS_RemoveElement DEF Positive
<1>2. f[k] = 1 /\ \A l \in DOMAIN f : f[l] \in Nat
  BY DEF Positive
<1>3. DOMAIN Without(f, k) = DOMAIN f \ {k} /\ \A l \in DOMAIN f \ {k} : Without(f, k)[l] = f[l]
  BY DEF Without
<1>4. Positive(Without(f, k))
  BY <1>1, <1>3 DEF Positive, Without
<1>5. ASSUME NEW l PROVE Amount(Without(f, k), l) = Amount(f, l) - One(l = k)
  <2>1. CASE l = k
    BY <1>2, <1>3, <2>1 DEF Amount, One
  <2>2. CASE l # k
    BY <1>2, <1>3, <2>2 DEF Amount, One
  <2>3. QED
    BY <2>1, <2>2
<1>6. QED
  BY <1>3, <1>4, <1>5

-----------------------------------------------------------------------------
(* Buttons.                                                                *)

LEMMA CombinationsKept ==
    ASSUME NEW S, NEW T, Mapped(S, T), DOMAIN T.buttonGrabs = DOMAIN S.buttonGrabs
    PROVE  ButtonCombinations(T) = ButtonCombinations(S)
<1> DEFINE Of(U, b) == IF Unmapped \in VirtualToReal(U, b[2]) THEN {}
                       ELSE {<<b[1], VirtualToReal(U, b[2]) \cup i>> : i \in SUBSET Ignored(U)}
<1>1. (\A mods : VirtualToReal(T, mods) = VirtualToReal(S, mods)) /\ Ignored(T) = Ignored(S)
  BY MappedSame
<1>2. \A b : Of(T, b) = Of(S, b)
  BY <1>1
<1>3. /\ ButtonCombinations(S) = UNION {Of(S, b) : b \in DOMAIN S.buttonGrabs}
      /\ ButtonCombinations(T) = UNION {Of(T, b) : b \in DOMAIN T.buttonGrabs}
  BY DEF ButtonCombinations
<1> HIDE DEF Of
<1>4. QED
  BY <1>2, <1>3

LEMMA ButtonsUpdated ==
    ASSUME NEW s \in Sessions, NEW S, Recorded(s, S), Positive(S.buttonGrabs)
    PROVE  LET T == UpdatePassiveButtonGrabs(S)
           IN  /\ Recorded(s, T) /\ ButtonsFit(T) /\ SameBase(S, T)
               /\ SameKeys(S, T) /\ SameEdges(S, T) /\ T.buttonGrabs = S.buttonGrabs
               /\ T.granted = S.granted
<1> DEFINE T == UpdatePassiveButtonGrabs(S)
<1>1. /\ Recorded(s, T) /\ SameBase(S, T) /\ SameKeys(S, T) /\ SameEdges(S, T)
      /\ T.buttonGrabs = S.buttonGrabs /\ T.granted = S.granted
      /\ T.frames = [w \in DOMAIN S.frames |-> ButtonCombinations(S)]
  BY DEF UpdatePassiveButtonGrabs, Recorded, Record, SameBase, Mapped, SameKeys, SameEdges
<1>2. ButtonCombinations(T) = ButtonCombinations(S)
  BY <1>1, MappedSame DEF SameBase
<1>3. ButtonsFit(T)
  BY <1>1, <1>2 DEF ButtonsFit
<1>4. QED
  BY <1>1, <1>3

\* What all of the operators on grabs keep
OnlyButtons(s, S, T) ==
    /\ Recorded(s, T) /\ SameBase(S, T) /\ SameKeys(S, T) /\ SameEdges(S, T)
    /\ T.granted = S.granted

LEMMA ButtonAdded ==
    ASSUME NEW s \in Sessions, NEW S, Recorded(s, S), ButtonsFit(S), NEW button
    PROVE  LET T == AddPassiveButtonGrab(S, button)
           IN  /\ OnlyButtons(s, S, T) /\ ButtonsFit(T)
               /\ \A b : Amount(T.buttonGrabs, b) =
                          Amount(S.buttonGrabs, b) + One(b = <<button.code, button.mods>>)
<1> DEFINE b == <<button.code, button.mods>>
           g == S.buttonGrabs
           T == AddPassiveButtonGrab(S, button)
<1>1. Positive(g)
  BY DEF ButtonsFit
<1>2. CASE b \in DOMAIN g
  <2> DEFINE h == [g EXCEPT ![b] = @ + 1]
  <2>1. T = [S EXCEPT !.buttonGrabs = h]
    BY <1>2 DEF AddPassiveButtonGrab, Recorded, Record
  <2>2. Positive(h) /\ DOMAIN h = DOMAIN g /\ \A c : Amount(h, c) = Amount(g, c) + One(c = b)
    BY <1>1, <1>2, CountedUp
  <2> HIDE DEF h, b, T
  <2>3. OnlyButtons(s, S, T) /\ T.buttonGrabs = h /\ T.frames = S.frames
    BY <2>1 DEF Recorded, Record, SameBase, Mapped, SameKeys, SameEdges, OnlyButtons
  <2>4. ButtonCombinations(T) = ButtonCombinations(S)
    <3>1. DOMAIN T.buttonGrabs = DOMAIN S.buttonGrabs /\ Mapped(S, T)
      BY <2>2, <2>3 DEF OnlyButtons, SameBase
    <3>2. QED
      BY <3>1, CombinationsKept
  <2>5. ButtonsFit(T)
    BY <2>2, <2>3, <2>4 DEF ButtonsFit
  <2>6. QED
    BY <2>2, <2>3, <2>5 DEF b, T
<1>3. CASE b \notin DOMAIN g
  <2> DEFINE h == Extend(g, b, 1)
             U == [S EXCEPT !.buttonGrabs = h]
  <2>1. T = UpdatePassiveButtonGrabs(U)
    BY <1>3 DEF AddPassiveButtonGrab
  <2>2. Positive(h) /\ \A c : Amount(h, c) = Amount(g, c) + One(c = b)
    <3> HIDE DEF b, g
    <3>1. b \notin DOMAIN g
      BY <1>3
    <3>2. Positive(h)
      BY <1>1, <3>1, MoreOf
    <3>3. \A c : Amount(h, c) = Amount(g, c) + One(c = b)
      BY <1>1, <3>1, MoreOf DEF One
    <3>4. QED
      BY <3>2, <3>3
  <2> HIDE DEF h, b, T
  <2>3. OnlyButtons(s, S, U) /\ U.buttonGrabs = h
    BY DEF Recorded, Record, SameBase, Mapped, SameKeys, SameEdges, OnlyButtons
  <2> HIDE DEF U
  <2>4. OnlyButtons(s, U, T) /\ ButtonsFit(T) /\ T.buttonGrabs = h
    BY <2>1, <2>2, <2>3, ButtonsUpdated DEF OnlyButtons
  <2>5. OnlyButtons(s, S, T)
    BY <2>3, <2>4 DEF OnlyButtons, SameBase, Mapped, SameKeys, SameEdges
  <2>6. QED
    BY <2>2, <2>4, <2>5 DEF b, T
<1>4. QED
  BY <1>2, <1>3

LEMMA ButtonRemoved ==
    ASSUME NEW s \in Sessions, NEW S, Recorded(s, S), ButtonsFit(S), NEW button,
           Amount(S.buttonGrabs, <<button.code, button.mods>>) # 0
    PROVE  LET T == RemovePassiveButtonGrab(S, button)
           IN  /\ OnlyButtons(s, S, T) /\ ButtonsFit(T)
               /\ \A b : Amount(T.buttonGrabs, b) =
                          Amount(S.buttonGrabs, b) - One(b = <<button.code, button.mods>>)
<1> DEFINE b == <<button.code, button.mods>>
           g == S.buttonGrabs
           T == RemovePassiveButtonGrab(S, button)
<1>1. Positive(g) /\ b \in DOMAIN g
  BY DEF ButtonsFit, Amount
<1>2. CASE g[b] > 1
  <2> DEFINE h == [g EXCEPT ![b] = @ - 1]
  <2>1. T = [S EXCEPT !.buttonGrabs = h]
    BY <1>1, <1>2 DEF RemovePassiveButtonGrab, Recorded, Record
  <2>2. Positive(h) /\ DOMAIN h = DOMAIN g /\ \A c : Amount(h, c) = Amount(g, c) - One(c = b)
    BY <1>1, <1>2, CountedDown
  <2> HIDE DEF h, b, T
  <2>3. OnlyButtons(s, S, T) /\ T.buttonGrabs = h /\ T.frames = S.frames
    BY <2>1 DEF Recorded, Record, SameBase, Mapped, SameKeys, SameEdges, OnlyButtons
  <2>4. ButtonCombinations(T) = ButtonCombinations(S)
    <3>1. DOMAIN T.buttonGrabs = DOMAIN S.buttonGrabs /\ Mapped(S, T)
      BY <2>2, <2>3 DEF OnlyButtons, SameBase
    <3>2. QED
      BY <3>1, CombinationsKept
  <2>5. ButtonsFit(T)
    BY <2>2, <2>3, <2>4 DEF ButtonsFit
  <2>6. QED
    BY <2>2, <2>3, <2>5 DEF b, T
<1>3. CASE ~(g[b] > 1)
  <2> DEFINE h == Without(g, b)
             U == [S EXCEPT !.buttonGrabs = h]
  <2>1. T = UpdatePassiveButtonGrabs(U)
    BY <1>1, <1>3 DEF RemovePassiveButtonGrab
  <2>2. Positive(h) /\ \A c : Amount(h, c) = Amount(g, c) - One(c = b)
    <3> HIDE DEF b, g
    <3>1. QED
      BY ZenonT(30), <1>1, <1>3, LessOf
  <2> HIDE DEF h, b, T
  <2>3. OnlyButtons(s, S, U) /\ U.buttonGrabs = h
    BY DEF Recorded, Record, SameBase, Mapped, SameKeys, SameEdges, OnlyButtons
  <2> HIDE DEF U
  <2>4. OnlyButtons(s, U, T) /\ ButtonsFit(T) /\ T.buttonGrabs = h
    BY <2>1, <2>2, <2>3, ButtonsUpdated DEF OnlyButtons
  <2>5. OnlyButtons(s, S, T)
    BY <2>3, <2>4 DEF OnlyButtons, SameBase, Mapped, SameKeys, SameEdges
  <2>6. QED
    BY <2>2, <2>4, <2>5 DEF b, T
<1>4. QED
  BY <1>2, <1>3

-----------------------------------------------------------------------------
(* Keys.                                                                   *)

\* What all of the operators on grabs of keys keep
OnlyKeys(s, S, T) ==
    /\ Recorded(s, T) /\ SameBase(S, T) /\ SameButtons(S, T) /\ SameEdges(S, T)

LEMMA KeyFields ==
    ASSUME NEW s \in Sessions, NEW S, Recorded(s, S), NEW r, NEW l, NEW g \in BOOLEAN, NEW k
    PROVE  /\ LET T == [S EXCEPT !.rootKeys = r, !.granted = g, !.left = l]
              IN  /\ OnlyKeys(s, S, T) /\ T.keyGrabs = S.keyGrabs
                  /\ T.rootKeys = r /\ T.granted = g /\ T.left = l
           /\ LET T == [S EXCEPT !.keyGrabs = k]
              IN  /\ OnlyKeys(s, S, T) /\ T.keyGrabs = k /\ T.rootKeys = S.rootKeys
                  /\ T.granted = S.granted /\ T.left = S.left
           /\ LET T == [S EXCEPT !.rootKeys = r]
              IN  /\ OnlyKeys(s, S, T) /\ T.keyGrabs = S.keyGrabs /\ T.rootKeys = r
                  /\ T.granted = S.granted /\ T.left = S.left
           /\ LET T == [S EXCEPT !.granted = g]
              IN  OnlyKeys(s, S, T) /\ SameKeys(S, T) /\ T.granted = g
  BY DEF Recorded, Record, SameBase, Mapped, SameKeys, SameButtons, SameEdges, OnlyKeys

LEMMA KeysGranted ==
    ASSUME NEW s \in Sessions, NEW S, Recorded(s, S), NEW mods, NEW code
    PROVE  LET T == GrabKeys(S, mods, code)
               C == AllCombinations(S, mods, code)
           IN  /\ OnlyKeys(s, S, T) /\ T.keyGrabs = S.keyGrabs /\ S.left \subseteq T.left
               /\ S.rootKeys \subseteq T.rootKeys
               /\ Unmapped \notin mods =>
                     /\ T.rootKeys \subseteq S.rootKeys \cup C
                     /\ ~T.granted => T.rootKeys \subseteq S.rootKeys \cup T.left
                     /\ T.granted <=> C \cap S.foreign = {}
                     /\ T.granted => C \subseteq T.rootKeys
<1> DEFINE refused == {i \in SUBSET Ignored(S) : Combinations(S, mods, code, i) \cap S.foreign # {}}
           tried == {i \in SUBSET Ignored(S) : ~\E j \in refused : Before(j, i)}
           some == UNION {Combinations(S, mods, code, i) : i \in tried}
           granted == some \ S.foreign
           C == AllCombinations(S, mods, code)
           T == GrabKeys(S, mods, code)
<1>1. T = [S EXCEPT !.rootKeys = @ \cup granted, !.granted = refused = {},
                    !.left = IF refused = {} THEN @ ELSE @ \cup granted]
  BY DEF GrabKeys
<1>2. ASSUME Unmapped \notin mods
      PROVE  C = UNION {Combinations(S, mods, code, i) : i \in SUBSET Ignored(S)}
  BY <1>2 DEF AllCombinations
<1>3. Unmapped \notin mods => granted \subseteq C /\ (refused = {} <=> C \cap S.foreign = {})
  BY <1>2
<1>4. Unmapped \notin mods /\ refused = {} => C \subseteq granted
  <2>1. refused = {} => tried = SUBSET Ignored(S)
    OBVIOUS
  <2>2. Unmapped \notin mods /\ refused = {} => C \cap S.foreign = {}
    BY <1>3
  <2>3. ASSUME Unmapped \notin mods, refused = {}, NEW x \in C PROVE x \in granted
    <3>1. PICK m \in SUBSET Ignored(S) : x \in Combinations(S, mods, code, m)
      BY <1>2, <2>3
    <3>2. x \notin S.foreign /\ m \in tried
      BY <2>1, <2>2, <2>3
    <3>3. x \in some
      BY <3>1, <3>2
    <3> HIDE DEF some
    <3>4. QED
      BY <3>2, <3>3
  <2>4. QED
    BY <2>3
<1> HIDE DEF refused, granted, C, T
<1> DEFINE all == refused = {}
           left == IF refused = {} THEN S.left ELSE S.left \cup granted
<1>5. T = [S EXCEPT !.rootKeys = S.rootKeys \cup granted, !.granted = all, !.left = left]
  BY <1>1
<1>6. all \in BOOLEAN
  OBVIOUS
<1> HIDE DEF all, left
<1>7. /\ OnlyKeys(s, S, T) /\ T.keyGrabs = S.keyGrabs /\ T.rootKeys = S.rootKeys \cup granted
      /\ T.granted = all /\ T.left = left
  <2> DEFINE keys == S.rootKeys \cup granted
  <2>1. T = [S EXCEPT !.rootKeys = keys, !.granted = all, !.left = left]
    BY <1>5
  <2> HIDE DEF keys
  <2>2. LET U == [S EXCEPT !.rootKeys = keys, !.granted = all, !.left = left]
        IN  /\ OnlyKeys(s, S, U) /\ U.keyGrabs = S.keyGrabs
            /\ U.rootKeys = keys /\ U.granted = all /\ U.left = left
    BY <1>6 DEF Recorded, Record, SameBase, Mapped, SameButtons, SameEdges, OnlyKeys
  <2>3. QED
    BY <2>1, <2>2 DEF keys
<1>8. QED
  BY <1>3, <1>4, <1>7 DEF C, T, all, left

LEMMA SameGrabbed ==
    ASSUME NEW s, NEW S, NEW T, SameBase(S, T), KeysFit(s, S), Positive(T.keyGrabs),
           DOMAIN T.keyGrabs = DOMAIN S.keyGrabs, T.rootKeys = S.rootKeys, T.left = S.left
    PROVE  KeysFit(s, T)
<1>1. /\ \A key : RealKey(T, key) = RealKey(S, key)
      /\ \A k : Combos(T, k) = Combos(S, k)
  BY MappedSame DEF SameBase
<1>2. QED
  BY <1>1 DEF SameBase, KeysFit

LEMMA UnderMask ==
    ASSUME NEW s \in Sessions, NEW S, Recorded(s, S)
    PROVE  /\ S.modMask \in Masks(s) /\ Mapped(Under(s, S.modMask), S)
           /\ Under(s, S.modMask).foreign = S.foreign
<1> DEFINE B == s.start
           m == S.modMask
<1>1. B \in Unbegun(Option(s), Edge(s), B)
  BY SessionsAssumption DEF Option, Edge
<1>2. /\ [B EXCEPT !.modMask = m].modMask = m
      /\ [B EXCEPT !.modMask = m].modMap = B.modMap
      /\ [B EXCEPT !.modMask = m].foreign = B.foreign
  <2> HIDE DEF B, m
  <2>1. QED
    BY <1>1 DEF Unbegun
<1>3. m \in Masks(s) /\ S.modMap = B.modMap /\ S.foreign = B.foreign
  BY DEF Recorded, Record
<1>4. QED
  BY <1>2, <1>3 DEF Under, Mapped

\* Keys that are apart
LEMMA Apart ==
    ASSUME NEW s \in Sessions, NEW S, Recorded(s, S), KeysApart,
           NEW a \in KeyStrings(s), NEW b \in KeyStrings(s), RealKey(S, a) # RealKey(S, b)
    PROVE  Combos(S, RealKey(S, a)) \cap Combos(S, RealKey(S, b)) = {}
<1> DEFINE U == Under(s, S.modMask)
<1>1. S.modMask \in Masks(s) /\ Mapped(U, S)
  BY UnderMask
<1>2. /\ \A key : RealKey(S, key) = RealKey(U, key)
      /\ \A k : Combos(S, k) = Combos(U, k)
  BY <1>1, MappedSame
<1>3. \/ RealKey(U, b) = RealKey(U, a)
      \/ Combos(U, RealKey(U, a)) \cap Combos(U, RealKey(U, b)) = {}
  BY <1>1 DEF KeysApart
<1>4. QED
  BY <1>2, <1>3

LEMMA KeyAdded ==
    ASSUME NEW s \in Sessions, NEW S, Recorded(s, S), KeysFit(s, S), NEW key \in KeyStrings(s)
    PROVE  LET T == AddPassiveKeyGrab(S, key)
               k == RealKey(S, key)
           IN  /\ OnlyKeys(s, S, T) /\ KeysFit(s, T)
               /\ ~T.granted => T.keyGrabs = S.keyGrabs
               /\ T.granted =>
                     \A l : Amount(T.keyGrabs, l) = Amount(S.keyGrabs, l) + One(l = k)
<1> DEFINE mask == VirtualToReal(S, key.mods)
           k == <<key.code, mask>>
           f == S.keyGrabs
           T == AddPassiveKeyGrab(S, key)
<1>1. Positive(f) /\ k = RealKey(S, key)
  BY DEF KeysFit, RealKey
<1>2. CASE k \in DOMAIN f
  <2> DEFINE h == [f EXCEPT ![k] = @ + 1]
  <2>1. T = [S EXCEPT !.keyGrabs = h, !.granted = TRUE]
    BY <1>2 DEF AddPassiveKeyGrab, Recorded, Record
  <2>2. Positive(h) /\ DOMAIN h = DOMAIN f /\ \A l : Amount(h, l) = Amount(f, l) + One(l = k)
    BY <1>1, <1>2, CountedUp
  <2> HIDE DEF h, k, T
  <2>3. /\ OnlyKeys(s, S, T) /\ T.keyGrabs = h /\ T.rootKeys = S.rootKeys
        /\ T.left = S.left /\ T.granted
    BY <2>1 DEF Recorded, Record, SameBase, Mapped, SameButtons, SameEdges, OnlyKeys
  <2>4. KeysFit(s, T)
    BY <2>2, <2>3, SameGrabbed DEF OnlyKeys
  <2>5. QED
    BY <1>1, <2>2, <2>3, <2>4 DEF T
<1>3. CASE k \notin DOMAIN f
  <2> DEFINE U == IF Unmapped \in mask THEN [S EXCEPT !.granted = TRUE]
                  ELSE GrabKeys(S, mask, key.code)
             h == Extend(f, k, 1)
             C == Combos(S, k)
  <2>1. C = AllCombinations(S, mask, key.code) /\ (Unmapped \in mask => C = {})
    BY DEF Combos, AllCombinations
  <2>2. /\ OnlyKeys(s, S, U) /\ U.keyGrabs = f /\ S.left \subseteq U.left
        /\ S.rootKeys \subseteq U.rootKeys
        /\ U.rootKeys \subseteq S.rootKeys \cup C
        /\ ~U.granted => U.rootKeys \subseteq S.rootKeys \cup U.left
        /\ U.granted => C \cap S.foreign = {} /\ C \subseteq U.rootKeys
    <3>1. CASE Unmapped \in mask
      <4>1. U = [S EXCEPT !.granted = TRUE]
        BY <3>1
      <4> HIDE DEF U
      <4>2. OnlyKeys(s, S, U) /\ SameKeys(S, U) /\ U.granted
        BY <4>1, KeyFields
      <4>3. QED
        BY <2>1, <3>1, <4>2 DEF SameKeys
    <3>2. CASE Unmapped \notin mask
      <4>1. U = GrabKeys(S, mask, key.code)
        BY <3>2
      <4> HIDE DEF U, mask, C
      <4>2. QED
        BY <2>1, <3>2, <4>1, KeysGranted
    <3>3. QED
      BY <3>1, <3>2
  <2>3. T = IF U.granted THEN [U EXCEPT !.keyGrabs = h] ELSE U
    <3>1. T = IF U.granted THEN [U EXCEPT !.keyGrabs = Extend(@, k, 1)] ELSE U
      BY <1>3 DEF AddPassiveKeyGrab
    <3> HIDE DEF U, T, k
    <3>2. QED
      BY <2>2, <3>1
  <2>4. /\ Positive(h) /\ DOMAIN h = DOMAIN f \cup {k}
        /\ \A l : Amount(h, l) = Amount(f, l) + One(l = k)
    <3> HIDE DEF f, k
    <3>1. QED
      BY <1>1, <1>3, MoreOf
  <2> HIDE DEF U, h, C, T, k
  <2>5. /\ OnlyKeys(s, S, T) /\ T.granted = U.granted /\ T.rootKeys = U.rootKeys
        /\ T.left = U.left /\ T.keyGrabs = IF U.granted THEN h ELSE f
    <3>1. CASE U.granted
      <4>1. Recorded(s, U) /\ U.granted \in BOOLEAN
        BY <2>2 DEF OnlyKeys, Recorded, Record
      <4>2. /\ OnlyKeys(s, U, T) /\ T.keyGrabs = h /\ T.rootKeys = U.rootKeys
            /\ T.granted = U.granted /\ T.left = U.left
        <5>1. T = [U EXCEPT !.keyGrabs = h]
          BY <2>3, <3>1
        <5>2. QED
          BY <4>1, <5>1
             DEF Recorded, Record, SameBase, Mapped, SameButtons, SameEdges, OnlyKeys
      <4>3. OnlyKeys(s, S, T)
        BY <2>2, <4>2 DEF OnlyKeys, SameBase, Mapped, SameButtons, SameEdges
      <4>4. QED
        BY <3>1, <4>2, <4>3
    <3>2. CASE ~U.granted
      BY <2>2, <2>3, <3>2
    <3>3. QED
      BY <3>1, <3>2
  <2>6. /\ \A a : RealKey(T, a) = RealKey(S, a)
        /\ \A l : Combos(T, l) = Combos(S, l)
        /\ T.foreign = S.foreign /\ T.moved = S.moved
    BY <2>5, MappedSame DEF OnlyKeys, SameBase
  <2>7. KeysFit(s, T)
    <3>1. Positive(T.keyGrabs)
      BY <1>1, <2>4, <2>5
    <3>2. T.rootKeys \subseteq (UNION {Combos(T, l) : l \in DOMAIN T.keyGrabs}) \cup T.left
      <4>1. S.rootKeys \subseteq (UNION {Combos(S, l) : l \in DOMAIN f}) \cup S.left
        BY DEF KeysFit
      <4>2. CASE U.granted
        <5>1. DOMAIN T.keyGrabs = DOMAIN f \cup {k}
          BY <2>4, <2>5, <4>2
        <5>2. C = Combos(T, k)
          BY <2>6 DEF C
        <5>3. ASSUME NEW x \in T.rootKeys, x \notin T.left
              PROVE  \E l \in DOMAIN T.keyGrabs : x \in Combos(T, l)
          <6>1. x \in S.rootKeys \/ x \in C
            BY <2>2, <2>5
          <6>2. x \notin S.left
            BY <2>2, <2>5, <5>3
          <6>3. QED
            BY <2>6, <4>1, <5>1, <5>2, <6>1, <6>2
        <5>4. QED
          BY <5>3
      <4>3. CASE ~U.granted
        <5>1. DOMAIN T.keyGrabs = DOMAIN f
          BY <2>5, <4>3
        <5>2. ASSUME NEW x \in T.rootKeys, x \notin T.left
              PROVE  \E l \in DOMAIN T.keyGrabs : x \in Combos(T, l)
          <6>1. x \in S.rootKeys /\ x \notin S.left
            BY <2>2, <2>5, <4>3, <5>2
          <6>2. QED
            BY <2>6, <4>1, <5>1, <6>1
        <5>3. QED
          BY <5>2
      <4>4. QED
        BY <4>2, <4>3
    <3>3. T.moved = {} => \A l \in DOMAIN T.keyGrabs : \E a \in KeyStrings(s) : l = RealKey(T, a)
      <4>1. S.moved = {} => \A l \in DOMAIN f : \E a \in KeyStrings(s) : l = RealKey(S, a)
        BY DEF KeysFit
      <4>2. DOMAIN T.keyGrabs \subseteq DOMAIN f \cup {k}
        BY <2>4, <2>5
      <4>3. QED
        BY <1>1, <2>6, <4>1, <4>2
    <3>4. ASSUME KeysApart, T.moved = {}, NEW l \in DOMAIN T.keyGrabs
          PROVE  Combos(T, l) \subseteq T.rootKeys /\ Combos(T, l) \cap T.foreign = {}
      <4>1. CASE l \in DOMAIN f
        <5>1. Combos(S, l) \subseteq S.rootKeys /\ Combos(S, l) \cap S.foreign = {}
          BY <2>6, <3>4, <4>1 DEF KeysFit
        <5>2. QED
          BY <2>2, <2>5, <2>6, <5>1
      <4>2. CASE l \notin DOMAIN f
        <5>1. l = k /\ U.granted
          BY <2>4, <2>5, <3>4, <4>2
        <5>2. QED
          BY <2>2, <2>5, <2>6, <5>1 DEF C
      <4>3. QED
        BY <4>1, <4>2
    <3>5. QED
      BY <3>1, <3>2, <3>3, <3>4 DEF KeysFit
  <2>8. QED
    BY <1>1, <2>4, <2>5, <2>7 DEF T
<1>4. QED
  BY <1>2, <1>3

LEMMA KeyRemoved ==
    ASSUME NEW s \in Sessions, NEW S, Recorded(s, S), KeysFit(s, S), NEW key \in KeyStrings(s)
    PROVE  LET T == RemovePassiveKeyGrab(S, key)
               k == RealKey(S, key)
           IN  /\ OnlyKeys(s, S, T) /\ KeysFit(s, T)
               /\ Amount(S.keyGrabs, k) # 0 =>
                     \A l : Amount(T.keyGrabs, l) = Amount(S.keyGrabs, l) - One(l = k)
<1> DEFINE mask == VirtualToReal(S, key.mods)
           k == <<key.code, mask>>
           f == S.keyGrabs
           T == RemovePassiveKeyGrab(S, key)
<1>1. Positive(f) /\ k = RealKey(S, key)
  BY DEF KeysFit, RealKey
<1>2. CASE k \notin DOMAIN f
  <2>1. T = S
    BY <1>2 DEF RemovePassiveKeyGrab
  <2>2. OnlyKeys(s, S, S)
    BY DEF OnlyKeys, SameBase, Mapped, SameButtons, SameEdges
  <2>3. QED
    BY <1>1, <1>2, <2>1, <2>2 DEF Amount
<1>3. CASE k \in DOMAIN f /\ f[k] > 1
  <2> DEFINE h == [f EXCEPT ![k] = @ - 1]
  <2>1. T = [S EXCEPT !.keyGrabs = h]
    BY <1>3 DEF RemovePassiveKeyGrab, Recorded, Record
  <2>2. Positive(h) /\ DOMAIN h = DOMAIN f /\ \A l : Amount(h, l) = Amount(f, l) - One(l = k)
    BY <1>1, <1>3, CountedDown
  <2> HIDE DEF h, k, T
  <2>3. OnlyKeys(s, S, T) /\ T.keyGrabs = h /\ T.rootKeys = S.rootKeys /\ T.left = S.left
    BY <2>1 DEF Recorded, Record, SameBase, Mapped, SameButtons, SameEdges, OnlyKeys
  <2>4. KeysFit(s, T)
    BY <2>2, <2>3, SameGrabbed DEF OnlyKeys
  <2>5. QED
    BY <1>1, <2>2, <2>3, <2>4 DEF T
<1>4. CASE k \in DOMAIN f /\ ~(f[k] > 1)
  <2> DEFINE h == Without(f, k)
             U == [S EXCEPT !.keyGrabs = h]
             C == Combos(S, k)
  <2>1. T = IF Unmapped \in mask THEN U ELSE UngrabKeys(U, mask, key.code)
    <3>1. [S EXCEPT !.keyGrabs = Without(@, k)] = U
      BY DEF Recorded, Record
    <3> HIDE DEF h, U
    <3>2. QED
      BY <1>4, <3>1 DEF RemovePassiveKeyGrab
  <2>2. /\ Positive(h) /\ DOMAIN h = DOMAIN f \ {k}
        /\ \A l : Amount(h, l) = Amount(f, l) - One(l = k)
    <3> HIDE DEF f, k
    <3>1. QED
      BY ZenonT(30), <1>1, <1>4, LessOf
  <2>3. C = AllCombinations(S, mask, key.code) /\ (Unmapped \in mask => C = {})
    BY DEF Combos, AllCombinations
  <2> HIDE DEF h, C, T, k
  <2>4. /\ OnlyKeys(s, S, U) /\ U.keyGrabs = h /\ U.rootKeys = S.rootKeys /\ U.left = S.left
        /\ Mapped(S, U)
    BY DEF Recorded, Record, SameBase, Mapped, SameButtons, SameEdges, OnlyKeys
  <2> HIDE DEF U
  <2>5. /\ OnlyKeys(s, S, T) /\ T.keyGrabs = h /\ T.rootKeys = S.rootKeys \ C
        /\ T.left = S.left
    <3>1. CASE Unmapped \in mask
      BY <2>1, <2>3, <2>4, <3>1
    <3>2. CASE Unmapped \notin mask
      <4>1. AllCombinations(U, mask, key.code) = C
        BY <2>3, <2>4, MappedSame
      <4>2. T = [U EXCEPT !.rootKeys = U.rootKeys \ C]
        BY <2>1, <3>2, <4>1 DEF UngrabKeys
      <4>3. OnlyKeys(s, U, T) /\ T.keyGrabs = h /\ T.rootKeys = S.rootKeys \ C /\ T.left = U.left
        <5> DEFINE r == U.rootKeys \ C
        <5>1. T = [U EXCEPT !.rootKeys = r] /\ Recorded(s, U)
          BY <2>4, <4>2 DEF OnlyKeys
        <5> HIDE DEF r
        <5>2. OnlyKeys(s, U, T) /\ T.keyGrabs = U.keyGrabs /\ T.rootKeys = r /\ T.left = U.left
          BY <5>1 DEF Recorded, Record, SameBase, Mapped, SameButtons, SameEdges, OnlyKeys
        <5>3. QED
          BY <2>4, <5>2 DEF r
      <4>4. QED
        BY <2>4, <4>3 DEF OnlyKeys, SameBase, Mapped, SameButtons, SameEdges
    <3>3. QED
      BY <3>1, <3>2
  <2>6. /\ \A a : RealKey(T, a) = RealKey(S, a)
        /\ \A l : Combos(T, l) = Combos(S, l)
        /\ T.foreign = S.foreign /\ T.moved = S.moved
    BY <2>5, MappedSame DEF OnlyKeys, SameBase
  <2>7. KeysFit(s, T)
    <3>1. Positive(T.keyGrabs)
      BY <2>2, <2>5
    <3>2. T.rootKeys \subseteq (UNION {Combos(T, l) : l \in DOMAIN T.keyGrabs}) \cup T.left
      <4>1. S.rootKeys \subseteq (UNION {Combos(S, l) : l \in DOMAIN f}) \cup S.left
        BY DEF KeysFit
      <4>2. DOMAIN T.keyGrabs = DOMAIN f \ {k}
        BY <2>2, <2>5
      <4>3. ASSUME NEW x \in T.rootKeys, x \notin T.left
            PROVE  \E l \in DOMAIN T.keyGrabs : x \in Combos(T, l)
        <5>1. x \in S.rootKeys /\ x \notin C /\ x \notin S.left
          BY <2>5, <4>3
        <5>2. PICK l \in DOMAIN f : x \in Combos(S, l)
          BY <4>1, <5>1
        <5>3. l # k
          BY <5>1, <5>2 DEF C
        <5>4. QED
          BY <2>6, <4>2, <5>2, <5>3
      <4>4. QED
        BY <4>3
    <3>3. T.moved = {} => \A l \in DOMAIN T.keyGrabs : \E a \in KeyStrings(s) : l = RealKey(T, a)
      <4>1. S.moved = {} => \A l \in DOMAIN f : \E a \in KeyStrings(s) : l = RealKey(S, a)
        BY DEF KeysFit
      <4>2. DOMAIN T.keyGrabs \subseteq DOMAIN f
        BY <2>2, <2>5
      <4>3. QED
        BY <2>6, <4>1, <4>2
    <3>4. ASSUME KeysApart, T.moved = {}, NEW l \in DOMAIN T.keyGrabs
          PROVE  Combos(T, l) \subseteq T.rootKeys /\ Combos(T, l) \cap T.foreign = {}
      <4>1. l \in DOMAIN f /\ l # k
        BY <2>2, <2>5, <3>4
      <4>2. Combos(S, l) \subseteq S.rootKeys /\ Combos(S, l) \cap S.foreign = {}
        BY <2>6, <3>4, <4>1 DEF KeysFit
      <4>3. PICK a \in KeyStrings(s) : l = RealKey(S, a)
        BY <2>6, <3>4, <4>1 DEF KeysFit
      <4>4. Combos(S, l) \cap C = {}
        BY <1>1, <3>4, <4>1, <4>3, Apart DEF C
      <4>5. QED
        BY <2>5, <2>6, <4>2, <4>4
    <3>5. QED
      BY <3>1, <3>2, <3>3, <3>4 DEF KeysFit
  <2>8. QED
    BY <1>1, <2>2, <2>5, <2>7 DEF T
<1>5. QED
  BY <1>2, <1>3, <1>4

-----------------------------------------------------------------------------
(* Actions.                                                                *)

SameCounts(S, T) ==
    T.edgeCount = S.edgeCount /\ T.buttonGrabs = S.buttonGrabs /\ T.keyGrabs = S.keyGrabs

\* One more, or one less, where the binding asks for something
Gained(S, T, a) ==
    /\ \A e \in DOMAIN S.edgeCount : T.edgeCount[e] = S.edgeCount[e] + One(e \in a.edges)
    /\ \A b : Amount(T.buttonGrabs, b) = Amount(S.buttonGrabs, b) + One(HasButton(a, b))
    /\ \A k : Amount(T.keyGrabs, k) = Amount(S.keyGrabs, k) + One(HasKey(S, a, k))
Lost(S, T, a) ==
    /\ \A e \in DOMAIN S.edgeCount : T.edgeCount[e] = S.edgeCount[e] - One(e \in a.edges)
    /\ \A b : Amount(T.buttonGrabs, b) = Amount(S.buttonGrabs, b) - One(HasButton(a, b))
    /\ S.moved = {} =>
          \A k : Amount(T.keyGrabs, k) = Amount(S.keyGrabs, k) - One(HasKey(S, a, k))

LEMMA EdgesSound ==
    ASSUME NEW s \in Sessions, NEW S, Sound(s, S), NEW D \in SUBSET Edge(s), NEW n \in {1, -1}
    PROVE  LET T == More(S, D, n)
           IN  /\ Sound(s, T) /\ SameBase(S, T) /\ SameKeys(S, T) /\ SameButtons(S, T)
               /\ T.granted = S.granted
               /\ \A e \in DOMAIN S.edgeCount :
                      T.edgeCount[e] = IF e \in D THEN S.edgeCount[e] + n ELSE S.edgeCount[e]
<1> DEFINE c == Shifted(S.edgeCount, D, n)
           T == More(S, D, n)
<1>1. Recorded(s, S) /\ S.edgeCount \in [Edge(s) -> Int]
  BY DEF Sound, Recorded, Record
<1>2. /\ c \in [Edge(s) -> Int]
      /\ \A e \in DOMAIN S.edgeCount : c[e] = IF e \in D THEN S.edgeCount[e] + n ELSE S.edgeCount[e]
  BY <1>1 DEF Shifted
<1>3. T = With(S, c)
  BY DEF More
<1> HIDE DEF c, T
<1>4. Recorded(s, T) /\ EdgesFit(T) /\ T.edgeCount = c
  BY <1>1, <1>2, <1>3, WithCount
<1>5. /\ SameBase(S, T) /\ SameKeys(S, T) /\ SameButtons(S, T) /\ T.granted = S.granted
  BY <1>1, <1>3 DEF With, Recorded, Record, SameBase, Mapped, SameKeys, SameButtons
<1>6. KeysFit(s, T) /\ ButtonsFit(T)
  BY <1>5, FitsKept DEF Sound
<1>7. QED
  BY <1>2, <1>4, <1>5, <1>6 DEF Sound, T

LEMMA ActionAdded ==
    ASSUME NEW s \in Sessions, NEW S, Sound(s, S), NEW a \in Binding(s),
           "key" \in a.type => a.key \in KeyStrings(s)
    PROVE  LET T == AddAction(S, a)
           IN  /\ Sound(s, T) /\ SameBase(S, T)
               /\ ~T.granted => SameCounts(S, T)
               /\ T.granted => ~a.active /\ S.initialized /\ Gained(S, T, a)
<1> DEFINE T == AddAction(S, a)
           K == IF "key" \in a.type THEN AddPassiveKeyGrab(S, a.key)
                                    ELSE [S EXCEPT !.granted = TRUE]
           B == IF "button" \in a.type THEN AddPassiveButtonGrab(K, a.button) ELSE K
           E == FoldSet(LAMBDA e, U : EnableEdge(U, e), B, a.edges)
<1>1. T = IF ~S.initialized \/ a.active THEN [S EXCEPT !.granted = FALSE]
          ELSE IF K.granted THEN E ELSE K
  BY DEF AddAction
<1>2. Recorded(s, S)
  BY DEF Sound
<1>3. ASSUME NEW g \in BOOLEAN
      PROVE  LET U == [S EXCEPT !.granted = g]
             IN  /\ Sound(s, U) /\ SameBase(S, U) /\ SameKeys(S, U) /\ SameButtons(S, U)
                 /\ SameEdges(S, U) /\ U.granted = g
  <2> DEFINE U == [S EXCEPT !.granted = g]
  <2>1. OnlyKeys(s, S, U) /\ SameKeys(S, U) /\ U.granted = g
    BY <1>2
       DEF Recorded, Record, SameBase, Mapped, SameKeys, SameButtons, SameEdges, OnlyKeys
  <2> HIDE DEF U
  <2>2. /\ Recorded(s, U) /\ SameBase(S, U) /\ SameKeys(S, U) /\ SameButtons(S, U)
        /\ SameEdges(S, U) /\ U.granted = g
    BY <2>1 DEF OnlyKeys
  <2>3. QED
    BY <2>2, FitsKept DEF Sound, U
<1>4. CASE ~S.initialized \/ a.active
  <2>1. T = [S EXCEPT !.granted = FALSE]
    BY <1>1, <1>4
  <2> HIDE DEF T
  <2>2. Sound(s, T) /\ SameBase(S, T) /\ SameKeys(S, T) /\ SameButtons(S, T) /\ SameEdges(S, T)
        /\ T.granted = FALSE
    BY <1>3, <2>1
  <2>3. QED
    BY <2>2 DEF SameKeys, SameButtons, SameEdges, SameCounts, T
<1>5. CASE S.initialized /\ ~a.active
  <2>1. /\ Sound(s, K) /\ SameBase(S, K) /\ SameButtons(S, K) /\ SameEdges(S, K)
        /\ ~K.granted => K.keyGrabs = S.keyGrabs
        /\ K.granted =>
              \A k : Amount(K.keyGrabs, k) = Amount(S.keyGrabs, k) + One(HasKey(S, a, k))
    <3>1. CASE "key" \in a.type
      <4>1. K = AddPassiveKeyGrab(S, a.key) /\ a.key \in KeyStrings(s) /\ KeysFit(s, S)
        BY <3>1 DEF Sound
      <4> HIDE DEF K
      <4>2. /\ OnlyKeys(s, S, K) /\ KeysFit(s, K)
            /\ ~K.granted => K.keyGrabs = S.keyGrabs
            /\ K.granted => \A k : Amount(K.keyGrabs, k) =
                                     Amount(S.keyGrabs, k) + One(k = RealKey(S, a.key))
        BY <1>2, <4>1, KeyAdded
      <4>3. \A k : HasKey(S, a, k) <=> k = RealKey(S, a.key)
        BY <3>1 DEF HasKey
      <4>4. Sound(s, K)
        BY <4>2, FitsKept DEF Sound, OnlyKeys
      <4>5. \A k : One(HasKey(S, a, k)) = One(k = RealKey(S, a.key))
        BY <4>3 DEF One
      <4>6. QED
        BY <4>2, <4>4, <4>5 DEF OnlyKeys
    <3>2. CASE "key" \notin a.type
      <4>1. K = [S EXCEPT !.granted = TRUE]
        BY <3>2
      <4> HIDE DEF K
      <4>2. Sound(s, K) /\ SameBase(S, K) /\ SameKeys(S, K) /\ SameButtons(S, K)
            /\ SameEdges(S, K)
        BY <1>3, <4>1
      <4>3. \A k : One(HasKey(S, a, k)) = 0
        BY <3>2 DEF One, HasKey
      <4>4. Positive(S.keyGrabs)
        BY DEF Sound, KeysFit
      <4>5. \A k : Amount(S.keyGrabs, k) \in Nat
        BY <4>4 DEF Amount, Positive
      <4>6. \A k : Amount(K.keyGrabs, k) = Amount(S.keyGrabs, k) + One(HasKey(S, a, k))
        BY <4>2, <4>3, <4>5 DEF SameKeys
      <4>7. QED
        BY <4>2, <4>6 DEF SameKeys
    <3>3. QED
      BY <3>1, <3>2
  <2> HIDE DEF K
  <2>2. CASE ~K.granted
    BY <1>1, <1>5, <2>1, <2>2 DEF SameButtons, SameEdges, SameCounts
  <2>3. CASE K.granted
    <3>1. /\ Sound(s, B) /\ SameBase(K, B) /\ SameKeys(K, B) /\ SameEdges(K, B) /\ B.granted
          /\ \A b : Amount(B.buttonGrabs, b) = Amount(K.buttonGrabs, b) + One(HasButton(a, b))
      <4>1. CASE "button" \in a.type
        <5>1. B = AddPassiveButtonGrab(K, a.button) /\ Recorded(s, K) /\ ButtonsFit(K)
          BY <2>1, <4>1 DEF Sound
        <5> HIDE DEF B
        <5>2. /\ OnlyButtons(s, K, B) /\ ButtonsFit(B)
              /\ \A b : Amount(B.buttonGrabs, b) =
                         Amount(K.buttonGrabs, b) + One(b = <<a.button.code, a.button.mods>>)
          BY <5>1, ButtonAdded
        <5>3. \A b : HasButton(a, b) <=> b = <<a.button.code, a.button.mods>>
          BY <4>1 DEF HasButton
        <5>4. Sound(s, B)
          BY <2>1, <5>2, FitsKept DEF Sound, OnlyButtons
        <5>5. \A b : One(HasButton(a, b)) = One(b = <<a.button.code, a.button.mods>>)
          BY <5>3 DEF One
        <5>6. QED
          BY <2>3, <5>2, <5>4, <5>5 DEF OnlyButtons
      <4>2. CASE "button" \notin a.type
        <5>1. B = K
          BY <4>2
        <5>2. \A b : One(HasButton(a, b)) = 0
          BY <4>2 DEF One, HasButton
        <5>3. Positive(K.buttonGrabs)
          BY <2>1 DEF Sound, ButtonsFit
        <5>4. \A b : Amount(K.buttonGrabs, b) \in Nat
          BY <5>3 DEF Amount, Positive
        <5>5. \A b : Amount(B.buttonGrabs, b) = Amount(K.buttonGrabs, b) + One(HasButton(a, b))
          BY <5>1, <5>2, <5>4
        <5>6. QED
          BY <2>1, <2>3, <5>1, <5>5 DEF SameBase, Mapped, SameKeys, SameEdges
      <4>3. QED
        BY <4>1, <4>2
    <3> HIDE DEF B
    <3>2. a.edges \in SUBSET Edge(s)
      BY DEF Binding
    <3>3. E = More(B, a.edges, 1)
      BY <3>1, <3>2, EdgesFolded DEF Sound
    <3> HIDE DEF E
    <3>4. /\ Sound(s, E) /\ SameBase(B, E) /\ SameKeys(B, E) /\ SameButtons(B, E)
          /\ E.granted = B.granted
          /\ \A e \in DOMAIN B.edgeCount :
                 E.edgeCount[e] = IF e \in a.edges THEN B.edgeCount[e] + 1 ELSE B.edgeCount[e]
      <4> DEFINE D == a.edges
                 M == More(B, D, 1)
      <4>1. D \in SUBSET Edge(s) /\ 1 \in {1, -1} /\ Sound(s, B)
        BY <3>1, <3>2
      <4> HIDE DEF D
      <4>2. /\ Sound(s, M) /\ SameBase(B, M) /\ SameKeys(B, M) /\ SameButtons(B, M)
            /\ M.granted = B.granted
            /\ \A e \in DOMAIN B.edgeCount :
                   M.edgeCount[e] = IF e \in D THEN B.edgeCount[e] + 1 ELSE B.edgeCount[e]
        BY ONLY <4>1, EdgesSound, s \in Sessions
      <4>3. QED
        BY <3>3, <4>2 DEF D
    <3>5. T = E
      BY <1>1, <1>5, <2>3
    <3> HIDE DEF T
    <3>6. SameBase(S, T)
      BY <2>1, <3>1, <3>4, <3>5 DEF SameBase, Mapped
    <3>7. \A e \in DOMAIN S.edgeCount : T.edgeCount[e] = S.edgeCount[e] + One(e \in a.edges)
      <4>1. S.edgeCount \in [Edge(s) -> Int] /\ B.edgeCount = S.edgeCount
        BY <1>2, <2>1, <3>1 DEF Recorded, Record, SameEdges
      <4>2. QED
        BY <3>4, <3>5, <4>1 DEF One
    <3>8. Gained(S, T, a)
      BY <2>1, <2>3, <3>1, <3>4, <3>5, <3>7 DEF Gained, SameKeys, SameButtons
    <3>9. QED
      BY <1>5, <3>1, <3>4, <3>5, <3>6, <3>8 DEF T
  <2>4. QED
    BY <2>2, <2>3
<1>6. QED
  BY <1>2, <1>4, <1>5 DEF Recorded, Record

LEMMA ActionRemoved ==
    ASSUME NEW s \in Sessions, NEW S, Sound(s, S), NEW a \in Binding(s),
           "key" \in a.type => a.key \in KeyStrings(s), S.initialized, a.active,
           \A b : HasButton(a, b) => Amount(S.buttonGrabs, b) # 0,
           S.moved = {} => \A k : HasKey(S, a, k) => Amount(S.keyGrabs, k) # 0
    PROVE  LET T == RemoveAction(S, a)
           IN  Sound(s, T) /\ SameBase(S, T) /\ Lost(S, T, a)
<1> DEFINE T == RemoveAction(S, a)
           K == IF "key" \in a.type THEN RemovePassiveKeyGrab(S, a.key) ELSE S
           B == IF "button" \in a.type THEN RemovePassiveButtonGrab(K, a.button) ELSE K
           E == FoldSet(LAMBDA e, U : DisableEdge(U, e), B, a.edges)
<1>1. T = E
  BY DEF RemoveAction
<1>2. /\ Sound(s, K) /\ SameBase(S, K) /\ SameButtons(S, K) /\ SameEdges(S, K)
      /\ S.moved = {} =>
            \A k : Amount(K.keyGrabs, k) = Amount(S.keyGrabs, k) - One(HasKey(S, a, k))
  <2>1. CASE "key" \in a.type
    <3>1. K = RemovePassiveKeyGrab(S, a.key) /\ a.key \in KeyStrings(s)
      BY <2>1
    <3>2. Recorded(s, S) /\ KeysFit(s, S)
      BY DEF Sound
    <3>3. \A k : HasKey(S, a, k) <=> k = RealKey(S, a.key)
      BY <2>1 DEF HasKey
    <3> HIDE DEF K
    <3>4. /\ OnlyKeys(s, S, K) /\ KeysFit(s, K)
          /\ Amount(S.keyGrabs, RealKey(S, a.key)) # 0 =>
                \A k : Amount(K.keyGrabs, k) =
                         Amount(S.keyGrabs, k) - One(k = RealKey(S, a.key))
      BY <3>1, <3>2, KeyRemoved
    <3>5. Sound(s, K)
      BY <3>4, FitsKept DEF Sound, OnlyKeys
    <3>6. \A k : One(HasKey(S, a, k)) = One(k = RealKey(S, a.key))
      BY <3>3 DEF One
    <3>7. S.moved = {} => Amount(S.keyGrabs, RealKey(S, a.key)) # 0
      BY <3>3
    <3>8. QED
      BY <3>4, <3>5, <3>6, <3>7 DEF OnlyKeys
  <2>2. CASE "key" \notin a.type
    <3>1. K = S
      BY <2>2
    <3>2. \A k : One(HasKey(S, a, k)) = 0
      BY <2>2 DEF One, HasKey
    <3>3. Positive(S.keyGrabs)
      BY DEF Sound, KeysFit
    <3>4. \A k : Amount(S.keyGrabs, k) \in Nat
      BY <3>3 DEF Amount, Positive
    <3>5. \A k : Amount(K.keyGrabs, k) = Amount(S.keyGrabs, k) - One(HasKey(S, a, k))
      BY <3>1, <3>2, <3>4
    <3>6. QED
      BY <3>1, <3>5 DEF SameBase, Mapped, SameButtons, SameEdges
  <2>3. QED
    BY <2>1, <2>2
<1> HIDE DEF K
<1>3. /\ Sound(s, B) /\ SameBase(K, B) /\ SameKeys(K, B) /\ SameEdges(K, B)
      /\ \A b : Amount(B.buttonGrabs, b) = Amount(K.buttonGrabs, b) - One(HasButton(a, b))
  <2>1. CASE "button" \in a.type
    <3>1. B = RemovePassiveButtonGrab(K, a.button) /\ Recorded(s, K) /\ ButtonsFit(K)
      BY <1>2, <2>1 DEF Sound
    <3>2. \A b : HasButton(a, b) <=> b = <<a.button.code, a.button.mods>>
      BY <2>1 DEF HasButton
    <3>3. Amount(K.buttonGrabs, <<a.button.code, a.button.mods>>) # 0
      BY <1>2, <3>2 DEF SameButtons
    <3> HIDE DEF B
    <3>4. /\ OnlyButtons(s, K, B) /\ ButtonsFit(B)
          /\ \A b : Amount(B.buttonGrabs, b) =
                     Amount(K.buttonGrabs, b) - One(b = <<a.button.code, a.button.mods>>)
      BY <3>1, <3>3, ButtonRemoved
    <3>5. Sound(s, B)
      BY <1>2, <3>4, FitsKept DEF Sound, OnlyButtons
    <3>6. \A b : One(HasButton(a, b)) = One(b = <<a.button.code, a.button.mods>>)
      BY <3>2 DEF One
    <3>7. QED
      BY <3>4, <3>5, <3>6 DEF OnlyButtons
  <2>2. CASE "button" \notin a.type
    <3>1. B = K
      BY <2>2
    <3>2. \A b : One(HasButton(a, b)) = 0
      BY <2>2 DEF One, HasButton
    <3>3. Positive(K.buttonGrabs)
      BY <1>2 DEF Sound, ButtonsFit
    <3>4. \A b : Amount(K.buttonGrabs, b) \in Nat
      BY <3>3 DEF Amount, Positive
    <3>5. \A b : Amount(B.buttonGrabs, b) = Amount(K.buttonGrabs, b) - One(HasButton(a, b))
      BY <3>1, <3>2, <3>4
    <3>6. QED
      BY <1>2, <3>1, <3>5 DEF SameBase, Mapped, SameKeys, SameEdges
  <2>3. QED
    BY <2>1, <2>2
<1> HIDE DEF B
<1>4. a.edges \in SUBSET Edge(s)
  BY DEF Binding
<1>5. E = More(B, a.edges, -1)
  BY <1>3, <1>4, EdgesFolded DEF Sound
<1> HIDE DEF E
<1>6. /\ Sound(s, E) /\ SameBase(B, E) /\ SameKeys(B, E) /\ SameButtons(B, E)
      /\ \A e \in DOMAIN B.edgeCount :
             E.edgeCount[e] = IF e \in a.edges THEN B.edgeCount[e] - 1 ELSE B.edgeCount[e]
  <2> DEFINE D == a.edges
             M == More(B, D, -1)
  <2>1. D \in SUBSET Edge(s) /\ -1 \in {1, -1} /\ Sound(s, B)
    BY <1>3, <1>4
  <2> HIDE DEF D
  <2>2. /\ Sound(s, M) /\ SameBase(B, M) /\ SameKeys(B, M) /\ SameButtons(B, M)
        /\ \A e \in DOMAIN B.edgeCount :
               M.edgeCount[e] = IF e \in D THEN B.edgeCount[e] + (-1) ELSE B.edgeCount[e]
    BY ONLY <2>1, EdgesSound, s \in Sessions
  <2>3. B.edgeCount \in [Edge(s) -> Int]
    BY <1>3 DEF Sound, Recorded, Record
  <2>4. \A e \in DOMAIN B.edgeCount : B.edgeCount[e] + (-1) = B.edgeCount[e] - 1
    BY <2>3
  <2>5. QED
    BY <1>5, <2>2, <2>4 DEF D
<1> HIDE DEF T
<1>7. SameBase(S, T)
  BY <1>1, <1>2, <1>3, <1>6 DEF SameBase, Mapped
<1>8. \A e \in DOMAIN S.edgeCount : T.edgeCount[e] = S.edgeCount[e] - One(e \in a.edges)
  <2>1. S.edgeCount \in [Edge(s) -> Int] /\ B.edgeCount = S.edgeCount
    BY <1>2, <1>3 DEF Sound, Recorded, Record, SameEdges
  <2>2. QED
    BY <1>1, <1>6, <2>1 DEF One
<1>9. Lost(S, T, a)
  BY <1>1, <1>2, <1>3, <1>6, <1>8 DEF Lost, SameKeys, SameButtons
<1>10. QED
  BY <1>1, <1>6, <1>7, <1>9 DEF T

-----------------------------------------------------------------------------
(* Options.                                                                *)

LEMMA StillSound ==
    ASSUME NEW s, NEW S, Sound(s, S), NEW T, Recorded(s, T), Mapped(S, T),
           T.foreign = S.foreign, T.moved = S.moved,
           SameKeys(S, T), SameButtons(S, T), SameEdges(S, T)
    PROVE  Sound(s, T)
<1>1. /\ \A key : RealKey(T, key) = RealKey(S, key)
      /\ \A k : Combos(T, k) = Combos(S, k)
      /\ T.buttonGrabs = S.buttonGrabs => ButtonCombinations(T) = ButtonCombinations(S)
  BY MappedSame
<1>2. KeysFit(s, T)
  BY <1>1 DEF SameKeys, KeysFit, Sound
<1>3. ButtonsFit(T)
  BY <1>1 DEF SameButtons, ButtonsFit, Sound
<1>4. EdgesFit(T)
  BY DEF SameEdges, EdgesFit, Sound
<1>5. QED
  BY <1>2, <1>3, <1>4 DEF Sound

\* What keeps the counts and the values keeps the state good.
LEMMA StillGood ==
    ASSUME NEW s, NEW S, Good(s, S), NEW T, Sound(s, T), SameBase(S, T), SameCounts(S, T)
    PROVE  Good(s, T)
<1>1. \A v, k : HasKey(T, v, k) = HasKey(S, v, k)
  BY MappedSame DEF SameBase
<1>2. Counted(T)
  <2>1. \A e : EdgeUsers(T, e) = EdgeUsers(S, e)
    BY DEF EdgeUsers, SameBase
  <2>2. \A b : ButtonUsers(T, b) = ButtonUsers(S, b)
    BY DEF ButtonUsers, SameBase
  <2>3. \A k : KeyUsers(T, k) = KeyUsers(S, k)
    BY <1>1 DEF KeyUsers, SameBase
  <2>4. QED
    BY <2>1, <2>2, <2>3 DEF Counted, Good, SameBase, SameCounts
<1>3. T.owner = S.owner
  BY DEF Sound, Good, Recorded, Record
<1>4. Known(s, T)
  BY <1>3 DEF Known, Good, SameBase
<1>5. QED
  BY <1>2, <1>4 DEF Good

\* One option has another binding, and the counts have followed.
LEMMA Recounted ==
    ASSUME NEW s \in Sessions, NEW S, Recorded(s, S), Counted(S), NEW T, NEW o \in Option(s),
           NEW v, T.value = [S.value EXCEPT ![o] = v], Mapped(S, T), T.moved = S.moved,
           DOMAIN T.edgeCount = DOMAIN S.edgeCount,
           \A e \in DOMAIN S.edgeCount :
               T.edgeCount[e] = S.edgeCount[e] - One(S.value[o].active /\ e \in S.value[o].edges)
                                               + One(v.active /\ e \in v.edges),
           \A b : Amount(T.buttonGrabs, b) =
                  Amount(S.buttonGrabs, b) - One(S.value[o].active /\ HasButton(S.value[o], b))
                                           + One(v.active /\ HasButton(v, b)),
           S.moved = {} => \A k :
               Amount(T.keyGrabs, k) =
                  Amount(S.keyGrabs, k) - One(S.value[o].active /\ HasKey(S, S.value[o], k))
                                        + One(v.active /\ HasKey(S, v, k))
    PROVE  Counted(T)
<1>1. DOMAIN S.value = Option(s) /\ IsFiniteSet(Option(s))
  BY SessionsAssumption DEF Recorded, Record, Option
<1>2. /\ DOMAIN T.value = Option(s) /\ T.value[o] = v
      /\ \A i \in Option(s) \ {o} : T.value[i] = S.value[i]
  BY <1>1
<1>3. \A v1, k : HasKey(T, v1, k) = HasKey(S, v1, k)
  BY MappedSame
<1>4. ASSUME NEW e \in DOMAIN S.edgeCount PROVE T.edgeCount[e] = Cardinality(EdgeUsers(T, e))
  <2> DEFINE A == EdgeUsers(S, e)
             B == EdgeUsers(T, e)
  <2>1. IsFiniteSet(A) /\ A \ {o} = B \ {o}
    <3>1. A \subseteq Option(s)
      BY <1>1 DEF EdgeUsers
    <3>2. QED
      BY <1>1, <1>2, <3>1, FS_Subset DEF EdgeUsers
  <2>2. Cardinality(B) = Cardinality(A) - One(o \in A) + One(o \in B)
    BY <2>1, CountChanges
  <2>3. /\ One(o \in A) = One(S.value[o].active /\ e \in S.value[o].edges)
        /\ One(o \in B) = One(v.active /\ e \in v.edges)
    BY <1>1, <1>2 DEF One, EdgeUsers
  <2>4. S.edgeCount[e] = Cardinality(A)
    BY DEF Counted
  <2> HIDE DEF A, B
  <2>5. T.edgeCount[e] = Cardinality(B)
    BY <2>2, <2>3, <2>4
  <2>6. QED
    BY <2>5 DEF B
<1>5. ASSUME NEW b PROVE Amount(T.buttonGrabs, b) = Cardinality(ButtonUsers(T, b))
  <2> DEFINE A == ButtonUsers(S, b)
             B == ButtonUsers(T, b)
  <2>1. IsFiniteSet(A) /\ A \ {o} = B \ {o}
    <3>1. A \subseteq Option(s)
      BY <1>1 DEF ButtonUsers
    <3>2. QED
      BY <1>1, <1>2, <3>1, FS_Subset DEF ButtonUsers
  <2>2. Cardinality(B) = Cardinality(A) - One(o \in A) + One(o \in B)
    BY <2>1, CountChanges
  <2>3. /\ One(o \in A) = One(S.value[o].active /\ HasButton(S.value[o], b))
        /\ One(o \in B) = One(v.active /\ HasButton(v, b))
    BY <1>1, <1>2 DEF One, ButtonUsers
  <2>4. Amount(S.buttonGrabs, b) = Cardinality(A)
    BY DEF Counted
  <2> HIDE DEF A, B
  <2>5. Amount(T.buttonGrabs, b) = Cardinality(B)
    BY <2>2, <2>3, <2>4
  <2>6. QED
    BY <2>5 DEF B
<1>6. ASSUME S.moved = {}, NEW k PROVE Amount(T.keyGrabs, k) = Cardinality(KeyUsers(T, k))
  <2> DEFINE A == KeyUsers(S, k)
             B == KeyUsers(T, k)
  <2>1. IsFiniteSet(A) /\ A \ {o} = B \ {o}
    <3>1. A \subseteq Option(s)
      BY <1>1 DEF KeyUsers
    <3>2. QED
      BY <1>1, <1>2, <1>3, <3>1, FS_Subset DEF KeyUsers
  <2>2. Cardinality(B) = Cardinality(A) - One(o \in A) + One(o \in B)
    BY <2>1, CountChanges
  <2>3. /\ One(o \in A) = One(S.value[o].active /\ HasKey(S, S.value[o], k))
        /\ One(o \in B) = One(v.active /\ HasKey(S, v, k))
    BY <1>1, <1>2, <1>3 DEF One, KeyUsers
  <2>4. Amount(S.keyGrabs, k) = Cardinality(A)
    BY <1>6 DEF Counted
  <2> HIDE DEF A, B
  <2>5. Amount(T.keyGrabs, k) = Cardinality(B)
    BY <1>6, <2>2, <2>3, <2>4
  <2>6. QED
    BY <2>5 DEF B
<1>7. QED
  BY <1>4, <1>5, <1>6 DEF Counted

\* An active action is counted.
LEMMA ActiveCounted ==
    ASSUME NEW s \in Sessions, NEW S, Recorded(s, S), Counted(S), NEW o \in Option(s),
           S.value[o].active
    PROVE  /\ \A b : HasButton(S.value[o], b) => Amount(S.buttonGrabs, b) # 0
           /\ S.moved = {} => \A k : HasKey(S, S.value[o], k) => Amount(S.keyGrabs, k) # 0
<1>1. DOMAIN S.value = Option(s) /\ IsFiniteSet(Option(s))
  BY SessionsAssumption DEF Recorded, Record, Option
<1>2. \A A \in SUBSET Option(s) : o \in A => Cardinality(A) # 0
  BY <1>1, FS_Subset, FS_EmptySet
<1>3. ASSUME NEW b, HasButton(S.value[o], b) PROVE Amount(S.buttonGrabs, b) # 0
  <2>1. ButtonUsers(S, b) \in SUBSET Option(s) /\ o \in ButtonUsers(S, b)
    BY <1>1, <1>3 DEF ButtonUsers
  <2>2. QED
    BY <1>2, <2>1 DEF Counted
<1>4. ASSUME S.moved = {}, NEW k, HasKey(S, S.value[o], k) PROVE Amount(S.keyGrabs, k) # 0
  <2>1. KeyUsers(S, k) \in SUBSET Option(s) /\ o \in KeyUsers(S, k)
    BY <1>1, <1>4 DEF KeyUsers
  <2>2. QED
    BY <1>2, <1>4, <2>1 DEF Counted
<1>5. QED
  BY <1>3, <1>4

LEMMA Putting ==
    ASSUME NEW s \in Sessions, NEW S, Sound(s, S), NEW o \in Option(s), NEW v \in Binding(s)
    PROVE  LET T == [S EXCEPT !.value[o] = v]
           IN  /\ Sound(s, T) /\ SameCounts(S, T) /\ Mapped(S, T) /\ T.moved = S.moved
               /\ T.value = [S.value EXCEPT ![o] = v] /\ T.loaded = S.loaded
               /\ T.initialized = S.initialized /\ T.owner = S.owner
<1> DEFINE x == [S.value EXCEPT ![o] = v]
           T == [S EXCEPT !.value = x]
<1>1. Recorded(s, S)
  BY DEF Sound
<1>2. x \in [Option(s) -> Binding(s)]
  BY <1>1 DEF Recorded, Record
<1>3. [S EXCEPT !.value[o] = v] = T
  BY <1>1 DEF Recorded, Record
<1> HIDE DEF x
<1>4. /\ Recorded(s, T) /\ Mapped(S, T) /\ T.moved = S.moved /\ T.value = x
      /\ T.loaded = S.loaded /\ T.initialized = S.initialized /\ T.owner = S.owner
      /\ T.foreign = S.foreign /\ SameKeys(S, T) /\ SameButtons(S, T) /\ SameEdges(S, T)
  BY <1>1, <1>2 DEF Recorded, Record, Mapped, SameKeys, SameButtons, SameEdges
<1> HIDE DEF T
<1>5. Sound(s, T)
  BY <1>4, StillSound
<1>6. SameCounts(S, T)
  BY <1>4 DEF SameCounts, SameKeys, SameButtons, SameEdges
<1>7. /\ Sound(s, T) /\ SameCounts(S, T) /\ Mapped(S, T) /\ T.moved = S.moved
      /\ T.value = [S.value EXCEPT ![o] = v] /\ T.loaded = S.loaded
      /\ T.initialized = S.initialized /\ T.owner = S.owner
  BY <1>4, <1>5, <1>6 DEF x
<1>8. QED
  BY <1>3, <1>7

\* The counts follow when the option o gets the binding v.
Follows(S, R, o, v) ==
    /\ \A e \in DOMAIN S.edgeCount :
           R.edgeCount[e] = S.edgeCount[e] - One(S.value[o].active /\ e \in S.value[o].edges)
                                           + One(v.active /\ e \in v.edges)
    /\ \A b : Amount(R.buttonGrabs, b) =
              Amount(S.buttonGrabs, b) - One(S.value[o].active /\ HasButton(S.value[o], b))
                                       + One(v.active /\ HasButton(v, b))
    /\ S.moved = {} => \A k :
           Amount(R.keyGrabs, k) =
              Amount(S.keyGrabs, k) - One(S.value[o].active /\ HasKey(S, S.value[o], k))
                                    + One(v.active /\ HasKey(S, v, k))

LEMMA PutGood ==
    ASSUME NEW s \in Sessions, NEW S, Good(s, S), NEW R, Sound(s, R), SameBase(S, R),
           NEW o \in Option(s), NEW v \in Binding(s), Follows(S, R, o, v),
           v.active => S.owner[o] \in S.loaded, "key" \in v.type => v.key \in KeyStrings(s)
    PROVE  LET T == [R EXCEPT !.value[o] = v]
           IN  /\ Good(s, T) /\ T.initialized = S.initialized /\ T.loaded = S.loaded
               /\ T.value = [S.value EXCEPT ![o] = v] /\ T.owner = S.owner
<1> DEFINE T == [R EXCEPT !.value[o] = v]
<1>1. /\ Sound(s, T) /\ SameCounts(R, T) /\ Mapped(R, T) /\ T.moved = R.moved
      /\ T.value = [R.value EXCEPT ![o] = v] /\ T.loaded = R.loaded
      /\ T.initialized = R.initialized /\ T.owner = R.owner
  BY Putting
<1> HIDE DEF T
<1>2. S.owner = s.start.owner /\ R.owner = s.start.owner
  BY DEF Good, Sound, Recorded, Record
<1>3. /\ T.value = [S.value EXCEPT ![o] = v] /\ Mapped(S, T) /\ T.moved = S.moved
      /\ T.loaded = S.loaded /\ T.initialized = S.initialized /\ T.owner = S.owner
  BY <1>1, <1>2 DEF SameBase, Mapped
<1>4. DOMAIN T.edgeCount = DOMAIN S.edgeCount
  BY <1>1 DEF Good, Sound, Recorded, Record
<1>5. Counted(T)
  <2>1. /\ T.edgeCount = R.edgeCount /\ T.buttonGrabs = R.buttonGrabs /\ T.keyGrabs = R.keyGrabs
        /\ Recorded(s, S) /\ Counted(S)
    BY <1>1 DEF SameCounts, Good, Sound
  <2>2. QED
    BY <1>3, <1>4, <2>1, Recounted DEF Follows
<1>6. Known(s, T)
  <2>1. DOMAIN S.value = Option(s)
    BY DEF Good, Sound, Recorded, Record
  <2>2. QED
    BY <1>3, <2>1 DEF Known, Good
<1>7. QED
  BY <1>1, <1>3, <1>5, <1>6 DEF Good, T

LEMMA OptionSet ==
    ASSUME NEW s \in Sessions, NEW S, Good(s, S), S.initialized, NEW o \in Option(s),
           S.owner[o] \in S.loaded, NEW val \in Binding(s), ~val.active,
           Fits(val, S.kind[o]), "key" \in val.type => val.key \in KeyStrings(s),
           S.kind[o] \in {"key", "button", "edge"}
    PROVE  Good(s, SetOption(S, o, val)) /\ SetOption(S, o, val).initialized
<1> DEFINE old == S.value[o]
           v == IF Pointless(S.kind[o], old, val) THEN [old EXCEPT !.active = FALSE]
                                                  ELSE [val EXCEPT !.active = TRUE]
           A == AddAction(S, val)
           R == RemoveAction(A, old)
           T == SetOption(S, o, val)
<1>1. /\ Sound(s, S) /\ Recorded(s, S) /\ Counted(S) /\ old \in Binding(s)
      /\ "key" \in old.type => old.key \in KeyStrings(s)
  BY DEF Good, Sound, Recorded, Record, Known
<1>2. T = IF Same(old, val) THEN S
          ELSE IF A.granted THEN [R EXCEPT !.value[o] = v] ELSE A
  BY DEF SetOption
<1>3. /\ Sound(s, A) /\ SameBase(S, A)
      /\ ~A.granted => SameCounts(S, A)
      /\ A.granted => Gained(S, A, val)
  BY <1>1, ActionAdded
<1>4. /\ v \in Binding(s)
      /\ "key" \in v.type => v.key \in KeyStrings(s)
  <2>1. [old EXCEPT !.active = FALSE] \in Binding(s) /\ [val EXCEPT !.active = TRUE] \in Binding(s)
    BY <1>1 DEF Binding
  <2>2. /\ [old EXCEPT !.active = FALSE].type = old.type
        /\ [old EXCEPT !.active = FALSE].key = old.key
        /\ [val EXCEPT !.active = TRUE].type = val.type
        /\ [val EXCEPT !.active = TRUE].key = val.key
    BY <1>1 DEF Binding
  <2>3. QED
    BY <1>1, <2>1, <2>2
\* a value that has no point asks for nothing
<1>5. /\ \A e : (v.active /\ e \in v.edges) <=> e \in val.edges
      /\ \A b : (v.active /\ HasButton(v, b)) <=> HasButton(val, b)
      /\ \A k : (v.active /\ HasKey(S, v, k)) <=> HasKey(S, val, k)
  <2>1. CASE Pointless(S.kind[o], old, val)
    <3>1. v = [old EXCEPT !.active = FALSE]
      BY <2>1
    <3>2. ~v.active
      BY <1>1, <3>1 DEF Binding
    <3>3. val.type \subseteq {"key", "button", "edgeButton"}
      BY DEF Binding
    <3>4. val.type = {} /\ val.edges = {}
      BY <2>1, <3>3 DEF Pointless, Fits
    <3> HIDE DEF v
    <3>5. QED
      BY <3>2, <3>4 DEF HasButton, HasKey
  <2>2. CASE ~Pointless(S.kind[o], old, val)
    <3>1. v = [val EXCEPT !.active = TRUE]
      BY <2>2
    <3>2. /\ v.active /\ v.edges = val.edges /\ v.type = val.type
          /\ v.button = val.button /\ v.key = val.key
      BY <3>1 DEF Binding
    <3> HIDE DEF v
    <3>3. QED
      BY <3>2 DEF HasButton, HasKey
  <2>3. QED
    BY <2>1, <2>2
<1> HIDE DEF v, A, T
<1>6. CASE Same(old, val)
  BY <1>2, <1>6 DEF T
<1>7. CASE ~Same(old, val) /\ ~A.granted
  <2>1. Good(s, A) /\ A.initialized
    BY <1>3, <1>7, StillGood DEF SameBase
  <2>2. QED
    BY <1>2, <1>7, <2>1 DEF T
<1>8. CASE ~Same(old, val) /\ A.granted
  <2>1. T = [R EXCEPT !.value[o] = v]
    BY <1>2, <1>8
  <2>2. /\ \A e \in DOMAIN S.edgeCount : A.edgeCount[e] = S.edgeCount[e] + One(e \in val.edges)
        /\ \A b : Amount(A.buttonGrabs, b) = Amount(S.buttonGrabs, b) + One(HasButton(val, b))
        /\ \A k : Amount(A.keyGrabs, k) = Amount(S.keyGrabs, k) + One(HasKey(S, val, k))
    BY <1>3, <1>8 DEF Gained
  <2>3. /\ \A e \in DOMAIN S.edgeCount : S.edgeCount[e] \in Int
        /\ \A b : Amount(S.buttonGrabs, b) \in Nat
        /\ \A k : Amount(S.keyGrabs, k) \in Nat
    <3>1. Positive(S.buttonGrabs) /\ Positive(S.keyGrabs)
      BY <1>1 DEF Sound, ButtonsFit, KeysFit
    <3>2. S.edgeCount \in [Edge(s) -> Int]
      BY <1>1 DEF Recorded, Record
    <3>3. QED
      BY <3>1, <3>2 DEF Positive, Amount
  <2>4. /\ \A e : One(v.active /\ e \in v.edges) = One(e \in val.edges)
        /\ \A b : One(v.active /\ HasButton(v, b)) = One(HasButton(val, b))
        /\ \A k : One(v.active /\ HasKey(S, v, k)) = One(HasKey(S, val, k))
    BY <1>5 DEF One
  <2>5. Sound(s, R) /\ SameBase(S, R) /\ Follows(S, R, o, v)
    <3>1. CASE old.active
      <4>1. /\ \A b : HasButton(old, b) => Amount(A.buttonGrabs, b) # 0
            /\ A.moved = {} => \A k : HasKey(A, old, k) => Amount(A.keyGrabs, k) # 0
        <5>1. /\ \A b : HasButton(old, b) => Amount(S.buttonGrabs, b) # 0
              /\ S.moved = {} => \A k : HasKey(S, old, k) => Amount(S.keyGrabs, k) # 0
          BY <1>1, <3>1, ActiveCounted
        <5>2. A.moved = S.moved /\ \A k : HasKey(A, old, k) = HasKey(S, old, k)
          BY <1>3, MappedSame DEF SameBase
        <5>3. (\A b : One(HasButton(val, b)) \in Nat) /\ (\A k : One(HasKey(S, val, k)) \in Nat)
          BY DEF One
        <5>4. \A b : HasButton(old, b) => Amount(A.buttonGrabs, b) # 0
          BY <2>2, <2>3, <5>1, <5>3
        <5>5. A.moved = {} => \A k : HasKey(A, old, k) => Amount(A.keyGrabs, k) # 0
          BY <2>2, <2>3, <5>1, <5>2, <5>3
        <5>6. QED
          BY <5>4, <5>5
      <4>2. A.initialized /\ Sound(s, A)
        BY <1>3 DEF SameBase
      <4> HIDE DEF old
      <4>3. Sound(s, R) /\ SameBase(A, R) /\ Lost(A, R, old)
        BY <1>1, <3>1, <4>1, <4>2, ActionRemoved
      <4> HIDE DEF R
      <4>4. SameBase(S, R)
        BY <1>3, <4>3 DEF SameBase, Mapped
      <4>5. /\ A.moved = S.moved /\ DOMAIN A.edgeCount = DOMAIN S.edgeCount
            /\ \A k : HasKey(A, old, k) = HasKey(S, old, k)
        <5>1. A.moved = S.moved /\ \A k : HasKey(A, old, k) = HasKey(S, old, k)
          BY <1>3, MappedSame DEF SameBase
        <5>2. DOMAIN A.edgeCount = Edge(s) /\ DOMAIN S.edgeCount = Edge(s)
          BY <1>3 DEF Good, Sound, Recorded, Record
        <5>3. QED
          BY <5>1, <5>2
      <4>6. /\ \A e : One(old.active /\ e \in old.edges) = One(e \in old.edges)
            /\ \A b : One(old.active /\ HasButton(old, b)) = One(HasButton(old, b))
            /\ \A k : One(old.active /\ HasKey(S, old, k)) = One(HasKey(A, old, k))
        BY <3>1, <4>5 DEF One
      <4>7. (\A p : One(p) \in {0, 1})
        BY DEF One
      <4>8. \A e \in DOMAIN S.edgeCount :
                R.edgeCount[e] = S.edgeCount[e] - One(old.active /\ e \in old.edges)
                                                + One(v.active /\ e \in v.edges)
        BY <2>2, <2>3, <2>4, <4>3, <4>5, <4>6, <4>7 DEF Lost
      <4>9. \A b : Amount(R.buttonGrabs, b) =
                   Amount(S.buttonGrabs, b) - One(old.active /\ HasButton(old, b))
                                            + One(v.active /\ HasButton(v, b))
        BY <2>2, <2>3, <2>4, <4>3, <4>6, <4>7 DEF Lost
      <4>10. S.moved = {} => \A k :
                Amount(R.keyGrabs, k) =
                   Amount(S.keyGrabs, k) - One(old.active /\ HasKey(S, old, k))
                                         + One(v.active /\ HasKey(S, v, k))
        BY <2>2, <2>3, <2>4, <4>3, <4>5, <4>6, <4>7 DEF Lost
      <4>11. QED
        BY <4>3, <4>4, <4>8, <4>9, <4>10 DEF Follows, old
    <3>2. CASE ~old.active
      <4>1. R = A
        BY <3>2 DEF RemoveAction
      <4>2. /\ \A e : One(old.active /\ e \in old.edges) = 0
            /\ \A b : One(old.active /\ HasButton(old, b)) = 0
            /\ \A k : One(old.active /\ HasKey(S, old, k)) = 0
        BY <3>2 DEF One
      <4>3. (\A p : One(p) \in {0, 1})
        BY DEF One
      <4> HIDE DEF R
      <4>4. Follows(S, R, o, v)
        BY <2>2, <2>3, <2>4, <4>1, <4>2, <4>3 DEF Follows
      <4>5. QED
        BY <1>3, <4>1, <4>4
    <3>3. QED
      BY <3>1, <3>2
  <2> HIDE DEF R
  <2>6. LET U == [R EXCEPT !.value[o] = v]
        IN  /\ Good(s, U) /\ U.initialized = S.initialized /\ U.loaded = S.loaded
            /\ U.value = [S.value EXCEPT ![o] = v] /\ U.owner = S.owner
    <3>1. v.active => S.owner[o] \in S.loaded
      OBVIOUS
    <3>2. QED
      BY ONLY <1>4, <2>5, <3>1, PutGood, s \in Sessions, Good(s, S), o \in Option(s)
  <2>7. QED
    BY <2>1, <2>6 DEF T
<1>9. QED
  BY <1>6, <1>7, <1>8

-----------------------------------------------------------------------------
(* The options of a plugin.                                                *)

InitStep(p, T, o) ==
    LET U == AddAction(T, T.value[o])
    IN  IF U.granted THEN [U EXCEPT !.value[o].active = TRUE] ELSE U
FiniStep(p, T, o) == [RemoveAction(T, T.value[o]) EXCEPT !.value[o].active = FALSE]

\* p holds the session and the state before the first option
Alike(p, T) == Good(p[1], T) /\ T.initialized = p[2].initialized /\ T.loaded = p[2].loaded
InitHolds(p, T, d) == Alike(p, T)
FiniHolds(p, T, d) == Alike(p, T) /\ \A o \in d : ~T.value[o].active

InitFold == INSTANCE DataLemmas WITH Stepped <- InitStep, Reached <- InitHolds
FiniFold == INSTANCE DataLemmas WITH Stepped <- FiniStep, Reached <- FiniHolds

LEMMA OptionBegun ==
    ASSUME NEW s \in Sessions, NEW S, Good(s, S), NEW o \in Option(s),
           S.initialized => S.owner[o] \in S.loaded
    PROVE  LET T == InitStep(0, S, o)
           IN  Good(s, T) /\ T.initialized = S.initialized /\ T.loaded = S.loaded
<1> DEFINE old == S.value[o]
           v == [old EXCEPT !.active = TRUE]
           A == AddAction(S, old)
           T == InitStep(0, S, o)
<1>1. /\ Sound(s, S) /\ Recorded(s, S) /\ Counted(S) /\ old \in Binding(s)
      /\ "key" \in old.type => old.key \in KeyStrings(s)
  BY DEF Good, Sound, Recorded, Record, Known
<1>2. /\ Sound(s, A) /\ SameBase(S, A)
      /\ ~A.granted => SameCounts(S, A)
      /\ A.granted => ~old.active /\ S.initialized /\ Gained(S, A, old)
  <2> HIDE DEF old
  <2>1. QED
    BY <1>1, ActionAdded
<1> HIDE DEF A
<1>3. CASE ~A.granted
  <2>1. T = A
    BY <1>3 DEF InitStep, A
  <2> HIDE DEF T
  <2>2. Good(s, T) /\ T.initialized = S.initialized /\ T.loaded = S.loaded
    BY <1>2, <1>3, <2>1, StillGood DEF SameBase
  <2>3. QED
    BY <2>2 DEF T
<1>4. CASE A.granted
  <2>1. T = [A EXCEPT !.value[o] = v]
    <3>1. A.value[o] = old
      BY <1>2 DEF SameBase
    <3>2. T = [A EXCEPT !.value[o].active = TRUE]
      BY <1>4 DEF InitStep, A
    <3> HIDE DEF T, old
    <3>3. QED
      BY <3>1, <3>2
  <2>2. /\ v \in Binding(s) /\ v.active /\ v.edges = old.edges /\ v.type = old.type
        /\ v.button = old.button /\ v.key = old.key
    BY <1>1 DEF Binding
  <2> HIDE DEF v
  <2>3. /\ \A e \in DOMAIN S.edgeCount : S.edgeCount[e] \in Int
        /\ \A b : Amount(S.buttonGrabs, b) \in Nat
        /\ \A k : Amount(S.keyGrabs, k) \in Nat
    <3>1. Positive(S.buttonGrabs) /\ Positive(S.keyGrabs)
      BY <1>1 DEF Sound, ButtonsFit, KeysFit
    <3>2. S.edgeCount \in [Edge(s) -> Int]
      BY <1>1 DEF Recorded, Record
    <3>3. QED
      BY <3>1, <3>2 DEF Positive, Amount
  <2>4. /\ \A e : One(v.active /\ e \in v.edges) = One(e \in old.edges)
        /\ \A b : One(v.active /\ HasButton(v, b)) = One(HasButton(old, b))
        /\ \A k : One(v.active /\ HasKey(S, v, k)) = One(HasKey(S, old, k))
    BY <2>2 DEF One, HasButton, HasKey
  <2>5. /\ \A e : One(old.active /\ e \in old.edges) = 0
        /\ \A b : One(old.active /\ HasButton(old, b)) = 0
        /\ \A k : One(old.active /\ HasKey(S, old, k)) = 0
    BY <1>2, <1>4 DEF One
  <2>6. \A p : One(p) \in {0, 1}
    BY DEF One
  <2> HIDE DEF old
  <2>7. Follows(S, A, o, v)
    BY <1>2, <1>4, <2>3, <2>4, <2>5, <2>6 DEF Follows, Gained, old
  <2>8. v.active => S.owner[o] \in S.loaded
    BY <1>2, <1>4
  <2>9. "key" \in v.type => v.key \in KeyStrings(s)
    BY <1>1, <2>2
  <2>10. LET U == [A EXCEPT !.value[o] = v]
         IN  /\ Good(s, U) /\ U.initialized = S.initialized /\ U.loaded = S.loaded
             /\ U.value = [S.value EXCEPT ![o] = v] /\ U.owner = S.owner
    BY ONLY <1>2, <2>2, <2>7, <2>8, <2>9, PutGood, s \in Sessions, Good(s, S), o \in Option(s)
  <2>11. QED
    BY <2>1, <2>10
<1>5. QED
  BY <1>3, <1>4

LEMMA OptionEnded ==
    ASSUME NEW s \in Sessions, NEW S, Good(s, S), NEW o \in Option(s), S.initialized
    PROVE  LET T == FiniStep(0, S, o)
           IN  /\ Good(s, T) /\ T.initialized = S.initialized /\ T.loaded = S.loaded
               /\ ~T.value[o].active
               /\ \A i \in Option(s) : ~S.value[i].active => ~T.value[i].active
<1> DEFINE old == S.value[o]
           v == [old EXCEPT !.active = FALSE]
           R == RemoveAction(S, old)
           T == FiniStep(0, S, o)
<1>1. /\ Sound(s, S) /\ Recorded(s, S) /\ Counted(S) /\ old \in Binding(s)
      /\ "key" \in old.type => old.key \in KeyStrings(s)
  BY DEF Good, Sound, Recorded, Record, Known
<1>2. /\ v \in Binding(s) /\ ~v.active /\ v.type = old.type /\ v.key = old.key
  BY <1>1 DEF Binding
<1>3. /\ \A e : One(v.active /\ e \in v.edges) = 0
      /\ \A b : One(v.active /\ HasButton(v, b)) = 0
      /\ \A k : One(v.active /\ HasKey(S, v, k)) = 0
  BY <1>2 DEF One
<1>4. /\ \A e \in DOMAIN S.edgeCount : S.edgeCount[e] \in Int
      /\ \A b : Amount(S.buttonGrabs, b) \in Nat
      /\ \A k : Amount(S.keyGrabs, k) \in Nat
  <2>1. Positive(S.buttonGrabs) /\ Positive(S.keyGrabs)
    BY <1>1 DEF Sound, ButtonsFit, KeysFit
  <2>2. S.edgeCount \in [Edge(s) -> Int]
    BY <1>1 DEF Recorded, Record
  <2>3. QED
    BY <2>1, <2>2 DEF Positive, Amount
<1>5. \A p : One(p) \in {0, 1}
  BY DEF One
<1> HIDE DEF v
<1>6. Sound(s, R) /\ SameBase(S, R) /\ Follows(S, R, o, v)
  <2>1. CASE old.active
    <3>1. /\ \A b : HasButton(old, b) => Amount(S.buttonGrabs, b) # 0
          /\ S.moved = {} => \A k : HasKey(S, old, k) => Amount(S.keyGrabs, k) # 0
      BY <1>1, <2>1, ActiveCounted
    <3>2. /\ \A e : One(old.active /\ e \in old.edges) = One(e \in old.edges)
          /\ \A b : One(old.active /\ HasButton(old, b)) = One(HasButton(old, b))
          /\ \A k : One(old.active /\ HasKey(S, old, k)) = One(HasKey(S, old, k))
      BY <2>1 DEF One
    <3> HIDE DEF old
    <3>3. Sound(s, R) /\ SameBase(S, R) /\ Lost(S, R, old)
      BY <1>1, <2>1, <3>1, ActionRemoved
    <3> HIDE DEF R
    <3>4. Follows(S, R, o, v)
      BY <1>3, <1>4, <1>5, <3>2, <3>3 DEF Follows, Lost, old
    <3>5. QED
      BY <3>3, <3>4
  <2>2. CASE ~old.active
    <3>1. R = S
      BY <2>2 DEF RemoveAction
    <3>2. /\ \A e : One(old.active /\ e \in old.edges) = 0
          /\ \A b : One(old.active /\ HasButton(old, b)) = 0
          /\ \A k : One(old.active /\ HasKey(S, old, k)) = 0
      BY <2>2 DEF One
    <3> HIDE DEF R
    <3>3. Follows(S, R, o, v)
      BY <1>3, <1>4, <3>1, <3>2 DEF Follows
    <3>4. QED
      BY <1>1, <3>1, <3>3 DEF SameBase, Mapped
  <2>3. QED
    BY <2>1, <2>2
<1>7. T = [R EXCEPT !.value[o] = v]
  <2>1. R.value[o] = old
    BY <1>6 DEF SameBase
  <2>2. T = [R EXCEPT !.value[o].active = FALSE]
    BY DEF FiniStep
  <2>3. v = [old EXCEPT !.active = FALSE]
    BY DEF v
  <2> HIDE DEF R, T, old
  <2>4. QED
    BY <2>1, <2>2, <2>3
<1> HIDE DEF R
<1>8. "key" \in v.type => v.key \in KeyStrings(s)
  BY <1>1, <1>2
<1>9. v.active => S.owner[o] \in S.loaded
  BY <1>2
<1>10. LET U == [R EXCEPT !.value[o] = v]
       IN  /\ Good(s, U) /\ U.initialized = S.initialized /\ U.loaded = S.loaded
           /\ U.value = [S.value EXCEPT ![o] = v] /\ U.owner = S.owner
  BY ONLY <1>2, <1>6, <1>8, <1>9, PutGood, s \in Sessions, Good(s, S), o \in Option(s)
<1> HIDE DEF T
<1>11. /\ Good(s, T) /\ T.initialized = S.initialized /\ T.loaded = S.loaded
       /\ T.value = [S.value EXCEPT ![o] = v]
  BY <1>7, <1>10
<1>12. DOMAIN S.value = Option(s)
  BY <1>1 DEF Recorded, Record
<1>13. ~T.value[o].active /\ \A i \in Option(s) : ~S.value[i].active => ~T.value[i].active
  BY <1>2, <1>11, <1>12
<1>14. QED
  BY <1>11, <1>13 DEF T

LEMMA OptionsBegun ==
    ASSUME NEW s \in Sessions, NEW S, Good(s, S), NEW D \in SUBSET Option(s),
           S.initialized => \A o \in D : S.owner[o] \in S.loaded
    PROVE  LET T == InitOptions(S, D)
           IN  Good(s, T) /\ T.initialized = S.initialized /\ T.loaded = S.loaded
<1> DEFINE p == <<s, S>>
<1>1. p[1] = s /\ p[2] = S
  OBVIOUS
<1> HIDE DEF p
<1>2. IsFiniteSet(D)
  BY SessionsAssumption, FS_Subset DEF Option
<1>3. InitHolds(p, S, {})
  BY <1>1 DEF InitHolds, Alike
<1>4. ASSUME NEW d \in SUBSET D, NEW o \in d, NEW T, InitHolds(p, T, d \ {o})
      PROVE  InitHolds(p, InitStep(p, T, o), d)
  <2>1. Good(s, T) /\ T.initialized = S.initialized /\ T.loaded = S.loaded
    BY <1>1, <1>4 DEF InitHolds, Alike
  <2>2. T.owner = S.owner
    BY <2>1 DEF Good, Sound, Recorded, Record
  <2>3. o \in Option(s) /\ (T.initialized => T.owner[o] \in T.loaded)
    BY <2>1, <2>2
  <2>4. InitStep(p, T, o) = InitStep(0, T, o)
    BY DEF InitStep
  <2> DEFINE U == InitStep(0, T, o)
  <2>5. Good(s, U) /\ U.initialized = T.initialized /\ U.loaded = T.loaded
    BY <2>1, <2>3, OptionBegun
  <2> HIDE DEF U
  <2>6. InitHolds(p, U, d)
    BY <1>1, <2>1, <2>5 DEF InitHolds, Alike
  <2>7. QED
    BY <2>4, <2>6 DEF U
<1>5. InitHolds(p, InitFold!Folded(p, D, S), D)
  BY <1>2, <1>3, <1>4, InitFold!FoldHolds DEF IsFiniteSet, InitFold!IsFiniteSet
<1>6. InitOptions(S, D) = InitFold!Folded(p, D, S)
  BY DEF InitOptions, FoldSet, MapThenFoldSet, InitFold!Folded, InitStep
<1>7. QED
  BY <1>1, <1>5, <1>6 DEF InitHolds, Alike

LEMMA OptionsEnded ==
    ASSUME NEW s \in Sessions, NEW S, Good(s, S), NEW D \in SUBSET Option(s), S.initialized
    PROVE  LET T == FiniOptions(S, D)
           IN  /\ Good(s, T) /\ T.initialized /\ T.loaded = S.loaded
               /\ \A o \in D : ~T.value[o].active
<1> DEFINE p == <<s, S>>
<1>1. p[1] = s /\ p[2] = S
  OBVIOUS
<1> HIDE DEF p
<1>2. IsFiniteSet(D)
  BY SessionsAssumption, FS_Subset DEF Option
<1>3. FiniHolds(p, S, {})
  BY <1>1 DEF FiniHolds, Alike
<1>4. ASSUME NEW d \in SUBSET D, NEW o \in d, NEW T, FiniHolds(p, T, d \ {o})
      PROVE  FiniHolds(p, FiniStep(p, T, o), d)
  <2>1. /\ Good(s, T) /\ T.initialized = S.initialized /\ T.loaded = S.loaded
        /\ \A i \in d \ {o} : ~T.value[i].active
    BY <1>1, <1>4 DEF FiniHolds, Alike
  <2>2. o \in Option(s) /\ d \subseteq Option(s) /\ T.initialized
    BY <2>1
  <2>3. FiniStep(p, T, o) = FiniStep(0, T, o)
    BY DEF FiniStep
  <2> DEFINE U == FiniStep(0, T, o)
  <2>4. /\ Good(s, U) /\ U.initialized = T.initialized /\ U.loaded = T.loaded
        /\ ~U.value[o].active
        /\ \A i \in Option(s) : ~T.value[i].active => ~U.value[i].active
    BY <2>1, <2>2, OptionEnded
  <2> HIDE DEF U
  <2>5. FiniHolds(p, U, d)
    BY <1>1, <2>1, <2>2, <2>4 DEF FiniHolds, Alike
  <2>6. QED
    BY <2>3, <2>5 DEF U
<1>5. FiniHolds(p, FiniFold!Folded(p, D, S), D)
  BY <1>2, <1>3, <1>4, FiniFold!FoldHolds DEF IsFiniteSet, FiniFold!IsFiniteSet
<1>6. FiniOptions(S, D) = FiniFold!Folded(p, D, S)
  BY DEF FiniOptions, FoldSet, MapThenFoldSet, FiniFold!Folded, FiniStep
<1>7. QED
  BY <1>1, <1>5, <1>6 DEF FiniHolds, Alike

\* A plugin that comes and one that goes
Reset(S, l, x) == [S EXCEPT !.loaded = l, !.value = x]
Unload(S, l, r) == [S EXCEPT !.loaded = l, !.running = r]

\* Nobody has an action in a plugin that is not loaded, so its values may be reset.
LEMMA ValuesReset ==
    ASSUME NEW s \in Sessions, NEW S, Good(s, S), NEW p, p \notin S.loaded, NEW x, NEW l,
           x = [o \in Option(s) |-> IF S.owner[o] = p THEN s.start.value[o] ELSE S.value[o]],
           l = S.loaded \cup {p}
    PROVE  LET T == Reset(S, l, x)
           IN  Good(s, T) /\ T.initialized = S.initialized /\ T.loaded = l /\ T.owner = S.owner
<1> DEFINE T == Reset(S, l, x)
           B == s.start
<1>1. Recorded(s, S) /\ DOMAIN S.value = Option(s) /\ S.value \in [Option(s) -> Binding(s)]
  BY DEF Good, Sound, Recorded, Record
<1>2. \A o \in Option(s) : B.value[o] \in Binding(s) /\ ~B.value[o].active
  <2>1. B \in Unbegun(Option(s), Edge(s), B)
    BY SessionsAssumption DEF Option, Edge
  <2>2. B.value \in [Option(s) -> Parsed(Edge(s))]
    <3> HIDE DEF B
    <3>1. QED
      BY <2>1 DEF Unbegun
  <2>3. \A v \in Parsed(Edge(s)) : v \in Binding(s) /\ ~v.active
    BY DEF Parsed, Binding, Coded
  <2> HIDE DEF B
  <2>4. QED
    BY <2>2, <2>3
<1>3. x \in [Option(s) -> Binding(s)]
  BY <1>1, <1>2
<1>4. /\ Recorded(s, T) /\ Mapped(S, T) /\ T.moved = S.moved /\ T.value = x /\ T.loaded = l
      /\ T.initialized = S.initialized /\ T.owner = S.owner /\ T.foreign = S.foreign
      /\ SameKeys(S, T) /\ SameButtons(S, T) /\ SameEdges(S, T)
  BY <1>1, <1>3 DEF Reset, Recorded, Record, Mapped, SameKeys, SameButtons, SameEdges
<1> HIDE DEF T
<1>5. Sound(s, T)
  BY <1>4, StillSound DEF Good
<1>6. \A o \in Option(s) : \/ x[o] = S.value[o]
                           \/ ~x[o].active /\ ~S.value[o].active
  <2>1. \A o \in Option(s) : S.value[o].active => S.owner[o] \in S.loaded
    BY DEF Good, Known
  <2>2. QED
    BY <1>2, <2>1
<1>7. DOMAIN x = Option(s)
  OBVIOUS
<1>8. Counted(T)
  <2>1. \A v, k : HasKey(T, v, k) = HasKey(S, v, k)
    BY <1>4, MappedSame
  <2>2. \A e : EdgeUsers(T, e) = EdgeUsers(S, e)
    BY <1>1, <1>4, <1>6, <1>7 DEF EdgeUsers
  <2>3. \A b : ButtonUsers(T, b) = ButtonUsers(S, b)
    BY <1>1, <1>4, <1>6, <1>7 DEF ButtonUsers
  <2>4. \A k : KeyUsers(T, k) = KeyUsers(S, k)
    BY <1>1, <1>4, <1>6, <1>7, <2>1 DEF KeyUsers
  <2>5. QED
    BY <1>4, <2>2, <2>3, <2>4 DEF Counted, Good, SameKeys, SameButtons, SameEdges
<1>9. Known(s, T)
  <2>1. ASSUME NEW o \in Option(s) PROVE T.value[o].active => T.owner[o] \in T.loaded
    BY <1>1, <1>2, <1>4, <2>1 DEF Known, Good
  <2>2. ASSUME NEW o \in Option(s), "key" \in T.value[o].type
        PROVE  T.value[o].key \in KeyStrings(s)
    <3>1. CASE S.owner[o] = p
      <4>1. T.value[o] = B.value[o]
        BY <1>4, <3>1
      <4>2. B.value[o] \in Bindable(s)
        BY DEF Bindable, Option
      <4> HIDE DEF B
      <4>3. QED
        BY <2>2, <4>1, <4>2 DEF KeyStrings
    <3>2. CASE S.owner[o] # p
      <4>1. T.value[o] = S.value[o]
        BY <1>4, <3>2
      <4>2. QED
        BY <2>2, <4>1 DEF Known, Good
    <3>3. QED
      BY <3>1, <3>2
  <2>3. QED
    BY <2>1, <2>2 DEF Known
<1>10. QED
  BY <1>4, <1>5, <1>8, <1>9 DEF Good, T

LEMMA Unloaded ==
    ASSUME NEW s \in Sessions, NEW S, Good(s, S), NEW l, NEW r,
           \A o \in Option(s) : S.value[o].active => S.owner[o] \in l
    PROVE  LET T == Unload(S, l, r)
           IN  Good(s, T) /\ T.initialized = S.initialized
<1> DEFINE T == Unload(S, l, r)
<1>1. Recorded(s, S) /\ Sound(s, S)
  BY DEF Good, Sound
<1>2. /\ Recorded(s, T) /\ Mapped(S, T) /\ T.moved = S.moved /\ T.value = S.value
      /\ T.loaded = l /\ T.initialized = S.initialized /\ T.owner = S.owner
      /\ T.foreign = S.foreign /\ SameKeys(S, T) /\ SameButtons(S, T) /\ SameEdges(S, T)
  BY <1>1 DEF Unload, Recorded, Record, Mapped, SameKeys, SameButtons, SameEdges
<1> HIDE DEF T
<1>3. Sound(s, T)
  BY <1>1, <1>2, StillSound
<1>4. Counted(T)
  <2>1. \A v, k : HasKey(T, v, k) = HasKey(S, v, k)
    BY <1>2, MappedSame
  <2>2. \A e : EdgeUsers(T, e) = EdgeUsers(S, e)
    BY <1>2 DEF EdgeUsers
  <2>3. \A b : ButtonUsers(T, b) = ButtonUsers(S, b)
    BY <1>2 DEF ButtonUsers
  <2>4. \A k : KeyUsers(T, k) = KeyUsers(S, k)
    BY <1>2, <2>1 DEF KeyUsers
  <2>5. QED
    BY <1>2, <2>2, <2>3, <2>4 DEF Counted, Good, SameKeys, SameButtons, SameEdges
<1>5. Known(s, T)
  BY <1>2 DEF Known, Good
<1>6. QED
  BY <1>2, <1>3, <1>4, <1>5 DEF Good, T

\* Before anything is bound there is nothing to be wrong.
LEMMA NothingBound ==
    ASSUME NEW s \in Sessions
    PROVE  Good(s, s.start) /\ ~s.start.initialized
<1> DEFINE S == s.start
<1>1. S \in Unbegun(Option(s), Edge(s), S)
  BY SessionsAssumption DEF Option, Edge
<1>2. S.modMask \in Masks(s) /\ S.owner = s.start.owner /\ S.kind = s.start.kind
      /\ S.modMap = s.start.modMap /\ S.foreign = s.start.foreign
  BY DEF Masks
<1>3. \A o \in Option(s) : "key" \in S.value[o].type => S.value[o].key \in KeyStrings(s)
  <2>1. \A o \in Option(s) : S.value[o] \in Bindable(s)
    BY DEF Bindable, Option
  <2> HIDE DEF S
  <2>2. QED
    BY <2>1 DEF KeyStrings
<1> HIDE DEF S
<1>4. /\ S.value \in [Option(s) -> Parsed(Edge(s))] /\ ~S.initialized
      /\ S.edgeCount \in [Edge(s) -> {0}] /\ S.edgesMapped = {}
      /\ S.buttonGrabs = <<>> /\ S.keyGrabs = <<>> /\ S.rootKeys = {}
      /\ S.frames \in [DOMAIN S.frames -> {{}}]
  BY <1>1 DEF Unbegun
<1>5. S.value \in [Option(s) -> Binding(s)] /\ \A o \in Option(s) : ~S.value[o].active
  <2>1. \A v \in Parsed(Edge(s)) : v \in Binding(s) /\ ~v.active
    BY DEF Parsed, Binding, Coded
  <2>2. QED
    BY <1>4, <2>1
<1>6. Recorded(s, S)
  <2>1. /\ S.edgeCount \in [Edge(s) -> Int] /\ S.edgesMapped \in SUBSET Edge(s)
    BY <1>4
  <2>2. /\ S.initialized \in BOOLEAN /\ S.granted \in BOOLEAN
    BY <1>1 DEF Unbegun
  <2>3. S = [kind |-> S.kind, owner |-> S.owner, value |-> S.value, order |-> S.order,
             loaded |-> S.loaded, claims |-> S.claims, noDelay |-> S.noDelay,
             initialized |-> S.initialized, xkb |-> S.xkb, delay |-> S.delay,
             escape |-> S.escape, return |-> S.return, modMask |-> S.modMask,
             modMap |-> S.modMap, foreign |-> S.foreign, keyGrabs |-> S.keyGrabs,
             buttonGrabs |-> S.buttonGrabs, rootKeys |-> S.rootKeys, granted |-> S.granted,
             left |-> S.left, frames |-> S.frames, edgeCount |-> S.edgeCount,
             edgesMapped |-> S.edgesMapped, edgeWindow |-> S.edgeWindow,
             xdndWindow |-> S.xdndWindow, timer |-> S.timer, running |-> S.running,
             rebound |-> S.rebound, moved |-> S.moved, late |-> S.late]
    BY <1>1 DEF Unbegun
  <2>4. QED
    BY <1>2, <1>5, <2>1, <2>2, <2>3 DEF Recorded, Record
<1>7. DOMAIN <<>> = {} /\ Positive(<<>>) /\ \A k : Amount(<<>>, k) = 0
  <2>1. DOMAIN <<>> = {} /\ <<>> \in [{} -> Nat \ {0}]
    OBVIOUS
  <2>2. IsFiniteSet({})
    BY FS_EmptySet
  <2>3. QED
    BY <2>1, <2>2 DEF Positive, Amount
<1>8. EdgesFit(S)
  BY <1>4 DEF EdgesFit
<1>9. ButtonsFit(S)
  <2>1. ButtonCombinations(S) = {}
    BY <1>4, <1>7 DEF ButtonCombinations
  <2>2. QED
    BY <1>4, <1>7, <2>1 DEF ButtonsFit
<1>10. KeysFit(s, S)
  BY <1>4, <1>7 DEF KeysFit
<1>11. Counted(S)
  <2>1. DOMAIN S.value = Option(s)
    BY <1>4
  <2>2. /\ \A e : EdgeUsers(S, e) = {}
        /\ \A b : ButtonUsers(S, b) = {}
        /\ \A k : KeyUsers(S, k) = {}
    BY <1>5, <2>1 DEF EdgeUsers, ButtonUsers, KeyUsers
  <2>3. Cardinality({}) = 0
    BY FS_EmptySet
  <2>4. QED
    BY <1>4, <1>7, <2>2, <2>3 DEF Counted
<1>12. Known(s, S)
  BY <1>3, <1>5 DEF Known
<1>13. QED
  BY <1>4, <1>6, <1>8, <1>9, <1>10, <1>11, <1>12 DEF Good, Sound, S

LEMMA Started ==
    ASSUME NEW s \in Sessions, NEW S, Good(s, S), NEW b \in BOOLEAN
    PROVE  LET T == [S EXCEPT !.initialized = b]
           IN  Good(s, T) /\ T.initialized = b /\ T.loaded = S.loaded
<1> DEFINE T == [S EXCEPT !.initialized = b]
<1>1. Recorded(s, S) /\ Sound(s, S)
  BY DEF Good, Sound
<1>2. /\ Recorded(s, T) /\ Mapped(S, T) /\ T.moved = S.moved /\ T.value = S.value
      /\ T.loaded = S.loaded /\ T.initialized = b /\ T.owner = S.owner
      /\ T.foreign = S.foreign /\ SameKeys(S, T) /\ SameButtons(S, T) /\ SameEdges(S, T)
  BY <1>1 DEF Recorded, Record, Mapped, SameKeys, SameButtons, SameEdges
<1> HIDE DEF T
<1>3. Sound(s, T)
  BY <1>1, <1>2, StillSound
<1>4. Counted(T)
  <2>1. \A v, k : HasKey(T, v, k) = HasKey(S, v, k)
    BY <1>2, MappedSame
  <2>2. \A e : EdgeUsers(T, e) = EdgeUsers(S, e)
    BY <1>2 DEF EdgeUsers
  <2>3. \A c : ButtonUsers(T, c) = ButtonUsers(S, c)
    BY <1>2 DEF ButtonUsers
  <2>4. \A k : KeyUsers(T, k) = KeyUsers(S, k)
    BY <1>2, <2>1 DEF KeyUsers
  <2>5. QED
    BY <1>2, <2>2, <2>3, <2>4 DEF Counted, Good, SameKeys, SameButtons, SameEdges
<1>5. Known(s, T)
  BY <1>2 DEF Known, Good
<1>6. QED
  BY <1>2, <1>3, <1>4, <1>5 DEF Good, T

-----------------------------------------------------------------------------
(* A change of the mapping.                                                *)

RegrabStep(p, T, k) == IF Unmapped \in k[2] THEN T ELSE GrabKeys(T, k[2], k[1])

\* p holds the session and the state before the first key
RegrabHolds(p, T, d) ==
    LET S == p[2] IN
    /\ OnlyKeys(p[1], S, T) /\ T.keyGrabs = S.keyGrabs
    /\ T.rootKeys \subseteq (UNION {Combos(S, k) : k \in d}) \cup T.left
    /\ \A k \in d : Combos(S, k) \cap S.foreign = {} => Combos(S, k) \subseteq T.rootKeys

RegrabFold == INSTANCE DataLemmas WITH Stepped <- RegrabStep, Reached <- RegrabHolds

LEMMA KeyRegrabbed ==
    ASSUME NEW s \in Sessions, NEW S, Recorded(s, S), NEW d, NEW k \in d, NEW T,
           RegrabHolds(<<s, S>>, T, d \ {k})
    PROVE  RegrabHolds(<<s, S>>, RegrabStep(<<s, S>>, T, k), d)
<1> DEFINE p == <<s, S>>
           c == d \ {k}
           U == RegrabStep(p, T, k)
<1>1. p[1] = s /\ p[2] = S
  OBVIOUS
<1>2. /\ OnlyKeys(s, S, T) /\ T.keyGrabs = S.keyGrabs
      /\ T.rootKeys \subseteq (UNION {Combos(S, l) : l \in c}) \cup T.left
      /\ \A l \in c : Combos(S, l) \cap S.foreign = {} => Combos(S, l) \subseteq T.rootKeys
  BY DEF RegrabHolds
<1>3. \A l : Combos(T, l) = Combos(S, l)
  BY <1>2, MappedSame DEF OnlyKeys, SameBase
<1>4. T.foreign = S.foreign /\ Recorded(s, T)
  BY <1>2 DEF OnlyKeys, SameBase
<1>5. /\ OnlyKeys(s, T, U) /\ U.keyGrabs = T.keyGrabs /\ T.left \subseteq U.left
      /\ T.rootKeys \subseteq U.rootKeys
      /\ U.rootKeys \subseteq T.rootKeys \cup Combos(S, k) \cup U.left
      /\ Combos(S, k) \cap S.foreign = {} => Combos(S, k) \subseteq U.rootKeys
  <2>1. CASE Unmapped \in k[2]
    <3>1. U = T
      BY <2>1 DEF RegrabStep
    <3>2. Combos(S, k) = {}
      BY <2>1 DEF Combos, AllCombinations
    <3> HIDE DEF U
    <3>3. OnlyKeys(s, T, T)
      BY <1>4 DEF OnlyKeys, SameBase, Mapped, SameButtons, SameEdges
    <3>4. QED
      BY <3>1, <3>2, <3>3
  <2>2. CASE Unmapped \notin k[2]
    <3>1. U = GrabKeys(T, k[2], k[1])
      BY <2>2 DEF RegrabStep
    <3>2. Combos(S, k) = AllCombinations(T, k[2], k[1])
      BY <1>3 DEF Combos
    <3> DEFINE mods == k[2]
               code == k[1]
               C == AllCombinations(T, mods, code)
    <3>3. U = GrabKeys(T, mods, code) /\ Combos(S, k) = C /\ Unmapped \notin mods
      BY <2>2, <3>1, <3>2
    <3> HIDE DEF U, mods, code
    <3>4. /\ OnlyKeys(s, T, U) /\ U.keyGrabs = T.keyGrabs /\ T.left \subseteq U.left
          /\ T.rootKeys \subseteq U.rootKeys
          /\ U.rootKeys \subseteq T.rootKeys \cup C
          /\ U.granted <=> C \cap T.foreign = {}
          /\ U.granted => C \subseteq U.rootKeys
      BY <1>4, <3>3, KeysGranted
    <3>5. QED
      BY <1>4, <3>3, <3>4
  <2>3. QED
    BY <2>1, <2>2
<1> HIDE DEF U
<1>6. OnlyKeys(s, S, U) /\ U.keyGrabs = S.keyGrabs
  BY <1>2, <1>5 DEF OnlyKeys, SameBase, Mapped, SameButtons, SameEdges
<1>7. ASSUME NEW x \in U.rootKeys, x \notin U.left
      PROVE  \E l \in d : x \in Combos(S, l)
  BY <1>2, <1>5, <1>7
<1>8. ASSUME NEW l \in d, Combos(S, l) \cap S.foreign = {}
      PROVE  Combos(S, l) \subseteq U.rootKeys
  BY <1>2, <1>5, <1>8
<1>9. QED
  BY <1>1, <1>6, <1>7, <1>8 DEF RegrabHolds, U

LEMMA KeysRegrabbed ==
    ASSUME NEW s \in Sessions, NEW S, Recorded(s, S), Positive(S.keyGrabs)
    PROVE  LET T == UpdatePassiveKeyGrabs(S)
               D == DOMAIN S.keyGrabs
           IN  /\ OnlyKeys(s, S, T) /\ T.keyGrabs = S.keyGrabs
               /\ T.rootKeys \subseteq (UNION {Combos(S, k) : k \in D}) \cup T.left
               /\ \A k \in D : Combos(S, k) \cap S.foreign = {} => Combos(S, k) \subseteq T.rootKeys
<1> DEFINE B == [S EXCEPT !.rootKeys = {}]
           p == <<s, B>>
           D == DOMAIN S.keyGrabs
           T == UpdatePassiveKeyGrabs(S)
<1>1. /\ OnlyKeys(s, S, B) /\ B.keyGrabs = S.keyGrabs /\ B.rootKeys = {}
  BY DEF Recorded, Record, SameBase, Mapped, SameButtons, SameEdges, OnlyKeys
<1>2. T = RegrabFold!Folded(p, D, B)
  BY DEF UpdatePassiveKeyGrabs, FoldSet, MapThenFoldSet, RegrabFold!Folded, RegrabStep
<1> HIDE DEF B, T
<1>3. Recorded(s, B) /\ IsFiniteSet(D)
  BY <1>1 DEF OnlyKeys, Positive
<1>4. RegrabHolds(p, B, {})
  <2>1. OnlyKeys(s, B, B)
    BY <1>3 DEF OnlyKeys, SameBase, Mapped, SameButtons, SameEdges
  <2>2. QED
    BY <1>1, <2>1 DEF RegrabHolds
<1>5. ASSUME NEW d \in SUBSET D, NEW k \in d, NEW U, RegrabHolds(p, U, d \ {k})
      PROVE  RegrabHolds(p, RegrabStep(p, U, k), d)
  BY <1>3, <1>5, KeyRegrabbed
<1>6. RegrabHolds(p, RegrabFold!Folded(p, D, B), D)
  <2> HIDE DEF p, D
  <2>1. QED
    BY <1>3, <1>4, <1>5, RegrabFold!FoldHolds DEF IsFiniteSet, RegrabFold!IsFiniteSet
<1>7. /\ OnlyKeys(s, B, T) /\ T.keyGrabs = B.keyGrabs
      /\ T.rootKeys \subseteq (UNION {Combos(B, k) : k \in D}) \cup T.left
      /\ \A k \in D : Combos(B, k) \cap B.foreign = {} => Combos(B, k) \subseteq T.rootKeys
  BY <1>2, <1>6 DEF RegrabHolds
<1>8. (\A k : Combos(B, k) = Combos(S, k)) /\ B.foreign = S.foreign
  BY <1>1, MappedSame DEF OnlyKeys, SameBase
<1>9. OnlyKeys(s, S, T) /\ T.keyGrabs = S.keyGrabs
  BY <1>1, <1>7 DEF OnlyKeys, SameBase, Mapped, SameButtons, SameEdges
<1>10. QED
  BY <1>7, <1>8, <1>9 DEF T

\* What a handler writes down of the event it gets
Noted(S, m, l) == [S EXCEPT !.moved = m, !.late = l]

LEMMA MappingChanged ==
    ASSUME NEW s \in Sessions, NEW S, Good(s, S), NEW mask \in s.masks, NEW l, NEW m,
           m = S.moved \cup Moved(S, mask)
    PROVE  LET T == UpdateModifierMappings(Noted(S, m, l), mask)
           IN  Good(s, T) /\ T.initialized = S.initialized
<1> DEFINE R == Noted(S, m, l)
           T == UpdateModifierMappings(R, mask)
<1>0. R = [S EXCEPT !.moved = m, !.late = l]
  BY DEF Noted
<1>1. /\ Recorded(s, S) /\ Sound(s, S) /\ DOMAIN S.value = Option(s)
      /\ mask \in Masks(s)
  BY DEF Good, Sound, Recorded, Record, Masks
<1>2. \A o \in Option(s) : S.value[o].active /\ "key" \in S.value[o].type /\ o \notin m =>
          VirtualToReal(S, S.value[o].key.mods)
            = VirtualToReal([S EXCEPT !.modMask = mask], S.value[o].key.mods)
  BY <1>1 DEF Moved, Is
<1>3. CASE mask = S.modMask
  <2>1. Moved(S, mask) = {}
    <3>1. Mapped(S, [S EXCEPT !.modMask = mask])
      BY <1>1, <1>3 DEF Recorded, Record, Mapped
    <3>2. \A mods : VirtualToReal([S EXCEPT !.modMask = mask], mods) = VirtualToReal(S, mods)
      BY <3>1, MappedSame
    <3>3. QED
      BY <3>2 DEF Moved
  <2>2. m = S.moved
    BY <2>1
  <2> HIDE DEF R
  <2>3. R.modMask = mask /\ Recorded(s, R) /\ SameBase(S, R) /\ SameKeys(S, R)
        /\ SameButtons(S, R) /\ SameEdges(S, R)
    BY <1>0, <1>1, <1>3, <2>2
       DEF Recorded, Record, SameBase, Mapped, SameKeys, SameButtons, SameEdges
  <2>4. T = R
    BY <2>3 DEF UpdateModifierMappings
  <2> HIDE DEF T
  <2>5. Good(s, R) /\ R.initialized = S.initialized
    <3>1. Sound(s, R)
      BY <1>1, <2>3, StillSound DEF SameBase
    <3>2. QED
      BY <2>3, <3>1, StillGood DEF SameBase, SameCounts, SameKeys, SameButtons, SameEdges
  <2>6. QED
    BY <2>4, <2>5 DEF T, R
<1>4. CASE mask # S.modMask
  <2> DEFINE V == [S EXCEPT !.moved = m, !.late = l, !.modMask = mask]
             K == UpdatePassiveKeyGrabs(V)
             D == DOMAIN S.keyGrabs
  <2>1. T = UpdatePassiveButtonGrabs(K)
    <3> HIDE DEF R
    <3>1. R.modMask = S.modMask /\ [R EXCEPT !.modMask = mask] = V
      BY <1>0, <1>1 DEF Recorded, Record
    <3> HIDE DEF V
    <3>2. QED
      BY <1>4, <3>1 DEF UpdateModifierMappings
  <2>2. /\ Recorded(s, V) /\ V.modMask = mask /\ V.modMap = S.modMap /\ V.foreign = S.foreign
        /\ V.moved = m /\ V.value = S.value /\ V.loaded = S.loaded
        /\ V.initialized = S.initialized /\ V.keyGrabs = S.keyGrabs
        /\ V.buttonGrabs = S.buttonGrabs /\ V.edgeCount = S.edgeCount
        /\ V.edgesMapped = S.edgesMapped /\ V.owner = S.owner
    BY <1>1 DEF Recorded, Record
  <2>3. Mapped(V, [S EXCEPT !.modMask = mask])
    BY <1>1 DEF Recorded, Record, Mapped
  <2> HIDE DEF R, T, V
  <2>4. Positive(V.keyGrabs) /\ Positive(V.buttonGrabs) /\ EdgesFit(V)
    BY <1>1, <2>2 DEF Sound, KeysFit, ButtonsFit, EdgesFit
  <2>5. /\ OnlyKeys(s, V, K) /\ K.keyGrabs = V.keyGrabs
        /\ K.rootKeys \subseteq (UNION {Combos(V, k) : k \in D}) \cup K.left
        /\ \A k \in D : Combos(V, k) \cap V.foreign = {} => Combos(V, k) \subseteq K.rootKeys
    BY <2>2, <2>4, KeysRegrabbed
  <2> HIDE DEF K
  <2>6. /\ Recorded(s, T) /\ ButtonsFit(T) /\ SameBase(K, T)
        /\ SameKeys(K, T) /\ SameEdges(K, T) /\ T.buttonGrabs = K.buttonGrabs
    <3>1. Recorded(s, K) /\ Positive(K.buttonGrabs)
      BY <2>4, <2>5 DEF OnlyKeys, SameButtons
    <3>2. QED
      BY <2>1, <3>1, ButtonsUpdated
  <2>7. /\ SameBase(V, T) /\ SameEdges(V, T) /\ T.buttonGrabs = S.buttonGrabs
        /\ T.keyGrabs = S.keyGrabs /\ T.rootKeys = K.rootKeys /\ T.left = K.left
    BY <2>2, <2>5, <2>6 DEF OnlyKeys, SameBase, Mapped, SameKeys, SameButtons, SameEdges
  <2>8. EdgesFit(T)
    BY <2>4, <2>7, FitsKept
  <2>9. /\ \A k : Combos(T, k) = Combos(V, k)
        /\ \A key : RealKey(T, key) = RealKey(V, key)
        /\ T.moved = m /\ T.foreign = S.foreign /\ T.value = S.value
        /\ T.loaded = S.loaded /\ T.initialized = S.initialized
    BY <2>2, <2>7, MappedSame DEF SameBase
  <2>10. ASSUME m = {}, NEW o \in Option(s), S.value[o].active, "key" \in S.value[o].type
         PROVE  RealKey(T, S.value[o].key) = RealKey(S, S.value[o].key)
    <3>1. \A mods : VirtualToReal([S EXCEPT !.modMask = mask], mods) = VirtualToReal(V, mods)
      BY <2>3, MappedSame
    <3>2. VirtualToReal(S, S.value[o].key.mods) = VirtualToReal(V, S.value[o].key.mods)
      BY <1>2, <2>10, <3>1
    <3>3. QED
      BY <2>9, <3>2 DEF RealKey
  <2>11. ASSUME m = {}, NEW k \in D
         PROVE  \E a \in KeyStrings(s) : k = RealKey(S, a) /\ k = RealKey(T, a)
    <3>1. S.moved = {}
      BY <2>11
    <3>2. Amount(S.keyGrabs, k) # 0
      BY <1>1, <2>11 DEF Amount, Positive, Sound, KeysFit
    <3>3. Cardinality(KeyUsers(S, k)) # 0
      BY <3>1, <3>2 DEF Good, Counted
    <3>4. KeyUsers(S, k) # {}
      BY <3>3, FS_EmptySet
    <3>5. PICK o \in Option(s) : S.value[o].active /\ HasKey(S, S.value[o], k)
      BY <1>1, <3>4 DEF KeyUsers
    <3>6. S.value[o].key \in KeyStrings(s) /\ k = RealKey(S, S.value[o].key)
      BY <3>5 DEF HasKey, Good, Known
    <3>7. k = RealKey(T, S.value[o].key)
      BY <2>10, <2>11, <3>5, <3>6 DEF HasKey
    <3>8. QED
      BY <3>6, <3>7
  <2>12. KeysFit(s, T)
    <3>1. Positive(T.keyGrabs)
      BY <2>2, <2>4, <2>7
    <3>2. T.rootKeys \subseteq (UNION {Combos(T, k) : k \in DOMAIN T.keyGrabs}) \cup T.left
      BY <2>5, <2>7, <2>9
    <3>3. T.moved = {} => \A k \in DOMAIN T.keyGrabs : \E a \in KeyStrings(s) : k = RealKey(T, a)
      BY <2>7, <2>9, <2>11
    <3>4. ASSUME KeysApart, T.moved = {}, NEW k \in DOMAIN T.keyGrabs
          PROVE  Combos(T, k) \subseteq T.rootKeys /\ Combos(T, k) \cap T.foreign = {}
      <4> DEFINE A == Under(s, S.modMask)
                 B == Under(s, T.modMask)
      <4>1. m = {} /\ S.moved = {} /\ k \in D
        BY <2>7, <2>9, <3>4
      <4>2. PICK a \in KeyStrings(s) : k = RealKey(S, a) /\ k = RealKey(T, a)
        BY <2>11, <4>1
      <4>3. /\ S.modMask \in Masks(s) /\ Mapped(A, S) /\ A.foreign = S.foreign
            /\ T.modMask \in Masks(s) /\ Mapped(B, T)
        BY <1>1, <2>6, UnderMask
      <4>4. /\ RealKey(A, a) = k /\ RealKey(B, a) = k
            /\ Combos(A, k) = Combos(S, k) /\ Combos(B, k) = Combos(T, k)
        <5> HIDE DEF A, B
        <5>1. (\A key : RealKey(S, key) = RealKey(A, key)) /\ (\A c : Combos(S, c) = Combos(A, c))
          BY <4>3, MappedSame
        <5>2. (\A key : RealKey(T, key) = RealKey(B, key)) /\ (\A c : Combos(T, c) = Combos(B, c))
          BY <4>3, MappedSame
        <5>3. QED
          BY <4>2, <5>1, <5>2
      <4>5. Combos(S, k) \cap S.foreign = {}
        BY <1>1, <3>4, <4>1 DEF Sound, KeysFit
      <4>6. Combos(B, k) \cap A.foreign = {}
        <5> HIDE DEF A, B
        <5>1. RealKey(B, a) = RealKey(A, a)
                /\ Combos(A, RealKey(A, a)) \cap A.foreign = {}
                   => Combos(B, RealKey(A, a)) \cap A.foreign = {}
          BY <3>4, <4>3 DEF KeysApart, A, B
        <5>2. QED
          BY <4>3, <4>4, <4>5, <5>1
      <4>7. Combos(T, k) \cap S.foreign = {}
        BY <4>3, <4>4, <4>6
      <4>8. QED
        BY <2>2, <2>5, <2>7, <2>9, <4>1, <4>7
    <3>5. QED
      BY <3>1, <3>2, <3>3, <3>4 DEF KeysFit
  <2>13. Counted(T)
    <3>1. T.edgeCount = S.edgeCount
      BY <2>2, <2>7 DEF SameEdges
    <3>2. \A e : EdgeUsers(T, e) = EdgeUsers(S, e)
      BY <2>9 DEF EdgeUsers
    <3>3. \A b : ButtonUsers(T, b) = ButtonUsers(S, b)
      BY <2>9 DEF ButtonUsers
    <3>4. T.moved = {} => S.moved = {} /\ \A k : KeyUsers(T, k) = KeyUsers(S, k)
      <4>1. SUFFICES ASSUME m = {} PROVE S.moved = {} /\ \A k : KeyUsers(T, k) = KeyUsers(S, k)
        BY <2>9
      <4>2. ASSUME NEW k, NEW o \in Option(s), S.value[o].active
            PROVE  HasKey(T, S.value[o], k) <=> HasKey(S, S.value[o], k)
        BY <2>10, <4>1, <4>2 DEF HasKey
      <4>3. QED
        BY <1>1, <2>9, <4>1, <4>2 DEF KeyUsers
    <3>5. QED
      BY <2>7, <3>1, <3>2, <3>3, <3>4 DEF Counted, Good
  <2>14. Known(s, T)
    <3>1. T.owner = S.owner
      BY <1>1, <2>6 DEF Recorded, Record
    <3>2. QED
      BY <2>9, <3>1 DEF Known, Good
  <2>15. Good(s, T) /\ T.initialized = S.initialized
    BY <2>6, <2>8, <2>9, <2>12, <2>13, <2>14 DEF Good, Sound
  <2>16. QED
    BY <2>15 DEF T, R
<1>5. QED
  BY <1>3, <1>4

-----------------------------------------------------------------------------
(* Events.                                                                 *)

Fine(s, S) == Good(s, S) /\ S.initialized

LEMMA FineKept ==
    ASSUME NEW s \in Sessions, NEW S, Fine(s, S), NEW x
    PROVE  /\ Fine(s, [S EXCEPT !.running = x]) /\ Fine(s, [S EXCEPT !.rebound = x])
           /\ Fine(s, [S EXCEPT !.timer = x]) /\ Fine(s, [S EXCEPT !.edgeWindow = x])
           /\ Fine(s, [S EXCEPT !.xdndWindow = x])
<1>1. Recorded(s, S) /\ Sound(s, S) /\ Good(s, S) /\ S.initialized
  BY DEF Fine, Good, Sound
<1> DEFINE Kept(T) == /\ Recorded(s, T) /\ SameBase(S, T) /\ SameKeys(S, T)
                      /\ SameButtons(S, T) /\ SameEdges(S, T)
<1>2. ASSUME NEW T, Kept(T) PROVE Fine(s, T)
  <2>1. Sound(s, T)
    BY <1>1, <1>2, StillSound DEF SameBase
  <2>2. Good(s, T) /\ T.initialized = S.initialized
    BY <1>1, <1>2, <2>1, StillGood DEF SameBase, SameCounts, SameKeys, SameButtons, SameEdges
  <2>3. QED
    BY <1>1, <2>2 DEF Fine
<1> DEFINE R == [S EXCEPT !.running = x]
           B == [S EXCEPT !.rebound = x]
           I == [S EXCEPT !.timer = x]
           E == [S EXCEPT !.edgeWindow = x]
           D == [S EXCEPT !.xdndWindow = x]
<1>3. Kept(R)
  BY <1>1 DEF Recorded, Record, SameBase, Mapped, SameKeys, SameButtons, SameEdges
<1>4. Kept(B)
  BY <1>1 DEF Recorded, Record, SameBase, Mapped, SameKeys, SameButtons, SameEdges
<1>5. Kept(I)
  BY <1>1 DEF Recorded, Record, SameBase, Mapped, SameKeys, SameButtons, SameEdges
<1>6. Kept(E)
  BY <1>1 DEF Recorded, Record, SameBase, Mapped, SameKeys, SameButtons, SameEdges
<1>7. Kept(D)
  BY <1>1 DEF Recorded, Record, SameBase, Mapped, SameKeys, SameButtons, SameEdges
<1> SUFFICES Fine(s, R) /\ Fine(s, B) /\ Fine(s, I) /\ Fine(s, E) /\ Fine(s, D)
  OBVIOUS
<1> HIDE DEF Kept, R, B, I, E, D
<1>8. QED
  BY <1>2, <1>3, <1>4, <1>5, <1>6, <1>7

\* Callbacks are started and ended.
LEMMA Runs ==
    ASSUME NEW s \in Sessions, NEW S, Fine(s, S), NEW T,
           T = S \/ \E x : T = [S EXCEPT !.running = x]
    PROVE  Fine(s, T)
<1>1. \A x : Fine(s, [S EXCEPT !.running = x])
  BY FineKept
<1>2. QED
  BY Zenon, <1>1

LEMMA EdgeEntered ==
    ASSUME NEW s \in Sessions, NEW S, Fine(s, S), NEW edge, NEW how, NEW delayed
    PROVE  Fine(s, EdgeEnterBindings(S, edge, how, delayed))
<1>1. \E x : EdgeEnterBindings(S, edge, how, delayed) = [S EXCEPT !.running = x]
  BY Zenon DEF EdgeEnterBindings, InitiateFirst
<1>2. QED
  BY <1>1, Runs

LEMMA EdgeLeft ==
    ASSUME NEW s \in Sessions, NEW S, Fine(s, S), NEW edge, NEW how
    PROVE  Fine(s, EdgeLeaveBindings(S, edge, how))
<1>1. \E x : EdgeLeaveBindings(S, edge, how) = [S EXCEPT !.running = x]
  BY Zenon DEF EdgeLeaveBindings, TerminateAll
<1>2. QED
  BY <1>1, Runs

LEMMA EdgeTriggered ==
    ASSUME NEW s \in Sessions, NEW S, Fine(s, S), NEW edge, NEW how
    PROVE  Fine(s, TriggerEdgeEnter(S, edge, how))
<1>1. Fine(s, [S EXCEPT !.timer = <<edge, how>>])
  BY FineKept
<1>2. TriggerEdgeEnter(S, edge, how) =
        IF S.delay THEN EdgeEnterBindings([S EXCEPT !.timer = <<edge, how>>], edge, how, {TRUE})
                   ELSE EdgeEnterBindings(S, edge, how, {})
  BY DEF TriggerEdgeEnter
<1> DEFINE U == [S EXCEPT !.timer = <<edge, how>>]
<1> HIDE DEF U
<1>3. Fine(s, EdgeEnterBindings(U, edge, how, {TRUE})) /\ Fine(s, EdgeEnterBindings(S, edge, how, {}))
  BY <1>1, EdgeEntered DEF U
<1>4. QED
  BY <1>2, <1>3 DEF U

LEMMA Delayed ==
    ASSUME NEW s \in Sessions, NEW S, Fine(s, S)
    PROVE  Fine(s, DelayedEdgeTimeout(S))
<1> DEFINE U == [S EXCEPT !.timer = None]
<1>1. Fine(s, U)
  BY FineKept
<1>2. DelayedEdgeTimeout(S) = EdgeEnterBindings(U, S.timer[1], S.timer[2], {FALSE})
  BY DEF DelayedEdgeTimeout
<1> HIDE DEF U
<1>3. QED
  BY <1>1, <1>2, EdgeEntered

LEMMA Triggered ==
    ASSUME NEW s \in Sessions, NEW S, Fine(s, S), NEW e
    PROVE  /\ Fine(s, TriggerButtonPress(S, e)) /\ Fine(s, TriggerButtonRelease(S, e))
           /\ Fine(s, TriggerKeyPress(S, e)) /\ Fine(s, TriggerKeyRelease(S, e))
           /\ Fine(s, TriggerStateNotify(S, e))
<1>1. Fine(s, TriggerButtonPress(S, e))
  <2>1. \/ TriggerButtonPress(S, e) = S
        \/ \E x : TriggerButtonPress(S, e) = [S EXCEPT !.running = x]
    BY Zenon DEF TriggerButtonPress, InitiateFirst
  <2>2. QED
    BY <2>1, Runs
<1>2. Fine(s, TriggerButtonRelease(S, e))
  <2>1. \E x : TriggerButtonRelease(S, e) = [S EXCEPT !.running = x]
    BY Zenon DEF TriggerButtonRelease, TerminateAll
  <2>2. QED
    BY <2>1, Runs
<1>3. Fine(s, TriggerKeyPress(S, e))
  <2> DEFINE U == [S EXCEPT !.running = {}]
             T == TriggerKeyPress(S, e)
  <2>1. Fine(s, U)
    BY FineKept
  <2>2. \/ T = U
        \/ \E x : T = [U EXCEPT !.running = x]
        \/ \E x : T = [S EXCEPT !.running = x]
    <3>1. CASE e.code = S.escape
      BY Zenon, <3>1 DEF TriggerKeyPress
    <3>2. CASE e.code # S.escape /\ e.code = S.return
      BY Zenon, <3>2 DEF TriggerKeyPress, InitiateFirst
    <3>3. CASE e.code # S.escape /\ e.code # S.return
      BY Zenon, <3>3 DEF TriggerKeyPress, InitiateFirst
    <3>4. QED
      BY <3>1, <3>2, <3>3
  <2> HIDE DEF U, T
  <2>3. Fine(s, T)
    BY <2>1, <2>2, Runs
  <2>4. QED
    BY <2>3 DEF T
<1>4. Fine(s, TriggerKeyRelease(S, e))
  <2>1. \/ TriggerKeyRelease(S, e) = S
        \/ \E x : TriggerKeyRelease(S, e) = [S EXCEPT !.running = x]
    BY Zenon DEF TriggerKeyRelease, TerminateAll
  <2>2. QED
    BY <2>1, Runs
<1>5. Fine(s, TriggerStateNotify(S, e))
  <2>1. \E x : TriggerStateNotify(S, e) = [S EXCEPT !.running = x]
    BY Zenon DEF TriggerStateNotify, InitiateFirst, TerminateAll
  <2>2. QED
    BY <2>1, Runs
<1>6. QED
  BY <1>1, <1>2, <1>3, <1>4, <1>5

LEMMA Entered ==
    ASSUME NEW s \in Sessions, NEW S, Fine(s, S), NEW e
    PROVE  Fine(s, EnterNotify(S, e))
<1> DEFINE U == [S EXCEPT !.timer = None]
           N == [U EXCEPT !.edgeWindow = None]
           L == IF U.edgeWindow \in {None, e.window} THEN U
                ELSE EdgeLeaveBindings(N, U.edgeWindow, "edge")
           W == [L EXCEPT !.edgeWindow = e.window]
           T == IF e.window \notin DOMAIN L.edgeCount THEN L
                ELSE TriggerEdgeEnter(W, e.window, "edge")
<1>1. EnterNotify(S, e) = T
  BY DEF EnterNotify
<1>2. Fine(s, U)
  BY FineKept
<1> HIDE DEF U
<1>3. Fine(s, N)
  BY <1>2, FineKept
<1> HIDE DEF N
<1>4. Fine(s, L)
  BY <1>2, <1>3, EdgeLeft
<1> HIDE DEF L
<1>5. Fine(s, W)
  BY <1>4, FineKept
<1> HIDE DEF W
<1>6. Fine(s, T)
  BY <1>4, <1>5, EdgeTriggered
<1>7. QED
  BY <1>1, <1>6

LEMMA Dragged ==
    ASSUME NEW s \in Sessions, NEW S, Fine(s, S), NEW e,
           e.what \in {"xdndEnter", "xdndLeave", "xdndPosition"}
    PROVE  Fine(s, DndMessage(S, e))
<1>1. CASE e.what = "xdndEnter"
  <2> DEFINE U == [S EXCEPT !.xdndWindow = e.window]
  <2>1. DndMessage(S, e) = U
    BY <1>1 DEF DndMessage
  <2>2. Fine(s, U)
    BY FineKept
  <2>3. QED
    BY <2>1, <2>2
<1>2. CASE e.what = "xdndLeave"
  <2>1. DndMessage(S, e) = IF S.xdndWindow = None THEN EdgeLeaveBindings(S, e.window, "dnd") ELSE S
    BY <1>2 DEF DndMessage
  <2>2. QED
    BY <2>1, EdgeLeft
<1>3. CASE e.what = "xdndPosition"
  <2> DEFINE P == IF S.xdndWindow = e.window THEN TriggerEdgeEnter(S, e.window, "dnd") ELSE S
             U == [P EXCEPT !.xdndWindow = None]
  <2>1. DndMessage(S, e) = U
    BY <1>3 DEF DndMessage
  <2>2. Fine(s, P)
    BY EdgeTriggered
  <2> HIDE DEF P
  <2>3. Fine(s, U)
    BY <2>2, FineKept
  <2>4. QED
    BY <2>1, <2>3
<1>4. QED
  BY <1>1, <1>2, <1>3

LEMMA Handled ==
    ASSUME NEW s \in Sessions, NEW S, Fine(s, S), NEW e, Understood(s, e), NEW l, NEW m,
           m = S.moved \cup (IF e.what = "MappingNotify" THEN Moved(S, e.mask) ELSE {})
    PROVE  Fine(s, HandleActionEvent(Noted(S, m, l), e))
<1> DEFINE U == Noted(S, m, l)
<1>1. CASE e.what = "MappingNotify"
  <2>1. HandleActionEvent(U, e) = UpdateModifierMappings(U, e.mask)
    BY <1>1 DEF HandleActionEvent
  <2>2. m = S.moved \cup Moved(S, e.mask) /\ e.mask \in s.masks /\ Good(s, S)
    BY <1>1 DEF Understood, Fine
  <2>3. LET T == UpdateModifierMappings(U, e.mask)
        IN  Good(s, T) /\ T.initialized = S.initialized
    <3> DEFINE mask == e.mask
    <3>1. mask \in s.masks /\ m = S.moved \cup Moved(S, mask)
      BY <2>2
    <3> HIDE DEF mask
    <3>2. LET T == UpdateModifierMappings(Noted(S, m, l), mask)
          IN  Good(s, T) /\ T.initialized = S.initialized
      <4>1. Good(s, S)
        BY <2>2
      <4>2. QED
        BY ONLY <3>1, <4>1, MappingChanged, s \in Sessions
    <3>3. QED
      BY <3>2 DEF mask
  <2>4. QED
    BY <2>1, <2>3 DEF Fine
<1>2. CASE e.what # "MappingNotify"
  <2>1. m = S.moved
    BY <1>2
  <2>2. Fine(s, U)
    <3>1. Recorded(s, S) /\ Sound(s, S) /\ Good(s, S) /\ S.initialized
      BY DEF Fine, Good, Sound
    <3>2. /\ Recorded(s, U) /\ SameBase(S, U) /\ SameKeys(S, U)
          /\ SameButtons(S, U) /\ SameEdges(S, U)
      BY <2>1, <3>1
         DEF Noted, Recorded, Record, SameBase, Mapped, SameKeys, SameButtons, SameEdges
    <3> HIDE DEF U
    <3>3. Sound(s, U)
      BY <3>1, <3>2, StillSound DEF SameBase
    <3>4. Good(s, U) /\ U.initialized
      BY <3>1, <3>2, <3>3, StillGood
         DEF SameBase, SameCounts, SameKeys, SameButtons, SameEdges
    <3>5. QED
      BY <3>4 DEF Fine
  <2>0. SUFFICES Fine(s, HandleActionEvent(U, e))
    OBVIOUS
  <2> HIDE DEF U
  <2>3. CASE e.what \in {"ButtonPress", "ButtonRelease", "KeyPress", "KeyRelease", "StateNotify"}
    <3>1. HandleActionEvent(U, e) \in {TriggerButtonPress(U, e), TriggerButtonRelease(U, e),
             TriggerKeyPress(U, e), TriggerKeyRelease(U, e), TriggerStateNotify(U, e)}
      BY <2>3 DEF HandleActionEvent
    <3>2. QED
      BY <2>2, <3>1, Triggered
  <2>4. CASE e.what = "EnterNotify"
    <3>1. HandleActionEvent(U, e) = EnterNotify(U, e)
      BY <2>4 DEF HandleActionEvent
    <3>2. QED
      BY <2>2, <3>1, Entered
  <2>5. CASE e.what \in {"xdndEnter", "xdndLeave", "xdndPosition"}
    <3>1. HandleActionEvent(U, e) = DndMessage(U, e)
      BY <2>5 DEF HandleActionEvent
    <3>2. QED
      BY <2>2, <2>5, <3>1, Dragged
  <2>6. QED
    BY <1>2, <2>3, <2>4, <2>5 DEF Understood, Kinds
<1>3. QED
  BY <1>1, <1>2

LEMMA SentNothing ==
    ASSUME NEW s PROVE Fitting(s, <<>>)
<1> DEFINE q == <<>>
           Q == {}
<1>1. q \in Seq(Q) /\ \A e \in Q : Understood(s, e)
  OBVIOUS
<1> SUFFICES Fitting(s, q)
  OBVIOUS
<1> HIDE DEF q, Q
<1>2. QED
  BY <1>1 DEF Fitting

LEMMA SentOne ==
    ASSUME NEW s, NEW x, Understood(s, x) PROVE Fitting(s, <<x>>)
<1> DEFINE q == <<x>>
           Q == {x}
<1>1. q \in Seq(Q) /\ \A e \in Q : Understood(s, e)
  OBVIOUS
<1> SUFFICES Fitting(s, q)
  OBVIOUS
<1> HIDE DEF q, Q
<1>2. QED
  BY <1>1 DEF Fitting

LEMMA Sent ==
    ASSUME NEW s, NEW q, NEW p, Fitting(s, q), Fitting(s, p)
    PROVE  Fitting(s, q \o p)
<1>1. PICK Q : q \in Seq(Q) /\ \A e \in Q : Understood(s, e)
  BY DEF Fitting
<1>2. PICK E : p \in Seq(E) /\ \A e \in E : Understood(s, e)
  BY DEF Fitting
<1> DEFINE R == Q \cup E
<1>3. q \in Seq(R) /\ p \in Seq(R) /\ \A e \in R : Understood(s, e)
  BY <1>1, <1>2, SeqMonotonic
<1> HIDE DEF R
<1>4. q \o p \in Seq(R)
  BY <1>3, ConcatProperties
<1>5. QED
  BY <1>3, <1>4 DEF Fitting

-----------------------------------------------------------------------------
(* The steps.                                                              *)

LEMMA InitInv == Init => Inv
<1> SUFFICES ASSUME Init PROVE Inv
  OBVIOUS
<1> DEFINE s == session
           S == s.start
           D == {o \in DOMAIN S.value : S.owner[o] = "core"}
           A == InitOptions(S, D)
           B == [A EXCEPT !.initialized = TRUE]
           E == {o \in DOMAIN S.owner : S.owner[o] \in S.loaded \ {"core"}}
<1>1. s \in Sessions /\ queue = <<>> /\ core = InitOptions(AddScreenActions(S), E)
  BY DEF Init
<1>2. AddScreenActions(S) = B
  BY DEF AddScreenActions
<1>3. Good(s, S) /\ ~S.initialized
  BY <1>1, NothingBound
<1>4. D \in SUBSET Option(s) /\ E \in SUBSET Option(s)
  <2>1. DOMAIN S.value = Option(s)
    BY DEF Option
  <2>2. S \in Unbegun(Option(s), Edge(s), S)
    BY <1>1, SessionsAssumption DEF Option, Edge
  <2> HIDE DEF S
  <2>3. DOMAIN S.owner = Option(s)
    BY <2>2 DEF Unbegun
  <2>4. QED
    BY <2>1, <2>3
<1> HIDE DEF D
<1>5. Good(s, A) /\ A.loaded = S.loaded
  BY <1>1, <1>3, <1>4, OptionsBegun
<1> HIDE DEF A
<1>6. Good(s, B) /\ B.initialized /\ B.loaded = A.loaded
  BY <1>1, <1>5, Started
<1>7. B.owner = S.owner
  BY <1>6 DEF Good, Sound, Recorded, Record
<1> HIDE DEF B
<1>8. \A o \in E : B.owner[o] \in B.loaded
  BY <1>5, <1>6, <1>7
<1> HIDE DEF E
<1>9. Good(s, core) /\ core.initialized
  <2> DEFINE T == InitOptions(B, E)
  <2>1. Good(s, T) /\ T.initialized = B.initialized
    BY <1>1, <1>4, <1>6, <1>8, OptionsBegun
  <2>2. QED
    BY <1>1, <1>2, <1>6, <2>1
<1>10. Fitting(session, queue)
  BY <1>1, SentNothing
<1>11. QED
  BY <1>1, <1>9, <1>10 DEF Inv

\* What the user does with keys, buttons and the pointer does not touch compiz.
LEMMA UserKeeps ==
    ASSUME Inv, \/ PressKey \/ ReleaseKey \/ PressModifier \/ ReleaseModifier
                \/ PressButton \/ ReleaseButton \/ MovePointer \/ Drag \/ LeaveDrag
                \/ ChangesMapping
    PROVE  Inv'
<1>1. session' = session /\ core' = core
  BY DEF PressKey, ReleaseKey, PressModifier, ReleaseModifier, PressButton, ReleaseButton,
         MovePointer, Drag, LeaveDrag, ChangesMapping, Act
<1>2. Fitting(session, <<>>)
  BY SentNothing
<1>3. \A x : Understood(session, x) => Fitting(session, <<x>>)
  BY SentOne
<1> DEFINE Sending == \E p : Send(p) /\ Fitting(session, p)
<1>8. \A what, code, mods : what \in Kinds \ {"MappingNotify"} =>
          Understood(session, Event(what, code, mods))
  BY DEF Understood, Event, Kinds
<1>9. \A press, mods :
          Understood(session, [what |-> "StateNotify", press |-> press, mods |-> mods])
  BY DEF Understood, Kinds
<1>10. PressKey => Sending
  <2> SUFFICES ASSUME PressKey PROVE Sending
    OBVIOUS
  <2>1. PICK k : Send(KeyEvents("KeyPress", k))
    BY DEF PressKey
  <2>2. Send(<<>>) \/ Send(<<Event("KeyPress", k, Mods)>>)
    BY <2>1 DEF KeyEvents
  <2>3. Understood(session, Event("KeyPress", k, Mods))
    BY <1>8 DEF Kinds
  <2>4. QED
    BY <1>2, <1>3, <2>2, <2>3
<1>11. ReleaseKey => Sending
  <2> SUFFICES ASSUME ReleaseKey PROVE Sending
    OBVIOUS
  <2>1. Send(<<>>) \/ Send(<<Event("KeyRelease", hand.key, Mods)>>)
    BY DEF ReleaseKey
  <2>2. Understood(session, Event("KeyRelease", hand.key, Mods))
    BY <1>8 DEF Kinds
  <2>3. QED
    BY <1>2, <1>3, <2>1, <2>2
<1>12. PressModifier => Sending
  <2> SUFFICES ASSUME PressModifier PROVE Sending
    OBVIOUS
  <2>1. PICK m : Send(KeyEvents("KeyPress", Min(core.modMap[m])) \o
                      (IF core.xkb THEN <<[what |-> "StateNotify", press |-> TRUE,
                                           mods |-> Mods \cup {m}]>> ELSE <<>>))
    BY DEF PressModifier
  <2> DEFINE x == Event("KeyPress", Min(core.modMap[m]), Mods)
             y == [what |-> "StateNotify", press |-> TRUE, mods |-> Mods \cup {m}]
             a == KeyEvents("KeyPress", Min(core.modMap[m]))
             b == IF core.xkb THEN <<y>> ELSE <<>>
  <2>2. Understood(session, x) /\ Understood(session, y)
    BY <1>8, <1>9 DEF Kinds
  <2>3. a \in {<<>>, <<x>>} /\ b \in {<<>>, <<y>>} /\ Send(a \o b)
    BY <2>1 DEF KeyEvents
  <2> HIDE DEF x, y, a, b
  <2>4. Fitting(session, a) /\ Fitting(session, b)
    BY <1>2, <1>3, <2>2, <2>3
  <2>5. Fitting(session, a \o b)
    BY <2>4, Sent
  <2>6. QED
    BY <2>3, <2>5
<1>13. ReleaseModifier => Sending
  <2> SUFFICES ASSUME ReleaseModifier PROVE Sending
    OBVIOUS
  <2>1. PICK m : Send((IF hand.kbd # None THEN <<Event("KeyRelease", Min(core.modMap[m]), Mods)>>
                       ELSE <<>>) \o
                      (IF core.xkb THEN <<[what |-> "StateNotify", press |-> FALSE,
                                           mods |-> Mods \ {m}]>> ELSE <<>>))
    BY DEF ReleaseModifier
  <2> DEFINE x == Event("KeyRelease", Min(core.modMap[m]), Mods)
             y == [what |-> "StateNotify", press |-> FALSE, mods |-> Mods \ {m}]
             a == IF hand.kbd # None THEN <<x>> ELSE <<>>
             b == IF core.xkb THEN <<y>> ELSE <<>>
  <2>2. Understood(session, x) /\ Understood(session, y)
    BY <1>8, <1>9 DEF Kinds
  <2>3. a \in {<<>>, <<x>>} /\ b \in {<<>>, <<y>>} /\ Send(a \o b)
    BY <2>1
  <2> HIDE DEF x, y, a, b
  <2>4. Fitting(session, a) /\ Fitting(session, b)
    BY <1>2, <1>3, <2>2, <2>3
  <2>5. Fitting(session, a \o b)
    BY <2>4, Sent
  <2>6. QED
    BY <2>3, <2>5
<1>14. PressButton => Sending
  <2> SUFFICES ASSUME PressButton PROVE Sending
    OBVIOUS
  <2>1. \E x : /\ x.what = "ButtonPress"
               /\ Send(<<>>) \/ Send(<<x>>)
    <3>1. PICK c : \E w : LET e == [what |-> "ButtonPress", code |-> c, mods |-> Mods, window |-> w]
                          IN  Send(<<>>) \/ Send(<<e>>)
      BY Zenon DEF PressButton
    <3>2. PICK w : LET e == [what |-> "ButtonPress", code |-> c, mods |-> Mods, window |-> w]
                   IN  Send(<<>>) \/ Send(<<e>>)
      BY <3>1
    <3>3. [what |-> "ButtonPress", code |-> c, mods |-> Mods, window |-> w].what = "ButtonPress"
      OBVIOUS
    <3>4. QED
      BY <3>2, <3>3
  <2>2. \A x : x.what = "ButtonPress" => Understood(session, x)
    BY DEF Understood, Kinds
  <2>3. QED
    BY <1>2, <1>3, <2>1, <2>2
<1>15. ReleaseButton => Sending
  <2> SUFFICES ASSUME ReleaseButton PROVE Sending
    OBVIOUS
  <2> DEFINE x == [what |-> "ButtonRelease", code |-> hand.button, mods |-> Mods]
  <2>1. Send(<<>>) \/ Send(<<x>>)
    BY DEF ReleaseButton
  <2>2. Understood(session, x)
    BY DEF Understood, Kinds
  <2> HIDE DEF x
  <2>3. QED
    BY <1>2, <1>3, <2>1, <2>2
<1>16. \A what, w : what \in Kinds \ {"MappingNotify"} =>
          Understood(session, [what |-> what, window |-> w])
  BY DEF Understood, Kinds
<1>17. MovePointer => Sending
  <2> SUFFICES ASSUME MovePointer PROVE Sending
    OBVIOUS
  <2>1. PICK p : Send(<<[what |-> "EnterNotify", window |-> p]>>)
    BY DEF MovePointer
  <2>2. Understood(session, [what |-> "EnterNotify", window |-> p])
    BY <1>16 DEF Kinds
  <2>3. QED
    BY <1>3, <2>1, <2>2
<1>18. Drag => Sending
  <2> SUFFICES ASSUME Drag PROVE Sending
    OBVIOUS
  <2>1. \/ \E e : Send(<<[what |-> "xdndEnter", window |-> e]>>)
        \/ Send(<<[what |-> "xdndPosition", window |-> hand.drag]>>)
    BY DEF Drag
  <2>2. /\ \A e : Understood(session, [what |-> "xdndEnter", window |-> e])
        /\ Understood(session, [what |-> "xdndPosition", window |-> hand.drag])
    BY <1>16 DEF Kinds
  <2>3. QED
    BY <1>3, <2>1, <2>2
<1>19. LeaveDrag => Sending
  <2> SUFFICES ASSUME LeaveDrag PROVE Sending
    OBVIOUS
  <2>1. Send(<<[what |-> "xdndLeave", window |-> hand.drag]>>)
    BY DEF LeaveDrag
  <2>2. Understood(session, [what |-> "xdndLeave", window |-> hand.drag])
    BY <1>16 DEF Kinds
  <2>3. QED
    BY <1>3, <2>1, <2>2
<1>20. ChangesMapping => Sending
  <2> SUFFICES ASSUME ChangesMapping PROVE Sending
    OBVIOUS
  <2>1. PICK m \in session.masks : Send(<<[what |-> "MappingNotify", mask |-> m]>>)
    BY DEF ChangesMapping
  <2>2. Understood(session, [what |-> "MappingNotify", mask |-> m])
    BY DEF Understood, Kinds
  <2>3. QED
    BY <1>3, <2>1, <2>2
<1>21. PICK p : Send(p) /\ Fitting(session, p)
  BY <1>10, <1>11, <1>12, <1>13, <1>14, <1>15, <1>17, <1>18, <1>19, <1>20
<1>22. Fitting(session, queue \o p)
  BY <1>21, Sent DEF Inv
<1>23. queue' = queue \o p
  BY <1>21 DEF Send
<1>24. QED
  BY <1>1, <1>22, <1>23 DEF Inv

\* An edge window may be unmapped under the pointer, which then enters the root window.
LEMMA RebindKeeps ==
    ASSUME Inv, session' = session, NEW T, Fine(session, T), Rebind(T)
    PROVE  Inv'
<1> DEFINE x == [what |-> "EnterNotify", window |-> "root"]
<1>1. core' = T /\ (queue' = queue \/ queue' = queue \o <<x>>)
  BY DEF Rebind, Send
<1>2. Understood(session, x)
  BY DEF Understood, Kinds
<1> HIDE DEF x
<1>3. Fitting(session, queue) /\ Fitting(session, queue \o <<x>>)
  BY <1>2, SentOne, Sent DEF Inv
<1>4. QED
  BY <1>1, <1>3 DEF Inv, Fine

\* The first lines of SessionsAssumption, for the options of a session
LEMMA Configured ==
    ASSUME NEW s \in Sessions
    PROVE  /\ s.start.kind \in [Option(s) -> {"key", "button", "edge"}]
           /\ DOMAIN s.start.owner = Option(s)
           /\ DOMAIN s.values \subseteq Option(s)
<1> DEFINE B == s.start
<1>1. B \in Unbegun(Option(s), Edge(s), B) /\ DOMAIN s.values \subseteq Option(s)
  BY SessionsAssumption DEF Option, Edge
<1> HIDE DEF B
<1>2. B.kind \in [Option(s) -> {"key", "button", "edge"}] /\ DOMAIN B.owner = Option(s)
  BY <1>1 DEF Unbegun
<1>3. QED
  BY <1>1, <1>2 DEF B

LEMMA SetsKeeps ==
    ASSUME Inv, SetsOption PROVE Inv'
<1> DEFINE s == session
<1>1. PICK o \in DOMAIN s.values : \E v \in s.values[o] :
          /\ core.owner[o] \in core.loaded
          /\ Rebind(Rebound(SetOption(core, o, v), {o}))
  BY DEF SetsOption, S0
<1>2. PICK v \in s.values[o] :
          /\ core.owner[o] \in core.loaded
          /\ Rebind(Rebound(SetOption(core, o, v), {o}))
  BY <1>1
<1>3. s \in Sessions /\ Good(s, core) /\ core.initialized /\ session' = s
  BY DEF Inv, SetsOption, Act
<1> HIDE DEF s
<1>4. o \in Option(s) /\ core.kind = s.start.kind /\ core.kind[o] \in {"key", "button", "edge"}
  BY <1>3, Configured DEF Good, Sound, Recorded, Record
<1>5. v \in Parsed(Edge(s)) /\ Fits(v, s.start.kind[o])
  BY <1>3, SessionsAssumption DEF Edge
<1>6. v \in Binding(s) /\ ~v.active
  BY <1>5 DEF Parsed, Binding, Coded
<1>7. "key" \in v.type => v.key \in KeyStrings(s)
  BY DEF KeyStrings, Bindable
<1>8. Fine(s, SetOption(core, o, v))
  BY <1>2, <1>3, <1>4, <1>5, <1>6, <1>7, OptionSet DEF Fine
<1>9. Fine(s, Rebound(SetOption(core, o, v), {o}))
  BY <1>3, <1>8, FineKept DEF Rebound
<1>10. QED
  BY <1>2, <1>3, <1>9, RebindKeeps DEF s

LEMMA LoadsKeeps ==
    ASSUME Inv, LoadsPlugin PROVE Inv'
<1> DEFINE s == session
           D(p) == {o \in DOMAIN core.value : core.owner[o] = p}
           x(p) == [o \in DOMAIN core.value |-> IF o \in D(p) THEN s.start.value[o]
                                                              ELSE core.value[o]]
           l(p) == core.loaded \cup {p}
           T(p) == [core EXCEPT !.loaded = l(p), !.value = x(p)]
<1>1. PICK p \in Range(core.owner) \ core.loaded : Rebind(InitOptions(T(p), D(p)))
  BY DEF LoadsPlugin, S0, OfPlugin
<1>2. s \in Sessions /\ Good(s, core) /\ core.initialized /\ session' = s
  BY DEF Inv, LoadsPlugin, Act
<1>3. DOMAIN core.value = Option(s)
  BY <1>2 DEF Good, Sound, Recorded, Record
<1>4. x(p) = [o \in Option(s) |-> IF core.owner[o] = p THEN s.start.value[o] ELSE core.value[o]]
  BY <1>3
<1> DEFINE X == x(p)
           L == l(p)
           U == T(p)
           DD == D(p)
<1>5. U = [core EXCEPT !.loaded = L, !.value = X]
  OBVIOUS
<1>6. L = core.loaded \cup {p} /\ DD \in SUBSET Option(s) /\ \A o \in DD : core.owner[o] = p
  BY <1>3
<1>7. Rebind(InitOptions(U, DD))
  BY <1>1
<1>8. X = [o \in Option(s) |-> IF core.owner[o] = p THEN s.start.value[o] ELSE core.value[o]]
  BY <1>4
<1> HIDE DEF x, l, T, D, X, L, DD, U, s
<1>9. Good(s, U) /\ U.initialized = core.initialized /\ U.loaded = L /\ U.owner = core.owner
  <2>1. LET W == Reset(core, L, X)
        IN  Good(s, W) /\ W.initialized = core.initialized /\ W.loaded = L /\ W.owner = core.owner
    <3>1. p \notin core.loaded /\ s \in Sessions /\ Good(s, core) /\ L = core.loaded \cup {p}
      BY <1>1, <1>2, <1>6
    <3>2. QED
      BY ONLY <1>8, <3>1, ValuesReset
  <2>2. QED
    BY <1>5, <2>1 DEF Reset
<1>10. \A o \in DD : U.owner[o] \in U.loaded
  BY <1>6, <1>9
<1>11. LET V == InitOptions(U, DD) IN Good(s, V) /\ V.initialized = U.initialized
  BY <1>2, <1>6, <1>9, <1>10, OptionsBegun
<1>12. Fine(s, InitOptions(U, DD))
  BY <1>2, <1>9, <1>11 DEF Fine
<1>13. QED
  BY <1>2, <1>7, <1>12, RebindKeeps DEF s

LEMMA UnloadsKeeps ==
    ASSUME Inv, UnloadsPlugin PROVE Inv'
<1> DEFINE s == session
           D(p) == {o \in DOMAIN core.value : core.owner[o] = p}
           S(p) == FiniOptions(core, D(p))
           T(p) == [S(p) EXCEPT !.loaded = @ \ {p},
                                !.running = {r \in @ : S(p).owner[r[1]] # p}]
<1>1. PICK p \in core.loaded : Rebind(T(p))
  BY DEF UnloadsPlugin, S0, OfPlugin
<1>2. s \in Sessions /\ Good(s, core) /\ core.initialized /\ session' = s
  BY DEF Inv, UnloadsPlugin, Act
<1>3. D(p) \in SUBSET Option(s) /\ \A o \in Option(s) \ D(p) : core.owner[o] # p
  BY <1>2 DEF Good, Sound, Recorded, Record
<1> DEFINE DD == D(p)
           U == FiniOptions(core, DD)
           L == U.loaded \ {p}
           R == {r \in U.running : U.owner[r[1]] # p}
<1>4. T(p) = [U EXCEPT !.loaded = L, !.running = R]
  OBVIOUS
<1>5. DD \in SUBSET Option(s) /\ \A o \in Option(s) \ DD : core.owner[o] # p
  BY <1>3
<1>6. L = U.loaded \ {p} /\ U = FiniOptions(core, DD)
  OBVIOUS
<1>7. Rebind(T(p))
  BY <1>1
<1> HIDE DEF D, S, T, DD, U, L, R, s
<1>8. Good(s, U) /\ U.initialized /\ U.loaded = core.loaded /\ \A o \in DD : ~U.value[o].active
  BY <1>2, <1>5, <1>6, OptionsEnded
<1>9. U.owner = core.owner
  BY <1>2, <1>8 DEF Good, Sound, Recorded, Record
<1>10. \A o \in Option(s) : U.value[o].active => U.owner[o] \in L
  BY <1>5, <1>6, <1>8, <1>9 DEF Good, Known
<1>11. LET V == Unload(U, L, R) IN Good(s, V) /\ V.initialized = U.initialized
  <2>1. s \in Sessions /\ Good(s, U)
    BY <1>2, <1>8
  <2>2. QED
    BY ONLY <1>10, <2>1, Unloaded
<1>12. Fine(s, T(p))
  BY <1>4, <1>8, <1>11 DEF Fine, Unload
<1>13. QED
  BY <1>2, <1>7, <1>12, RebindKeeps DEF s

LEMMA EventKeeps ==
    ASSUME Inv, HandleEvent PROVE Inv'
<1> DEFINE s == session
           e == Head(queue)
           m == core.moved \cup (IF e.what = "MappingNotify" THEN Moved(core, e.mask) ELSE {})
           l == core.late \/ Outlived(core, e)
<1>1. /\ queue # <<>> /\ queue' = Tail(queue) /\ session' = s
      /\ core' = HandleActionEvent([core EXCEPT !.moved = m, !.late = l], e)
  BY DEF HandleEvent
<1>2. [core EXCEPT !.moved = m, !.late = l] = Noted(core, m, l)
  BY DEF Noted
<1>3. s \in Sessions /\ Good(s, core) /\ core.initialized /\ Fitting(s, queue)
  BY DEF Inv
<1>4. m = core.moved \cup (IF e.what = "MappingNotify" THEN Moved(core, e.mask) ELSE {})
  OBVIOUS
<1>5. core' = HandleActionEvent(Noted(core, m, l), e)
  BY <1>1, <1>2
<1> HIDE DEF s, m, l
<1>6. Understood(s, e) /\ Fitting(s, Tail(queue))
  <2>1. PICK Q : queue \in Seq(Q) /\ \A i \in Q : Understood(s, i)
    BY <1>3 DEF Fitting
  <2>2. Head(queue) \in Q /\ Tail(queue) \in Seq(Q)
    BY <1>1, <2>1, HeadTailProperties
  <2>3. QED
    BY <2>1, <2>2 DEF Fitting
<1> HIDE DEF e
<1>7. Fine(s, core)
  BY <1>3 DEF Fine
<1>8. Fine(s, HandleActionEvent(Noted(core, m, l), e))
  BY <1>3, <1>4, <1>6, <1>7, Handled
<1>9. QED
  BY <1>1, <1>3, <1>5, <1>6, <1>8 DEF Inv, Fine, s

LEMMA NextKeeps ==
    ASSUME Inv, [Next]_vars PROVE Inv'
<1>1. CASE UNCHANGED vars
  BY <1>1 DEF vars, Inv
<1>2. CASE EdgeTimer
  <2>1. /\ session' = session /\ queue' = queue /\ core' = DelayedEdgeTimeout(core)
        /\ session \in Sessions /\ Fine(session, core) /\ Fitting(session, queue)
    BY <1>2 DEF EdgeTimer, Inv, Fine
  <2>2. Fine(session, DelayedEdgeTimeout(core))
    BY <2>1, Delayed
  <2>3. QED
    BY <2>1, <2>2 DEF Inv, Fine
<1>3. QED
  BY <1>1, <1>2, UserKeeps, SetsKeeps, LoadsKeeps, UnloadsKeeps, EventKeeps DEF Next

\* Throughout a session the counts of grabs are those of the active actions, and what the
\* server has been asked for is what the counts say.
THEOREM Invariant == Spec => []Inv
<1>1. Inv /\ [Next]_vars => Inv'
  BY NextKeeps
<1>2. QED
  BY <1>1, InitInv, PTL DEF Spec

-----------------------------------------------------------------------------
(* What follows from it.                                                   *)

LEMMA Options ==
    ASSUME Inv
    PROVE  /\ core.value \in [Option(session) -> Binding(session)]
           /\ IsFiniteSet(Option(session))
           /\ core.edgeCount \in [Edge(session) -> Int]
<1>1. Recorded(session, core) /\ session \in Sessions
  BY DEF Inv, Good, Sound
<1>2. IsFiniteSet(Option(session))
  BY <1>1, SessionsAssumption DEF Option
<1>3. QED
  BY <1>1, <1>2 DEF Recorded, Record

\* Something is counted where somebody is.
LEMMA SomeUser ==
    ASSUME NEW X, IsFiniteSet(X), NEW Y \in SUBSET X
    PROVE  Cardinality(Y) \in Nat /\ (Cardinality(Y) > 0 <=> Y # {})
<1>1. IsFiniteSet(Y)
  BY FS_Subset
<1>2. Cardinality(Y) \in Nat /\ (Cardinality(Y) = 0 <=> Y = {})
  BY <1>1, FS_EmptySet, FS_CardinalityType
<1>3. QED
  BY <1>2

LEMMA InvEdges == Inv => EdgesMapped
<1> SUFFICES ASSUME Inv PROVE EdgesMapped
  OBVIOUS
<1>1. \A e \in DOMAIN core.edgeCount : core.edgeCount[e] > 0 <=> EdgeUsers(core, e) # {}
  <2>1. \A e : EdgeUsers(core, e) \in SUBSET Option(session)
    BY Options DEF EdgeUsers
  <2>2. \A e : Cardinality(EdgeUsers(core, e)) > 0 <=> EdgeUsers(core, e) # {}
    BY <2>1, Options, SomeUser
  <2>3. QED
    BY <2>2 DEF Inv, Good, Counted
<1>2. core.edgesMapped = {e \in Edge(session) : EdgeUsers(core, e) # {}}
  BY <1>1, Options DEF Inv, Good, Sound, EdgesFit
<1>3. \A o \in Option(session) : core.value[o].edges \subseteq Edge(session)
  BY Options DEF Binding
<1>4. QED
  BY <1>2, <1>3, Options DEF EdgesMapped, Active, EdgeUsers

LEMMA InvButtons == Inv => ButtonsGrabbed
<1> SUFFICES ASSUME Inv PROVE ButtonsGrabbed
  OBVIOUS
<1> DEFINE wanted == {o \in Active : Is(core, o, "button")}
           Grabbed(b) == LET mods == VirtualToReal(core, b.mods)
                         IN  IF Unmapped \in mods THEN {}
                             ELSE {<<b.code, mods \cup i>> : i \in SUBSET Ignored(core)}
           Pair(o) == <<core.value[o].button.code, core.value[o].button.mods>>
           Of(b) == LET mods == VirtualToReal(core, b[2])
                    IN  IF Unmapped \in mods THEN {}
                        ELSE {<<b[1], mods \cup i>> : i \in SUBSET Ignored(core)}
<1>1. \A b : b \in DOMAIN core.buttonGrabs <=> ButtonUsers(core, b) # {}
  <2> SUFFICES ASSUME NEW b
               PROVE  b \in DOMAIN core.buttonGrabs <=> ButtonUsers(core, b) # {}
    OBVIOUS
  <2>1. ButtonUsers(core, b) \in SUBSET Option(session)
    BY Options DEF ButtonUsers
  <2>2. Cardinality(ButtonUsers(core, b)) > 0 <=> ButtonUsers(core, b) # {}
    BY <2>1, Options, SomeUser
  <2>3. Amount(core.buttonGrabs, b) = Cardinality(ButtonUsers(core, b))
    BY DEF Inv, Good, Counted
  <2>4. b \in DOMAIN core.buttonGrabs <=> Amount(core.buttonGrabs, b) > 0
    BY DEF Inv, Good, Sound, ButtonsFit, Positive, Amount
  <2>5. QED
    BY <2>2, <2>3, <2>4
<1>2. \A b : ButtonUsers(core, b) # {} <=> \E o \in wanted : b = Pair(o)
  BY DEF ButtonUsers, HasButton, Active, Is
<1>3. DOMAIN core.buttonGrabs = {Pair(o) : o \in wanted}
  BY <1>1, <1>2
<1>4. \A o : Of(Pair(o)) = Grabbed(core.value[o].button)
  OBVIOUS
<1>5. ButtonCombinations(core) = UNION {Of(b) : b \in DOMAIN core.buttonGrabs}
  BY DEF ButtonCombinations
<1> HIDE DEF wanted, Grabbed, Pair, Of
<1>6. ButtonCombinations(core) = UNION {Grabbed(core.value[o].button) : o \in wanted}
  BY <1>3, <1>4, <1>5
<1>7. \A w \in DOMAIN core.frames : core.frames[w] = ButtonCombinations(core)
  BY DEF Inv, Good, Sound, ButtonsFit
<1>8. QED
  BY <1>6, <1>7 DEF ButtonsGrabbed, wanted, Grabbed

\* The half of KeysGrabbed that needs no assumption: what a plugin or an option has left
\* behind is not grabbed.
NoKeyLeft == core.moved = {} => core.rootKeys \subseteq Wanted \cup core.left

LEMMA WantedKeys ==
    ASSUME Inv, core.moved = {}
    PROVE  Wanted = UNION {Combos(core, k) : k \in DOMAIN core.keyGrabs}
<1> DEFINE keyed == {o \in Active : Is(core, o, "key")}
           K(o) == RealKey(core, core.value[o].key)
           Of(o) == LET a == core.value[o] IN
                    IF Is(core, o, "key")
                      THEN AllCombinations(core, VirtualToReal(core, a.key.mods), a.key.code)
                      ELSE {}
<1>1. \A k : k \in DOMAIN core.keyGrabs <=> KeyUsers(core, k) # {}
  <2> SUFFICES ASSUME NEW k
               PROVE  k \in DOMAIN core.keyGrabs <=> KeyUsers(core, k) # {}
    OBVIOUS
  <2>1. KeyUsers(core, k) \in SUBSET Option(session)
    BY Options DEF KeyUsers
  <2>2. Cardinality(KeyUsers(core, k)) > 0 <=> KeyUsers(core, k) # {}
    BY <2>1, Options, SomeUser
  <2>3. Amount(core.keyGrabs, k) = Cardinality(KeyUsers(core, k))
    BY DEF Inv, Good, Counted
  <2>4. k \in DOMAIN core.keyGrabs <=> Amount(core.keyGrabs, k) > 0
    BY DEF Inv, Good, Sound, KeysFit, Positive, Amount
  <2>5. QED
    BY <2>2, <2>3, <2>4
<1>2. \A k : KeyUsers(core, k) # {} <=> \E o \in keyed : k = K(o)
  BY DEF KeyUsers, HasKey, Active, Is
<1>3. DOMAIN core.keyGrabs = {K(o) : o \in keyed}
  BY <1>1, <1>2
<1>4. \A o : /\ o \in keyed => Of(o) = Combos(core, K(o))
             /\ o \in Active \ keyed => Of(o) = {}
  BY DEF RealKey, Combos
<1>5. keyed \subseteq Active
  OBVIOUS
<1>6. Wanted = UNION {Of(o) : o \in Active}
  BY DEF Wanted
<1> HIDE DEF keyed, K, Of
<1>7. QED
  BY <1>3, <1>4, <1>5, <1>6

LEMMA InvKeysLeft == Inv => NoKeyLeft
  BY WantedKeys DEF NoKeyLeft, Inv, Good, Sound, KeysFit

LEMMA InvKeys ==
    ASSUME KeysApart PROVE Inv => KeysGrabbed
<1> SUFFICES ASSUME Inv, core.moved = {}
             PROVE  Wanted \subseteq core.rootKeys /\ core.rootKeys \subseteq Wanted \cup core.left
  BY DEF KeysGrabbed
<1>1. core.rootKeys \subseteq Wanted \cup core.left
  BY InvKeysLeft DEF NoKeyLeft
<1>2. \A k \in DOMAIN core.keyGrabs : Combos(core, k) \subseteq core.rootKeys
  BY DEF Inv, Good, Sound, KeysFit
<1>3. QED
  BY <1>1, <1>2, WantedKeys

\* The window at an edge of the screen is mapped while some active action waits there, and
\* only then, whatever options and plugins come and go (enableEdge, disableEdge).
THEOREM EdgesMappedHolds == Spec => []EdgesMapped
<1>1. QED
  BY Invariant, InvEdges, PTL

\* Every frame has the buttons of the active actions, under the modifiers of the mapping
\* that the keyboard has now (updatePassiveButtonGrabs, updateModifierMappings).
THEOREM ButtonsGrabbedHolds == Spec => []ButtonsGrabbed
<1>1. QED
  BY Invariant, InvButtons, PTL

\* Nothing stays grabbed for an action that is gone, even where keys share combinations
\* or are refused: what is left is what a refused grab had got before (removePassiveKeyGrab).
THEOREM NoKeyLeftHolds == Spec => []NoKeyLeft
<1>1. QED
  BY Invariant, InvKeysLeft, PTL

\* Keys, buttons and edges are grabbed for the active actions and no other, if keys do not
\* share combinations: the server has one grab for a combination, and compiz counts keys.
THEOREM GrabsAgreeHolds ==
    ASSUME KeysApart PROVE Spec => []GrabsAgree
<1>1. Inv => GrabsAgree
  BY InvKeys, InvButtons, InvEdges DEF GrabsAgree
<1>2. QED
  BY <1>1, Invariant, PTL

=============================================================================
