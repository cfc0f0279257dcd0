---------------------------- MODULE PaintingProofs ----------------------------
(***************************************************************************)
(* Proofs about the compositor: the holes of the output window are those   *)
(* of the windows left to the server, a window that is not on screen holds *)
(* no pixmap and no texture, and damage never waits for a late timer.      *)
(* The operators of module Painting take the state as a record, so most    *)
(* lemmas say what one of them makes of a record that is Good.             *)
(***************************************************************************)
EXTENDS Painting, DataLemmas, FiniteSetTheorems

-----------------------------------------------------------------------------
(* The inductive invariant.                                                *)

Version == 0 .. 3
Pixmap == [bound : BOOLEAN, live : BOOLEAN, kept : Version]
TextureOf == [bound : BOOLEAN, live : BOOLEAN, kept : Version, shown : Version,
              damaged : BOOLEAN]
ServerWindow == [exists : BOOLEAN, mapped : BOOLEAN, area : SUBSET Cell, opaque : BOOLEAN,
                 ver : Version, redirected : BOOLEAN]
Server == [stack : Seq(Window), bg : Version, shape : SUBSET Cell,
           front : [Cell -> SUBSET ((Window \cup {Root}) \X Version)],
           win : [Window -> ServerWindow]]
ScreenState == [unredirect : BOOLEAN, active : BOOLEAN,
                mask : SUBSET {"all", "region", "pending"}, damage : SUBSET Cell,
                idle : BOOLEAN, late : BOOLEAN, count : Int, stack : Seq(Window),
                bgTex : Version, bgLoaded : BOOLEAN, back : [Window -> SUBSET Cell],
                forgotten : SUBSET Cell, ended : BOOLEAN]
WindowState == [known : BOOLEAN, destroyed : BOOLEAN, viewable : BOOLEAN, mapNum : BOOLEAN,
                area : SUBSET Cell, opaque : BOOLEAN, damaged : BOOLEAN,
                redirected : BOOLEAN, overlay : BOOLEAN, bindFailed : BOOLEAN,
                pix : Pixmap, tex : TextureOf, syncWait : BOOLEAN, syncArea : SUBSET Cell,
                nDamage : Int, dropped : BOOLEAN]

\* The events of a window, of a window and a place, and of the screen
OfWindow == {"create", "map", "unmap", "damage", "raise", "opacity", "shape", "alarm", "destroy"}
Event == {<<k, w>> : k \in OfWindow, w \in Window}
         \cup {<<"configure", w, a>> : w \in Window, a \in SUBSET Cell}
         \cup {<<"background">>, <<"expose">>}

State == [srv : Server, scr : ScreenState, win : [Window -> WindowState], queue : Seq(Event)]

\* The window is created, or destroyed, by the event at i of the queue.
IsAt(q, i, k, w) == i \in DOMAIN q /\ q[i][1] = k /\ q[i][2] = w

\* The creation of a window is reported once, before its destruction, to a
\* compositor that does not know it.
CreatesOnce(T) ==
    \A w \in Window : \A i \in DOMAIN T.queue : IsAt(T.queue, i, "create", w) =>
        /\ ~T.win[w].known
        /\ T.srv.win[w].exists \/ \E j \in DOMAIN T.queue : IsAt(T.queue, j, "destroy", w)
        /\ \A j \in DOMAIN T.queue : /\ IsAt(T.queue, j, "create", w) => j = i
                                     /\ IsAt(T.queue, j, "destroy", w) => i < j

\* Windows left to the server are those that are not redirected, and counted.
Counted(T) ==
    T.scr.active => /\ \A w \in Window : T.win[w].known => T.win[w].overlay = ~T.win[w].redirected
                    /\ T.scr.count = Cardinality(Overlays(T))

\* With no window left to the server the output window has no hole.
Whole(T) == T.scr.active /\ T.scr.count = 0 => T.srv.shape = Screen

\* What is not on screen, or not known, holds nothing.
Holds(T) ==
    \A w \in Window :
        /\ T.win[w].viewable => T.win[w].known
        /\ T.win[w].known /\ ~T.win[w].viewable => ~T.win[w].pix.bound /\ ~T.win[w].tex.bound

Awake(T) == T.scr.mask # {} => ~T.scr.late

\* All but the holes, which are made when the count is right
Sound(T) == T \in State /\ CreatesOnce(T) /\ Counted(T) /\ Holds(T) /\ Awake(T)
Good(T) == Sound(T) /\ Whole(T)

\* The inductive invariant
Inv == Good(Now)

-----------------------------------------------------------------------------
(* Sequences.                                                              *)

\* What is left when an element is removed is a sequence of the same set.
LEMMA RemoveFirstSeq ==
    ASSUME NEW S, NEW s \in Seq(S), NEW e
    PROVE  RemoveFirst(s, e) \in Seq(S)
<1> DEFINE I == {i \in 1 .. Len(s) : s[i] = e}
           k == SelectInSeq(s, LAMBDA v : v = e)
<1>1. CASE I = {}
  BY <1>1 DEF RemoveFirst
<1>2. CASE I # {}
  <2>1. k = Min(I)
    BY <1>2 DEF SelectInSeq
  <2>2. I \in SUBSET Nat
    BY LenProperties
  <2>3. PICK m \in I : \A j \in I : m <= j
    BY <1>2, <2>2, LeastNatural
  <2>4. Min(I) \in I
    BY <2>3 DEF Min
  <2>5. k \in 1 .. Len(s)
    BY <2>1, <2>4
  <2> HIDE DEF k
  <2>6. RemoveFirst(s, e) = RemoveAt(s, k)
    BY <1>2 DEF RemoveFirst, k
  <2>7. SubSeq(s, 1, k - 1) \in Seq(S) /\ SubSeq(s, k + 1, Len(s)) \in Seq(S)
    BY <2>5, LenProperties, SubSeqProperties, SMTT(30)
  <2>8. QED
    BY <2>6, <2>7, ConcatProperties DEF RemoveAt
<1>3. QED
  BY <1>1, <1>2

-----------------------------------------------------------------------------
(* Damage.                                                                 *)

\* Only the damage differs.
Damages(T, U) ==
    /\ U.srv = T.srv /\ U.win = T.win /\ U.queue = T.queue
    /\ U.scr.active = T.scr.active /\ U.scr.count = T.scr.count /\ U.scr.stack = T.scr.stack
    /\ Awake(T) => Awake(U)

LEMMA HurryDamages ==
    ASSUME NEW T \in State
    PROVE  /\ Hurry(T) \in State /\ Damages(T, Hurry(T))
           /\ Hurry(T).scr.mask = T.scr.mask
           /\ Awake(T) => ~Hurry(T).scr.late
<1>1. CASE T.scr.mask = {}
  BY <1>1 DEF Hurry, Damages, Awake, State, ScreenState
<1>2. CASE T.scr.mask # {}
  BY <1>2 DEF Hurry, Damages, Awake
<1>3. QED
  BY <1>1, <1>2

LEMMA DamageScreenDamages ==
    ASSUME NEW T \in State
    PROVE  DamageScreen(T) \in State /\ Damages(T, DamageScreen(T))
<1> DEFINE H == Hurry(T)
<1>1. H \in State /\ Damages(T, H) /\ (Awake(T) => ~H.scr.late)
  BY HurryDamages
<1>2. DamageScreen(T) = [H EXCEPT !.scr.mask = (@ \cup {"all"}) \ {"region"}]
  BY DEF DamageScreen
<1> HIDE DEF H
<1> DEFINE m == (H.scr.mask \cup {"all"}) \ {"region"}
           U == [H EXCEPT !.scr.mask = m]
<1>3. m \in SUBSET {"all", "region", "pending"}
  BY <1>1 DEF State, ScreenState
<1> HIDE DEF m
<1>4. U \in State
  BY <1>1, <1>3 DEF State, ScreenState
<1>5. /\ U.srv = H.srv /\ U.win = H.win /\ U.queue = H.queue
      /\ U.scr.active = H.scr.active /\ U.scr.count = H.scr.count /\ U.scr.stack = H.scr.stack
      /\ U.scr.late = H.scr.late
  BY <1>1 DEF State, ScreenState
<1>6. QED
  BY <1>1, <1>2, <1>4, <1>5 DEF Damages, Awake, m

LEMMA DamageRegionDamages ==
    ASSUME NEW T \in State, NEW r \in SUBSET Cell
    PROVE  DamageRegion(T, r) \in State /\ Damages(T, DamageRegion(T, r))
<1> DEFINE H == Hurry(T)
<1>1. H \in State /\ Damages(T, H) /\ (Awake(T) => ~H.scr.late)
  BY HurryDamages
<1>2. CASE "all" \in T.scr.mask
  BY <1>2 DEF DamageRegion, Damages
<1>3. CASE "all" \notin T.scr.mask
  <2>1. DamageRegion(T, r) = [H EXCEPT !.scr.mask = @ \cup {"region"}, !.scr.damage = @ \cup r]
    BY <1>3 DEF DamageRegion
  <2> HIDE DEF H
  <2> DEFINE m == H.scr.mask \cup {"region"}
             d == H.scr.damage \cup r
             U == [H EXCEPT !.scr.mask = m, !.scr.damage = d]
  <2>2. m \in SUBSET {"all", "region", "pending"} /\ d \in SUBSET Cell
    BY <1>1 DEF State, ScreenState
  <2> HIDE DEF m, d
  <2>3. U \in State
    BY <1>1, <2>2 DEF State, ScreenState
  <2>4. /\ U.srv = H.srv /\ U.win = H.win /\ U.queue = H.queue
        /\ U.scr.active = H.scr.active /\ U.scr.count = H.scr.count
        /\ U.scr.stack = H.scr.stack /\ U.scr.late = H.scr.late
    BY <1>1 DEF State, ScreenState
  <2>5. QED
    BY <1>1, <2>1, <2>3, <2>4 DEF Damages, Awake, m, d
<1>4. QED
  BY <1>2, <1>3

LEMMA DamagePendingDamages ==
    ASSUME NEW T \in State
    PROVE  DamagePending(T) \in State /\ Damages(T, DamagePending(T))
<1> DEFINE H == Hurry(T)
<1>1. H \in State /\ Damages(T, H) /\ (Awake(T) => ~H.scr.late)
  BY HurryDamages
<1>2. DamagePending(T) = [H EXCEPT !.scr.mask = @ \cup {"pending"}]
  BY DEF DamagePending
<1> HIDE DEF H
<1> DEFINE m == H.scr.mask \cup {"pending"}
           U == [H EXCEPT !.scr.mask = m]
<1>3. m \in SUBSET {"all", "region", "pending"}
  BY <1>1 DEF State, ScreenState
<1> HIDE DEF m
<1>4. U \in State
  BY <1>1, <1>3 DEF State, ScreenState
<1>5. /\ U.srv = H.srv /\ U.win = H.win /\ U.queue = H.queue
      /\ U.scr.active = H.scr.active /\ U.scr.count = H.scr.count /\ U.scr.stack = H.scr.stack
      /\ U.scr.late = H.scr.late
  BY <1>1 DEF State, ScreenState
<1>6. QED
  BY <1>1, <1>2, <1>4, <1>5 DEF Damages, Awake, m

LEMMA AddDamageDamages ==
    ASSUME NEW T \in State, NEW w \in Window, NEW f \in BOOLEAN
    PROVE  AddDamage(T, w, f) \in State /\ Damages(T, AddDamage(T, w, f))
<1>1. Area(T, w) \in SUBSET Cell
  BY DEF Area, State, WindowState
<1>2. QED
  BY <1>1, DamageRegionDamages DEF AddDamage, Damages

-----------------------------------------------------------------------------
(* What leaves the invariant alone.                                        *)

\* Nothing the invariant is about differs, except that pixmaps and textures
\* may be let go, or bound by windows on screen.
KeptWindow(v, u) ==
    /\ u.known = v.known /\ u.viewable = v.viewable
    /\ u.overlay = v.overlay /\ u.redirected = v.redirected
    /\ u.pix.bound => v.pix.bound \/ v.viewable
    /\ u.tex.bound => v.tex.bound \/ v.viewable

Kept(T, U) ==
    /\ U.scr.active = T.scr.active /\ U.scr.count = T.scr.count /\ U.srv.shape = T.srv.shape
    /\ U.scr.stack = T.scr.stack
    /\ \A w \in Window : KeptWindow(T.win[w], U.win[w])
    /\ CreatesOnce(T) => CreatesOnce(U)
    /\ Awake(T) => Awake(U)

LEMMA KeptSound ==
    ASSUME NEW T, Sound(T), NEW U \in State, Kept(T, U)
    PROVE  Sound(U)
<1>1. Overlays(U) = Overlays(T)
  BY DEF Overlays, Kept, KeptWindow
<1>2. Counted(U)
  BY <1>1 DEF Sound, Counted, Kept, KeptWindow
<1>3. Holds(U)
  <2>1. SUFFICES ASSUME NEW w \in Window
                 PROVE  /\ U.win[w].viewable => U.win[w].known
                        /\ U.win[w].known /\ ~U.win[w].viewable =>
                               ~U.win[w].pix.bound /\ ~U.win[w].tex.bound
    BY DEF Holds
  <2>2. /\ T.win[w].viewable => T.win[w].known
        /\ T.win[w].known /\ ~T.win[w].viewable => ~T.win[w].pix.bound /\ ~T.win[w].tex.bound
    BY DEF Sound, Holds
  <2>3. KeptWindow(T.win[w], U.win[w])
    BY DEF Kept
  <2>4. QED
    BY <2>2, <2>3 DEF KeptWindow
<1>4. QED
  BY <1>2, <1>3 DEF Sound, Kept

LEMMA KeptGood ==
    ASSUME NEW T, Good(T), NEW U \in State, Kept(T, U)
    PROVE  Good(U)
BY KeptSound DEF Good, Whole, Kept

LEMMA KeptTwice ==
    ASSUME NEW T, NEW U, NEW V, Kept(T, U), Kept(U, V)
    PROVE  Kept(T, V)
<1>1. \A w \in Window : KeptWindow(T.win[w], V.win[w])
  BY DEF Kept, KeptWindow
<1>2. QED
  BY <1>1 DEF Kept

\* The queue matters only with what is known and exists.
LEMMA SameCreates ==
    ASSUME NEW T, NEW U, CreatesOnce(T), U.queue = T.queue,
           \A w \in Window : /\ U.win[w].known = T.win[w].known
                             /\ U.srv.win[w].exists = T.srv.win[w].exists
    PROVE  CreatesOnce(U)
BY DEF CreatesOnce

LEMMA DamagesKept ==
    ASSUME NEW T \in State, NEW U \in State, Damages(T, U)
    PROVE  Kept(T, U)
<1>1. CreatesOnce(T) => CreatesOnce(U)
  BY SameCreates DEF Damages
<1>2. \A w \in Window : KeptWindow(T.win[w], U.win[w])
  BY DEF Damages, KeptWindow
<1>3. QED
  BY <1>1, <1>2 DEF Kept, Damages

\* A window of the compositor changes.
LEMMA WindowKept ==
    ASSUME NEW T \in State, NEW w \in Window, NEW v \in WindowState,
           KeptWindow(T.win[w], v)
    PROVE  /\ [T EXCEPT !.win[w] = v] \in State
           /\ Kept(T, [T EXCEPT !.win[w] = v])
           /\ [T EXCEPT !.win[w] = v].win[w] = v
<1> DEFINE U == [T EXCEPT !.win[w] = v]
<1>1. U \in State
  BY DEF State
<1>2. /\ U.srv = T.srv /\ U.scr = T.scr /\ U.queue = T.queue
      /\ \A x \in Window : U.win[x] = IF x = w THEN v ELSE T.win[x]
  BY DEF State
<1> HIDE DEF U
<1>3. \A x \in Window : KeptWindow(T.win[x], U.win[x])
  BY <1>2 DEF KeptWindow
<1>4. CreatesOnce(T) => CreatesOnce(U)
  BY <1>2, <1>3, SameCreates DEF KeptWindow
<1>5. Kept(T, U)
  BY <1>2, <1>3, <1>4 DEF Kept, Awake
<1>6. QED
  BY <1>1, <1>2, <1>5 DEF U

\* A window of the server changes, and exists as before.
LEMMA ServerWindowKept ==
    ASSUME NEW T \in State, NEW w \in Window, NEW v \in ServerWindow,
           v.exists = T.srv.win[w].exists
    PROVE  /\ [T EXCEPT !.srv.win[w] = v] \in State
           /\ Kept(T, [T EXCEPT !.srv.win[w] = v])
           /\ [T EXCEPT !.srv.win[w] = v].srv.win[w] = v
<1> DEFINE U == [T EXCEPT !.srv.win[w] = v]
<1>1. U \in State
  BY DEF State, Server
<1>2. /\ U.win = T.win /\ U.scr = T.scr /\ U.queue = T.queue /\ U.srv.shape = T.srv.shape
      /\ \A x \in Window : U.srv.win[x] = IF x = w THEN v ELSE T.srv.win[x]
  BY DEF State, Server
<1> HIDE DEF U
<1>3. CreatesOnce(T) => CreatesOnce(U)
  BY <1>2, SameCreates
<1>4. Kept(T, U)
  BY <1>2, <1>3 DEF Kept, KeptWindow, Awake
<1>5. QED
  BY <1>1, <1>2, <1>4 DEF U

-----------------------------------------------------------------------------
(* Events.                                                                 *)

\* An event that is not the creation of a window.
LEMMA EmitKept ==
    ASSUME NEW T \in State, NEW e \in Event, e[1] # "create"
    PROVE  Emit(T, e) \in State /\ Kept(T, Emit(T, e))
<1> DEFINE U == Emit(T, e)
           n == Len(T.queue)
<1>0. T.queue \in Seq(Event)
  BY DEF State
<1>1. /\ Append(T.queue, e) \in Seq(Event) /\ n \in Nat /\ DOMAIN T.queue = 1 .. n
      /\ DOMAIN Append(T.queue, e) = 1 .. n + 1
      /\ \A i \in 1 .. n + 1 : Append(T.queue, e)[i] = IF i = n + 1 THEN e ELSE T.queue[i]
  BY <1>0
<1>2. /\ U.srv = T.srv /\ U.scr = T.scr /\ U.win = T.win
      /\ U.queue = Append(T.queue, e) /\ U \in State
  BY <1>1 DEF Emit, State
<1> HIDE DEF U, n
<1>3. ASSUME CreatesOnce(T) PROVE CreatesOnce(U)
  <2>1. \A w \in Window : \A i \in 1 .. n + 1 : IsAt(U.queue, i, "create", w) =>
            i \in 1 .. n /\ IsAt(T.queue, i, "create", w)
    BY <1>1, <1>2 DEF IsAt
  <2>2. \A w \in Window, k \in {"create", "destroy"} : \A i \in 1 .. n :
            IsAt(U.queue, i, k, w) <=> IsAt(T.queue, i, k, w)
    BY <1>1, <1>2 DEF IsAt
  <2>3. QED
    BY <1>1, <1>2, <1>3, <2>1, <2>2 DEF CreatesOnce
<1>4. Kept(T, U)
  BY <1>2, <1>3 DEF Kept, KeptWindow, Awake
<1>5. QED
  BY <1>2, <1>4 DEF U

-----------------------------------------------------------------------------
(* Pixmaps, textures and the contents of windows.                          *)

LEMMA ContentsVersion ==
    ASSUME NEW T \in State, NEW w \in Window, NEW p, p.kept \in Version
    PROVE  Contents(T, w, p) \in Version
BY DEF Contents, State, Server, ServerWindow

LEMMA FreezeKept ==
    ASSUME NEW T \in State, NEW w \in Window
    PROVE  Freeze(T, w) \in State /\ Kept(T, Freeze(T, w))
<1> DEFINE x == T.win[w]
           v == T.srv.win[w].ver
           pix == Frozen(x.pix, v)
           tex == Frozen(x.tex, v)
           y == [x EXCEPT !.pix = pix, !.tex = tex]
<1>1. x \in WindowState /\ v \in Version
  BY DEF State, Server, ServerWindow
<1>2. /\ pix \in Pixmap /\ pix.bound = x.pix.bound
      /\ tex \in TextureOf /\ tex.bound = x.tex.bound
  BY <1>1 DEF Frozen, WindowState, Pixmap, TextureOf
<1>3. Freeze(T, w) = [T EXCEPT !.win[w] = y]
  BY DEF Freeze, State
<1> HIDE DEF pix, tex
<1>4. y \in WindowState /\ KeptWindow(x, y)
  BY <1>1, <1>2 DEF WindowState, KeptWindow
<1>5. QED
  BY <1>3, <1>4, WindowKept

LEMMA EnableKept ==
    ASSUME NEW T \in State, NEW w \in Window
    PROVE  Enable(T, w) \in State /\ Kept(T, Enable(T, w))
<1> DEFINE x == T.win[w]
           c == Contents(T, w, x.tex)
           tex == [x.tex EXCEPT !.damaged = FALSE, !.shown = IF x.tex.damaged THEN c ELSE @]
           y == [x EXCEPT !.tex = tex]
<1>1. x \in WindowState /\ x.tex \in TextureOf
  BY DEF State, WindowState
<1>2. c \in Version
  BY <1>1, ContentsVersion DEF TextureOf
<1>3. Enable(T, w) = [T EXCEPT !.win[w] = y]
  BY DEF Enable, State, WindowState
<1> HIDE DEF c
<1>4. tex \in TextureOf /\ tex.bound = x.tex.bound
  BY <1>1, <1>2 DEF TextureOf
<1> HIDE DEF tex
<1>5. y \in WindowState /\ KeptWindow(x, y)
  BY <1>1, <1>4 DEF WindowState, KeptWindow
<1>6. QED
  BY <1>3, <1>5, WindowKept

LEMMA ReleaseKept ==
    ASSUME NEW T \in State, NEW w \in Window
    PROVE  /\ Release(T, w) \in State /\ Kept(T, Release(T, w))
           /\ Release(T, w).win[w] = [T.win[w] EXCEPT !.pix = NoPix]
<1> DEFINE x == T.win[w]
           y == [x EXCEPT !.pix = NoPix]
<1>1. x \in WindowState /\ NoPix \in Pixmap /\ ~NoPix.bound
  BY DEF State, NoPix, Pixmap, Version
<1>2. Release(T, w) = [T EXCEPT !.win[w] = y]
  BY DEF Release, State
<1>3. y \in WindowState /\ KeptWindow(x, y)
  BY <1>1 DEF WindowState, KeptWindow
<1>4. QED
  BY <1>2, <1>3, WindowKept

LEMMA ReleaseTextureKept ==
    ASSUME NEW T \in State, NEW w \in Window
    PROVE  /\ ReleaseTexture(T, w) \in State /\ Kept(T, ReleaseTexture(T, w))
           /\ ReleaseTexture(T, w).win[w] = [T.win[w] EXCEPT !.pix = NoPix, !.tex = NoTex]
<1> DEFINE R == Release(T, w)
           y == [R.win[w] EXCEPT !.tex = NoTex]
<1>1. /\ R \in State /\ Kept(T, R)
      /\ R.win[w] = [T.win[w] EXCEPT !.pix = NoPix]
  BY ReleaseKept
<1>2. R.win[w] \in WindowState /\ NoTex \in TextureOf /\ ~NoTex.bound
  BY <1>1 DEF State, NoTex, TextureOf, Version
<1>3. ReleaseTexture(T, w) = [R EXCEPT !.win[w].tex = NoTex]
  BY DEF ReleaseTexture
<1> HIDE DEF R
<1>4. [R EXCEPT !.win[w].tex = NoTex] = [R EXCEPT !.win[w] = y]
  BY <1>1 DEF State
<1>5. y \in WindowState /\ KeptWindow(R.win[w], y)
  BY <1>2 DEF WindowState, KeptWindow
<1>6. ReleaseTexture(T, w) \in State /\ Kept(R, ReleaseTexture(T, w)) /\ ReleaseTexture(T, w).win[w] = y
  BY <1>1, <1>3, <1>4, <1>5, WindowKept
<1>7. y = [T.win[w] EXCEPT !.pix = NoPix, !.tex = NoTex]
  BY <1>1
<1>8. QED
  BY <1>1, <1>6, <1>7, KeptTwice

\* A pixmap is bound to textures only by a window on screen.
LEMMA BindPixmapKept ==
    ASSUME NEW T \in State, NEW w \in Window, T.win[w].viewable
    PROVE  BindPixmap(T, w) \in State /\ Kept(T, BindPixmap(T, w))
<1> DEFINE x == T.win[w]
           p == x.pix
           c == Contents(T, w, p)
           t == [bound |-> TRUE, live |-> p.live, kept |-> p.kept, shown |-> c, damaged |-> TRUE]
           y == [x EXCEPT !.tex = t]
<1>1. x \in WindowState /\ p \in Pixmap
  BY DEF State, WindowState
<1>2. c \in Version
  BY <1>1, ContentsVersion DEF Pixmap
<1> HIDE DEF c
<1>3. t \in TextureOf
  BY <1>1, <1>2 DEF Pixmap, TextureOf
<1>4. CASE p.bound
  <2>1. BindPixmap(T, w) = [T EXCEPT !.win[w] = y]
    BY <1>4 DEF BindPixmap, State, c
  <2> HIDE DEF t
  <2>2. y \in WindowState /\ KeptWindow(x, y)
    BY <1>1, <1>3 DEF WindowState, KeptWindow
  <2>3. QED
    BY <2>1, <2>2, WindowKept
<1>5. CASE ~p.bound
  BY <1>5 DEF BindPixmap, Kept, KeptWindow
<1>6. QED
  BY <1>4, <1>5

LEMMA EventOf ==
    ASSUME NEW k \in OfWindow, NEW w \in Window
    PROVE  <<k, w>> \in Event /\ <<k, w>>[1] = k
BY DEF Event

LEMMA RedirectedKept ==
    ASSUME NEW T \in State, NEW w \in Window
    PROVE  Redirected(T, w) \in State /\ Kept(T, Redirected(T, w))
<1> DEFINE x == T.srv.win[w]
           y == [x EXCEPT !.redirected = TRUE]
           U == [T EXCEPT !.srv.win[w] = y]
<1>0. x \in ServerWindow
  BY DEF State, Server
<1>1. y \in ServerWindow /\ y.exists = x.exists
  BY <1>0 DEF ServerWindow
<1>2. U \in State /\ Kept(T, U)
  BY <1>1, ServerWindowKept
<1>3. [T EXCEPT !.srv.win[w].redirected = TRUE] = U
  BY DEF State, Server
<1>4. Emit(U, <<"damage", w>>) \in State /\ Kept(U, Emit(U, <<"damage", w>>))
  BY <1>2, EmitKept, EventOf DEF OfWindow
<1>5. Redirected(T, w) = U \/ Redirected(T, w) = Emit(U, <<"damage", w>>)
  BY <1>3 DEF Redirected
<1> HIDE DEF U
<1>6. QED
  BY <1>2, <1>4, <1>5, KeptTwice

LEMMA UnredirectedKept ==
    ASSUME NEW T \in State, NEW w \in Window
    PROVE  Unredirected(T, w) \in State /\ Kept(T, Unredirected(T, w))
<1> DEFINE F == Freeze(T, w)
           x == F.srv.win[w]
           y == [x EXCEPT !.redirected = FALSE]
           U == [F EXCEPT !.srv.win[w] = y]
<1>1. F \in State /\ Kept(T, F)
  BY FreezeKept
<1>2. Unredirected(T, w) = [F EXCEPT !.srv.win[w].redirected = FALSE]
  BY DEF Unredirected
<1> HIDE DEF F
<1>7. x \in ServerWindow
  BY <1>1 DEF State, Server
<1>3. y \in ServerWindow /\ y.exists = x.exists
  BY <1>7 DEF ServerWindow
<1>4. U \in State /\ Kept(F, U)
  BY <1>1, <1>3, ServerWindowKept
<1>5. [F EXCEPT !.srv.win[w].redirected = FALSE] = U
  BY <1>1 DEF State, Server
<1> HIDE DEF U
<1>6. QED
  BY <1>1, <1>2, <1>4, <1>5, KeptTwice

LEMMA DrawnKept ==
    ASSUME NEW T \in State, NEW w \in Window
    PROVE  /\ Drawn(T, w) \in State /\ Kept(T, Drawn(T, w))
<1> DEFINE x == T.srv.win[w]
           v == (x.ver + 1) % 4
           y == [x EXCEPT !.ver = v]
           U == [T EXCEPT !.srv.win[w] = y]
<1>6. x \in ServerWindow
  BY DEF State, Server
<1>7. v \in Version
  BY <1>6 DEF ServerWindow, Version
<1>1. y \in ServerWindow /\ y.exists = x.exists
  BY <1>6, <1>7 DEF ServerWindow
<1>2. U \in State /\ Kept(T, U)
  BY <1>1, ServerWindowKept
<1>3. Draw(T, w) = U
  BY DEF Draw, State, Server
<1>4. Emit(U, <<"damage", w>>) \in State /\ Kept(U, Emit(U, <<"damage", w>>))
  BY <1>2, EmitKept, EventOf DEF OfWindow
<1>5. Drawn(T, w) = U \/ Drawn(T, w) = Emit(U, <<"damage", w>>)
  BY <1>3 DEF Drawn
<1> HIDE DEF U
<1>8. QED
  BY <1>2, <1>4, <1>5, KeptTwice

-----------------------------------------------------------------------------
(* Events about windows that leave counts and pixmaps alone.               *)

LEMMA HandleDamageRectKept ==
    ASSUME NEW T \in State, NEW w \in Window
    PROVE  HandleDamageRect(T, w) \in State /\ Kept(T, HandleDamageRect(T, w))
<1> DEFINE x == T.win[w]
           y == [x EXCEPT !.damaged = TRUE, !.dropped = FALSE]
           U == [T EXCEPT !.win[w] = y]
           r == Area(T, w)
<1>0. x \in WindowState
  BY DEF State
<1>1. y \in WindowState /\ KeptWindow(x, y) /\ r \in SUBSET Cell
  BY <1>0 DEF Area, WindowState, KeptWindow
<1>2. U \in State /\ Kept(T, U)
  BY <1>1, WindowKept
<1>3. [T EXCEPT !.win[w].damaged = TRUE, !.win[w].dropped = FALSE] = U
  BY DEF State, WindowState
<1>4. HandleDamageRect(T, w) = T \/ HandleDamageRect(T, w) = DamageRegion(U, r)
  BY <1>3 DEF HandleDamageRect
<1> HIDE DEF U, r
<1>5. DamageRegion(U, r) \in State /\ Kept(U, DamageRegion(U, r))
  BY <1>1, <1>2, DamageRegionDamages, DamagesKept
<1>6. Kept(T, T)
  BY DEF Kept, KeptWindow
<1>7. QED
  BY <1>2, <1>4, <1>5, <1>6, KeptTwice

LEMMA ProcessDamageKept ==
    ASSUME NEW T \in State, NEW w \in Window
    PROVE  ProcessDamage(T, w) \in State /\ Kept(T, ProcessDamage(T, w))
<1> DEFINE x == T.win[w]
           t == [x.tex EXCEPT !.damaged = x.tex.damaged \/ x.tex.live]
           y == [x EXCEPT !.tex = t]
           U == [T EXCEPT !.win[w].tex.damaged = @ \/ T.win[w].tex.live]
<1>0. x \in WindowState /\ x.tex \in TextureOf
  BY DEF State, WindowState
<1>11. t \in TextureOf /\ t.bound = x.tex.bound
  BY <1>0 DEF TextureOf
<1>2. U = [T EXCEPT !.win[w] = y]
  BY DEF State, WindowState
<1> HIDE DEF t
<1>1. y \in WindowState /\ KeptWindow(x, y)
  BY <1>0, <1>11 DEF WindowState, KeptWindow
<1>3. U \in State /\ Kept(T, U)
  BY <1>1, <1>2, WindowKept
<1> HIDE DEF U
<1> DEFINE n == U.win[w].nDamage
           d == U.win[w].dropped \/ n < 0
           z == [U.win[w] EXCEPT !.nDamage = n + 1, !.dropped = d]
           V == [U EXCEPT !.win[w].nDamage = n + 1, !.win[w].dropped = @ \/ n < 0]
<1>12. U.win[w] \in WindowState
  BY <1>3 DEF State
<1>13. n + 1 \in Int /\ d \in BOOLEAN
  BY <1>12 DEF WindowState
<1>5. V = [U EXCEPT !.win[w] = z]
  BY <1>3 DEF State, WindowState
<1> HIDE DEF d
<1>4. z \in WindowState /\ KeptWindow(U.win[w], z)
  BY <1>12, <1>13 DEF WindowState, KeptWindow
<1>6. V \in State /\ Kept(U, V)
  BY <1>3, <1>4, <1>5, WindowKept
<1>7. ProcessDamage(T, w) \in {T, HandleDamageRect(U, w), V}
  BY DEF ProcessDamage, U
<1> HIDE DEF V
<1>8. Kept(T, T)
  BY DEF Kept, KeptWindow
<1>9. HandleDamageRect(U, w) \in State /\ Kept(U, HandleDamageRect(U, w))
  BY <1>3, HandleDamageRectKept
<1>10. QED
  BY <1>3, <1>6, <1>7, <1>8, <1>9, KeptTwice

LEMMA KeptSelf ==
    ASSUME NEW T
    PROVE  Kept(T, T)
BY DEF Kept, KeptWindow

LEMMA DamageOldKept ==
    ASSUME NEW T \in State, NEW w \in Window
    PROVE  DamageOld(T, w) \in State /\ Kept(T, DamageOld(T, w))
BY AddDamageDamages, DamagesKept DEF DamageOld

\* A field that the invariant says nothing about is set.
LEMMA AreaKept ==
    ASSUME NEW T \in State, NEW w \in Window, NEW a \in SUBSET Cell
    PROVE  /\ [T EXCEPT !.win[w].area = a] \in State
           /\ Kept(T, [T EXCEPT !.win[w].area = a])
           /\ [T EXCEPT !.win[w].syncArea = a] \in State
           /\ Kept(T, [T EXCEPT !.win[w].syncArea = a])
<1> DEFINE x == T.win[w]
           y == [x EXCEPT !.area = a]
           z == [x EXCEPT !.syncArea = a]
<1>1. x \in WindowState
  BY DEF State
<1>2. /\ y \in WindowState /\ KeptWindow(x, y)
      /\ z \in WindowState /\ KeptWindow(x, z)
  BY <1>1 DEF WindowState, KeptWindow
<1>3. /\ [T EXCEPT !.win[w].area = a] = [T EXCEPT !.win[w] = y]
      /\ [T EXCEPT !.win[w].syncArea = a] = [T EXCEPT !.win[w] = z]
  BY DEF State, WindowState
<1>4. QED
  BY <1>2, <1>3, WindowKept

LEMMA MoveNotifyKept ==
    ASSUME NEW T \in State, NEW w \in Window, NEW a \in SUBSET Cell
    PROVE  MoveNotify(T, w, a) \in State /\ Kept(T, MoveNotify(T, w, a))
<1> DEFINE D == DamageOld(T, w)
           U == [D EXCEPT !.win[w].area = a]
<1>1. D \in State /\ Kept(T, D)
  BY DamageOldKept
<1>2. MoveNotify(T, w, a) = DamageOld(U, w)
  BY DEF MoveNotify
<1> HIDE DEF D
<1>3. U \in State /\ Kept(D, U)
  BY <1>1, AreaKept
<1> HIDE DEF U
<1>4. DamageOld(U, w) \in State /\ Kept(U, DamageOld(U, w))
  BY <1>3, DamageOldKept
<1>5. QED
  BY <1>1, <1>2, <1>3, <1>4, KeptTwice

LEMMA ResizeNotifyKept ==
    ASSUME NEW T \in State, NEW w \in Window, NEW a \in SUBSET Cell
    PROVE  ResizeNotify(T, w, a) \in State /\ Kept(T, ResizeNotify(T, w, a))
<1> DEFINE D == DamageOld(T, w)
           U == [D EXCEPT !.win[w].area = a]
           V == DamageOld(U, w)
<1>1. D \in State /\ Kept(T, D)
  BY DamageOldKept
<1>2. ResizeNotify(T, w, a) \in {ReleaseTexture(U, w), ReleaseTexture(V, w)}
  BY DEF ResizeNotify
<1> HIDE DEF D
<1>3. U \in State /\ Kept(D, U)
  BY <1>1, AreaKept
<1> HIDE DEF U
<1>4. V \in State /\ Kept(U, V)
  BY <1>3, DamageOldKept
<1> HIDE DEF V
<1>5. /\ ReleaseTexture(U, w) \in State /\ Kept(U, ReleaseTexture(U, w))
      /\ ReleaseTexture(V, w) \in State /\ Kept(V, ReleaseTexture(V, w))
  BY <1>3, <1>4, ReleaseTextureKept
<1>6. Kept(T, U) /\ Kept(T, V)
  BY <1>1, <1>3, <1>4, KeptTwice
<1>7. QED
  BY <1>2, <1>5, <1>6, KeptTwice

LEMMA ResizeKept ==
    ASSUME NEW T \in State, NEW w \in Window, NEW a \in SUBSET Cell
    PROVE  Resize(T, w, a) \in State /\ Kept(T, Resize(T, w, a))
BY MoveNotifyKept, ResizeNotifyKept, KeptSelf DEF Resize

LEMMA ConfiguredKept ==
    ASSUME NEW T \in State, NEW w \in Window, NEW a \in SUBSET Cell
    PROVE  Configured(T, w, a) \in State /\ Kept(T, Configured(T, w, a))
BY AreaKept, ResizeKept DEF Configured

LEMMA SyncAlarmKept ==
    ASSUME NEW T \in State, NEW w \in Window
    PROVE  SyncAlarm(T, w) \in State /\ Kept(T, SyncAlarm(T, w))
<1> DEFINE x == T.win[w]
           y == [x EXCEPT !.syncWait = FALSE, !.nDamage = -1]
           U == [T EXCEPT !.win[w].syncWait = FALSE, !.win[w].nDamage = -1]
           V == Resize(U, w, x.syncArea)
           E == [T EXCEPT !.scr.ended = TRUE]
<1>1. x \in WindowState /\ x.syncArea \in SUBSET Cell
  BY DEF State, WindowState
<1>3. U = [T EXCEPT !.win[w] = y]
  BY DEF State, WindowState
<1>10. -1 \in Int
  OBVIOUS
<1>2. y \in WindowState /\ KeptWindow(x, y)
  BY <1>1, <1>10 DEF WindowState, KeptWindow
<1>4. U \in State /\ Kept(T, U)
  BY <1>2, <1>3, WindowKept
<1>5. SyncAlarm(T, w) \in {T, E, V, HandleDamageRect(V, w)}
  BY DEF SyncAlarm
<1>6. E \in State /\ Kept(T, E)
  <2>1. E \in State
    BY DEF State, ScreenState
  <2>2. /\ E.srv = T.srv /\ E.win = T.win /\ E.queue = T.queue /\ E.scr.stack = T.scr.stack
        /\ E.scr.active = T.scr.active /\ E.scr.count = T.scr.count
        /\ E.scr.mask = T.scr.mask /\ E.scr.late = T.scr.late
    BY DEF State, ScreenState
  <2>3. QED
    BY <2>1, <2>2, DamagesKept DEF Damages, Awake
<1> HIDE DEF U, E
<1>7. V \in State /\ Kept(U, V)
  BY <1>1, <1>4, ResizeKept
<1> HIDE DEF V
<1>8. HandleDamageRect(V, w) \in State /\ Kept(V, HandleDamageRect(V, w))
  BY <1>7, HandleDamageRectKept
<1>9. QED
  BY <1>4, <1>5, <1>6, <1>7, <1>8, KeptTwice, KeptSelf

LEMMA OpacityChangedKept ==
    ASSUME NEW T \in State, NEW w \in Window
    PROVE  OpacityChanged(T, w) \in State /\ Kept(T, OpacityChanged(T, w))
<1> DEFINE x == T.win[w]
           o == T.srv.win[w].opaque
           y == [x EXCEPT !.opaque = o]
           U == [T EXCEPT !.win[w].opaque = o]
<1>1. x \in WindowState /\ o \in BOOLEAN
  BY DEF State, Server, ServerWindow
<1>2. OpacityChanged(T, w) \in {T, DamageOld(U, w)}
  BY DEF OpacityChanged
<1> HIDE DEF o
<1>3. y \in WindowState /\ KeptWindow(x, y)
  BY <1>1 DEF WindowState, KeptWindow
<1>4. U = [T EXCEPT !.win[w] = y]
  BY DEF State, WindowState
<1>5. U \in State /\ Kept(T, U)
  BY <1>3, <1>4, WindowKept
<1> HIDE DEF U
<1>6. DamageOld(U, w) \in State /\ Kept(U, DamageOld(U, w))
  BY <1>5, DamageOldKept
<1>7. QED
  BY <1>2, <1>5, <1>6, KeptTwice, KeptSelf

LEMMA ShapedKept ==
    ASSUME NEW T \in State, NEW w \in Window
    PROVE  Shaped(T, w) \in State /\ Kept(T, Shaped(T, w))
<1> DEFINE D == DamageOld(T, w)
<1>1. D \in State /\ Kept(T, D)
  BY DamageOldKept
<1>2. Shaped(T, w) \in {T, DamageOld(D, w)}
  BY DEF Shaped
<1> HIDE DEF D
<1>3. DamageOld(D, w) \in State /\ Kept(D, DamageOld(D, w))
  BY <1>1, DamageOldKept
<1>4. QED
  BY <1>1, <1>2, <1>3, KeptTwice, KeptSelf

\* The background is loaded again when it is next painted.
LEMMA UpdateBackgroundKept ==
    ASSUME NEW T \in State
    PROVE  UpdateBackground(T) \in State /\ Kept(T, UpdateBackground(T))
<1> DEFINE U == [T EXCEPT !.scr.bgTex = 0, !.scr.bgLoaded = FALSE]
           V == [T EXCEPT !.scr.bgTex = 0]
<1>0. 0 \in Version
  BY DEF Version
<1>1. U \in State /\ V \in State
  BY <1>0 DEF State, ScreenState
<1>2. Damages(T, U) /\ Damages(T, V)
  BY DEF Damages, Awake, State, ScreenState
<1>3. UpdateBackground(T) \in {DamageScreen(U), V}
  BY DEF UpdateBackground
<1> HIDE DEF U, V
<1>4. DamageScreen(U) \in State /\ Damages(U, DamageScreen(U))
  BY <1>1, DamageScreenDamages
<1>5. QED
  BY <1>1, <1>2, <1>3, <1>4, DamagesKept, KeptTwice

LEMMA ScreenCells == Screen \in SUBSET Cell
BY OutputsAssumption

-----------------------------------------------------------------------------
(* The count of overlay windows and the holes of the output window.        *)

\* The windows the compositor knows and shows, and their order, are the same.
Same(T, U) ==
    /\ U.scr.active = T.scr.active /\ U.scr.stack = T.scr.stack
    /\ \A w \in Window : /\ U.win[w].known = T.win[w].known
                         /\ U.win[w].viewable = T.win[w].viewable

LEMMA KeptSame ==
    ASSUME NEW T, NEW U, Kept(T, U)
    PROVE  Same(T, U)
BY DEF Kept, KeptWindow, Same

LEMMA SameTwice ==
    ASSUME NEW T, NEW U, NEW V, Same(T, U), Same(U, V)
    PROVE  Same(T, V)
BY DEF Same

LEMMA OverlaysFinite ==
    ASSUME NEW T
    PROVE  IsFiniteSet(Overlays(T)) /\ Cardinality(Overlays(T)) \in Nat
<1>1. Overlays(T) \in SUBSET Window
  BY DEF Overlays
<1>2. QED
  BY <1>1, WindowAssumption, FS_Subset, FS_CardinalityType

\* The holes are set, and with them what is forgotten.
LEMMA ShapeSound ==
    ASSUME NEW T, Sound(T), NEW s \in SUBSET Cell, NEW f \in SUBSET Cell
    PROVE  /\ Sound([T EXCEPT !.srv.shape = s, !.scr.forgotten = f])
           /\ Same(T, [T EXCEPT !.srv.shape = s, !.scr.forgotten = f])
           /\ Sound([T EXCEPT !.srv.shape = s])
           /\ Same(T, [T EXCEPT !.srv.shape = s])
<1> DEFINE U == [T EXCEPT !.srv.shape = s, !.scr.forgotten = f]
           V == [T EXCEPT !.srv.shape = s]
<1>1. T \in State
  BY DEF Sound
<1>2. U \in State /\ V \in State
  BY <1>1 DEF State, Server, ScreenState
<1>3. /\ U.win = T.win /\ U.queue = T.queue /\ U.srv.win = T.srv.win
      /\ U.scr.active = T.scr.active /\ U.scr.count = T.scr.count /\ U.scr.stack = T.scr.stack
      /\ U.scr.mask = T.scr.mask /\ U.scr.late = T.scr.late
      /\ V.win = T.win /\ V.queue = T.queue /\ V.srv.win = T.srv.win /\ V.scr = T.scr
  BY <1>1 DEF State, Server, ScreenState
<1> HIDE DEF U, V
<1>4. CreatesOnce(U) /\ CreatesOnce(V)
  BY <1>3, SameCreates DEF Sound
<1>5. Overlays(U) = Overlays(T) /\ Overlays(V) = Overlays(T)
  BY <1>3 DEF Overlays
<1>6. Sound(U) /\ Same(T, U) /\ Sound(V) /\ Same(T, V)
  BY <1>2, <1>3, <1>4, <1>5 DEF Sound, Counted, Holds, Awake, Same
<1>7. QED
  BY <1>6 DEF U, V

LEMMA ShowOutputWindowGood ==
    ASSUME NEW T, Sound(T)
    PROVE  Good(ShowOutputWindow(T)) /\ Same(T, ShowOutputWindow(T))
<1> DEFINE U == [T EXCEPT !.srv.shape = Screen]
<1>1. CASE T.scr.active
  <2>1. Sound(U) /\ Same(T, U)
    BY ShapeSound, ScreenCells
  <2>2. U.srv.shape = Screen
    BY DEF Sound, State, Server
  <2>3. ShowOutputWindow(T) = DamageScreen(U)
    BY <1>1 DEF ShowOutputWindow
  <2> HIDE DEF U
  <2>4. DamageScreen(U) \in State /\ Kept(U, DamageScreen(U))
    BY <2>1, DamageScreenDamages, DamagesKept DEF Sound
  <2>5. Good(U)
    BY <2>1, <2>2 DEF Good, Whole
  <2>6. QED
    BY <2>1, <2>3, <2>4, <2>5, KeptGood, KeptSame, SameTwice
<1>2. CASE ~T.scr.active
  BY <1>2 DEF ShowOutputWindow, Good, Whole, Same
<1>3. QED
  BY <1>1, <1>2

LEMMA UpdateOutputWindowGood ==
    ASSUME NEW T, Sound(T), T.scr.count # 0
    PROVE  Good(UpdateOutputWindow(T)) /\ Same(T, UpdateOutputWindow(T))
<1> DEFINE s == Screen \ UNION {Area(T, w) : w \in Overlays(T)}
           f == T.scr.forgotten \cup (s \ T.srv.shape)
           U == [T EXCEPT !.srv.shape = s, !.scr.forgotten = f]
<1>1. s \in SUBSET Cell
  BY ScreenCells
<1> HIDE DEF s
<1>2. f \in SUBSET Cell
  BY <1>1 DEF Sound, State, ScreenState
<1>3. CASE T.scr.active
  <2>1. UpdateOutputWindow(T) = U
    BY <1>3 DEF UpdateOutputWindow, s
  <2>2. U.scr.count = T.scr.count
    BY DEF Sound, State, Server, ScreenState
  <2> HIDE DEF f
  <2>3. Sound(U) /\ Same(T, U)
    BY <1>1, <1>2, ShapeSound
  <2>4. QED
    BY <2>1, <2>2, <2>3 DEF Good, Whole
<1>4. CASE ~T.scr.active
  BY <1>4 DEF UpdateOutputWindow, Good, Whole, Same
<1>5. QED
  BY <1>3, <1>4

LEMMA ShapeOutputGood ==
    ASSUME NEW T, Sound(T)
    PROVE  Good(ShapeOutput(T)) /\ Same(T, ShapeOutput(T))
BY ShowOutputWindowGood, UpdateOutputWindowGood DEF ShapeOutput

\* A window that is known goes to the overlay windows, or leaves them.
Redirection(T, w, r, o, n) ==
    [T EXCEPT !.win[w].redirected = r, !.win[w].overlay = o, !.scr.count = n]

LEMMA RedirectionSound ==
    ASSUME NEW T, Sound(T), T.scr.active, NEW w \in Window, T.win[w].known,
           NEW r \in BOOLEAN, NEW o \in BOOLEAN, o = ~r, T.win[w].redirected = o,
           NEW n \in Int, n = IF r THEN T.scr.count - 1 ELSE T.scr.count + 1
    PROVE  /\ Sound(Redirection(T, w, r, o, n)) /\ Same(T, Redirection(T, w, r, o, n))
           /\ o => Redirection(T, w, r, o, n).scr.count > 0
<1> DEFINE U == Redirection(T, w, r, o, n)
           x == T.win[w]
           y == [x EXCEPT !.redirected = r, !.overlay = o]
           V == [T EXCEPT !.win[w] = y]
           X == [V EXCEPT !.scr.count = n]
<1>1. T \in State /\ x \in WindowState
  BY DEF Sound, State
<1>2. U = X
  <2>1. [T EXCEPT !.win[w].redirected = r, !.win[w].overlay = o] = V
    BY <1>1 DEF State, WindowState
  <2>2. U = [[T EXCEPT !.win[w].redirected = r, !.win[w].overlay = o] EXCEPT !.scr.count = n]
    BY DEF Redirection
  <2>3. QED
    BY <2>1, <2>2
<1>3. y \in WindowState
  BY <1>1 DEF WindowState
<1>4. /\ y.known = x.known /\ y.viewable = x.viewable /\ y.pix = x.pix /\ y.tex = x.tex
      /\ y.redirected = r /\ y.overlay = o
  BY <1>1 DEF WindowState
<1> HIDE DEF y
<1>5. V \in State
  BY <1>1, <1>3 DEF State
<1>6. /\ V.srv = T.srv /\ V.queue = T.queue /\ V.scr = T.scr
      /\ \A v \in Window : V.win[v] = IF v = w THEN y ELSE T.win[v]
  BY <1>1 DEF State
<1> HIDE DEF V
<1>19. X \in State
  BY <1>5 DEF State, ScreenState
<1>20. /\ X.srv = V.srv /\ X.queue = V.queue /\ X.win = V.win
       /\ X.scr.active = V.scr.active /\ X.scr.count = n /\ X.scr.stack = V.scr.stack
       /\ X.scr.mask = V.scr.mask /\ X.scr.late = V.scr.late
  BY <1>5 DEF State, ScreenState
<1> HIDE DEF X, U
<1>15. U \in State
  BY <1>2, <1>19
<1>16. /\ U.srv = V.srv /\ U.queue = V.queue /\ U.win = V.win
       /\ U.scr.active = V.scr.active /\ U.scr.count = n /\ U.scr.stack = V.scr.stack
       /\ U.scr.mask = V.scr.mask /\ U.scr.late = V.scr.late
  BY <1>2, <1>20
<1>7. /\ \A v \in Window : T.win[v].known => T.win[v].overlay = ~T.win[v].redirected
      /\ T.scr.count = Cardinality(Overlays(T))
  BY DEF Sound, Counted
<1>8. IsFiniteSet(Overlays(T)) /\ Cardinality(Overlays(T)) \in Nat
  BY OverlaysFinite
<1>17. /\ \A v \in Window \ {w} : U.win[v] = T.win[v]
       /\ U.win[w] = y
  BY <1>6, <1>16
<1>9. n = Cardinality(Overlays(U)) /\ (o => n > 0)
  <2>1. CASE r
    <3>1. x.overlay /\ ~y.overlay /\ x.known
      BY <1>4, <1>7, <2>1
    <3>2. w \in Overlays(T)
      BY <3>1 DEF Overlays
    <3>3. Overlays(U) = Overlays(T) \ {w}
      BY <1>17, <3>1 DEF Overlays
    <3>4. Cardinality(Overlays(U)) = Cardinality(Overlays(T)) - 1
      BY <1>8, <3>2, <3>3, FS_RemoveElement
    <3>5. QED
      BY <1>7, <2>1, <3>4
  <2>2. CASE ~r
    <3>1. ~x.overlay /\ y.overlay /\ y.known
      BY <1>4, <1>7, <2>2
    <3>2. w \notin Overlays(T)
      BY <3>1 DEF Overlays
    <3>3. Overlays(U) = Overlays(T) \cup {w}
      BY <1>17, <3>1 DEF Overlays
    <3>4. Cardinality(Overlays(U)) = Cardinality(Overlays(T)) + 1
      BY <1>8, <3>2, <3>3, FS_AddElement
    <3>5. QED
      BY <1>7, <1>8, <2>2, <3>4
  <2>3. QED
    BY <2>1, <2>2
<1>10. \A v \in Window : /\ U.win[v].known = T.win[v].known
                         /\ U.win[v].viewable = T.win[v].viewable
                         /\ U.win[v].pix = T.win[v].pix /\ U.win[v].tex = T.win[v].tex
  BY <1>4, <1>17
<1>18. \A v \in Window : U.win[v].known => U.win[v].overlay = ~U.win[v].redirected
  <2>1. y.overlay = ~y.redirected
    BY <1>4
  <2>2. QED
    BY <1>7, <1>17, <2>1
<1>11. Counted(U) /\ Same(T, U)
  BY <1>6, <1>16, <1>9, <1>10, <1>18 DEF Counted, Same
<1>12. CreatesOnce(U)
  <2>1. U.srv = T.srv /\ U.queue = T.queue
    BY <1>6, <1>16
  <2>2. CreatesOnce(T)
    BY DEF Sound
  <2>3. \A v \in Window : /\ U.win[v].known = T.win[v].known
                          /\ U.srv.win[v].exists = T.srv.win[v].exists
    BY <2>1, <1>10
  <2>4. QED
    BY <2>1, <2>2, <2>3, SameCreates
<1>13. Holds(U) /\ Awake(U)
  BY <1>6, <1>16, <1>10 DEF Sound, Holds, Awake
<1>14. QED
  BY <1>15, <1>16, <1>9, <1>11, <1>12, <1>13 DEF Sound, U

LEMMA RedirectGood ==
    ASSUME NEW T, Good(T), NEW w \in Window, T.win[w].known
    PROVE  Good(Redirect(T, w)) /\ Same(T, Redirect(T, w))
<1> DEFINE R == Redirected(T, w)
           U == [R EXCEPT !.win[w].redirected = TRUE, !.win[w].overlay = FALSE,
                          !.scr.count = IF T.win[w].overlay THEN @ - 1 ELSE @]
           V == Redirection(R, w, TRUE, FALSE, R.scr.count - 1)
<1>1. CASE T.win[w].redirected \/ ~T.scr.active
  BY <1>1 DEF Redirect, Same
<1>2. CASE ~T.win[w].redirected /\ T.scr.active
  <2>1. R \in State /\ Kept(T, R)
    BY RedirectedKept DEF Good, Sound
  <2>2. Sound(R) /\ Same(T, R)
    BY <2>1, KeptSound, KeptSame DEF Good
  <2>3. Redirect(T, w) = ShapeOutput(U)
    BY <1>2 DEF Redirect
  <2>4. T.win[w].overlay
    BY <1>2 DEF Good, Sound, Counted, State, WindowState
  <2> HIDE DEF R
  <2>5. /\ R.win[w].redirected = FALSE /\ R.win[w].known /\ R.scr.active
        /\ R.scr.count - 1 \in Int
    BY <1>2, <2>1 DEF Kept, KeptWindow, State, WindowState, ScreenState
  <2>6. U = V
    BY <2>4 DEF Redirection
  <2> HIDE DEF U, V
  <2>7. Sound(U) /\ Same(R, U)
    BY <2>2, <2>5, <2>6, RedirectionSound DEF V
  <2>8. QED
    BY <2>2, <2>3, <2>7, ShapeOutputGood, SameTwice
<1>3. QED
  BY <1>1, <1>2 DEF Good, Sound, State, WindowState, ScreenState

LEMMA UnredirectGood ==
    ASSUME NEW T, Good(T), NEW w \in Window, T.win[w].known
    PROVE  Good(Unredirect(T, w)) /\ Same(T, Unredirect(T, w))
<1> DEFINE L == Release(T, w)
           R == Unredirected(L, w)
           U == [R EXCEPT !.win[w].redirected = FALSE, !.win[w].overlay = TRUE,
                          !.scr.count = @ + 1]
           V == Redirection(R, w, FALSE, TRUE, R.scr.count + 1)
<1>1. CASE ~T.win[w].redirected \/ ~T.scr.active
  BY <1>1 DEF Unredirect, Same
<1>2. CASE T.win[w].redirected /\ T.scr.active
  <2>1. L \in State /\ Kept(T, L)
    BY ReleaseKept DEF Good, Sound
  <2>2. Unredirect(T, w) = IF U.scr.count > 0 THEN UpdateOutputWindow(U) ELSE U
    BY <1>2 DEF Unredirect
  <2> HIDE DEF L
  <2>3. R \in State /\ Kept(L, R)
    BY <2>1, UnredirectedKept
  <2> HIDE DEF R
  <2>4. Kept(T, R) /\ Sound(R) /\ Same(T, R)
    BY <2>1, <2>3, KeptTwice, KeptSound, KeptSame DEF Good
  <2>5. /\ R.win[w].redirected = TRUE /\ R.win[w].known /\ R.scr.active
        /\ R.scr.count + 1 \in Int
    BY <1>2, <2>3, <2>4 DEF Kept, KeptWindow, State, WindowState, ScreenState
  <2>6. U = V
    BY DEF Redirection
  <2> HIDE DEF U, V
  <2>7. Sound(U) /\ Same(R, U) /\ U.scr.count > 0
    BY <2>4, <2>5, <2>6, RedirectionSound DEF V
  <2>8. U.scr.count # 0
    BY <2>7
  <2>9. QED
    BY <2>2, <2>4, <2>7, <2>8, UpdateOutputWindowGood, SameTwice
<1>3. QED
  BY <1>1, <1>2

-----------------------------------------------------------------------------
(* Painting one window.                                                    *)

\* A window on screen names its pixmap.
LEMMA BindWindowGood ==
    ASSUME NEW T, Good(T), NEW w \in Window, T.win[w].known, T.win[w].viewable
    PROVE  Good(BindWindow(T, w)) /\ Same(T, BindWindow(T, w))
<1> DEFINE U == Redirect(T, w)
           p == [bound |-> TRUE, live |-> TRUE, kept |-> 0]
           x == U.win[w]
           y == [x EXCEPT !.bindFailed = TRUE]
           z == [x EXCEPT !.pix = p]
           V == [U EXCEPT !.win[w].bindFailed = TRUE]
           W == [U EXCEPT !.win[w].pix = p]
<1>1. Good(U) /\ Same(T, U)
  BY RedirectGood
<1>2. BindWindow(T, w) \in {U, V, W}
  BY DEF BindWindow
<1> HIDE DEF U
<1>3. U \in State /\ x \in WindowState /\ x.viewable /\ p \in Pixmap
  BY <1>1 DEF Good, Sound, State, Same, Pixmap, Version
<1> HIDE DEF p
<1>4. y \in WindowState /\ KeptWindow(x, y) /\ z \in WindowState /\ KeptWindow(x, z)
  BY <1>3 DEF WindowState, KeptWindow
<1>5. V = [U EXCEPT !.win[w] = y] /\ W = [U EXCEPT !.win[w] = z]
  BY <1>3 DEF State, WindowState
<1>6. V \in State /\ Kept(U, V) /\ W \in State /\ Kept(U, W)
  BY <1>3, <1>4, <1>5, WindowKept
<1> HIDE DEF V, W
<1>7. QED
  BY <1>1, <1>2, <1>6, KeptGood, KeptSame, SameTwice

LEMMA BindGood ==
    ASSUME NEW T, Good(T), NEW w \in Window, T.win[w].known, T.win[w].viewable
    PROVE  Good(Bind(T, w)) /\ Same(T, Bind(T, w))
<1> DEFINE U == BindWindow(T, w)
<1>1. Good(U) /\ Same(T, U)
  BY BindWindowGood
<1>2. Bind(T, w) \in {BindPixmap(T, w), BindPixmap(U, w)}
  BY DEF Bind
<1> HIDE DEF U
<1>3. T \in State /\ U \in State /\ U.win[w].viewable
  BY <1>1 DEF Good, Sound, Same
<1>4. /\ BindPixmap(T, w) \in State /\ Kept(T, BindPixmap(T, w))
      /\ BindPixmap(U, w) \in State /\ Kept(U, BindPixmap(U, w))
  BY <1>3, BindPixmapKept
<1>5. QED
  BY <1>1, <1>2, <1>4, KeptGood, KeptSame, SameTwice

LEMMA ClipCells ==
    ASSUME NEW T, NEW w, NEW r \in SUBSET Cell
    PROVE  Clip(T, w, r) \in SUBSET Cell
BY DEF Clip

\* What is drawn goes to the back buffer.
LEMMA DrawFromKept ==
    ASSUME NEW T \in State, NEW w \in Window, NEW r \in SUBSET Cell
    PROVE  DrawFrom(T, w, r) \in State /\ Kept(T, DrawFrom(T, w, r))
<1> DEFINE N == Enable(T, w)
           c == r \cap Area(T, w)
           U == [N EXCEPT !.scr.back[w] = c]
<1>1. N \in State /\ Kept(T, N)
  BY EnableKept
<1>2. DrawFrom(T, w, r) \in {T, U}
  BY DEF DrawFrom
<1> HIDE DEF N
<1>3. c \in SUBSET Cell
  OBVIOUS
<1> HIDE DEF c
<1>4. U \in State
  BY <1>1, <1>3 DEF State, ScreenState
<1>5. Damages(N, U)
  BY <1>1 DEF Damages, Awake, State, ScreenState
<1> HIDE DEF U
<1>6. Kept(N, U)
  BY <1>1, <1>4, <1>5, DamagesKept
<1>7. QED
  BY <1>1, <1>2, <1>4, <1>6, KeptTwice, KeptSelf

LEMMA GlDrawGood ==
    ASSUME NEW T, Good(T), NEW w \in Window, T.win[w].known, T.win[w].viewable,
           NEW r \in SUBSET Cell
    PROVE  Good(GlDraw(T, w, r)) /\ Same(T, GlDraw(T, w, r))
<1> DEFINE X == Texture(T, w)
           c == Clip(T, w, r)
<1>1. Good(X) /\ Same(T, X)
  BY BindGood DEF Texture, Same
<1>2. GlDraw(T, w, r) \in {T, DrawFrom(X, w, c)}
  BY DEF GlDraw
<1>3. c \in SUBSET Cell
  BY ClipCells
<1> HIDE DEF X, c
<1>4. DrawFrom(X, w, c) \in State /\ Kept(X, DrawFrom(X, w, c))
  BY <1>1, <1>3, DrawFromKept DEF Good, Sound
<1>5. Same(T, T)
  BY DEF Same
<1>6. QED
  BY <1>1, <1>2, <1>4, <1>5, KeptGood, KeptSame, SameTwice

LEMMA PaintBackgroundKept ==
    ASSUME NEW T \in State, NEW r
    PROVE  PaintBackground(T, r) \in State /\ Kept(T, PaintBackground(T, r))
<1> DEFINE U == [T EXCEPT !.scr.bgTex = T.srv.bg, !.scr.bgLoaded = TRUE]
<1>1. U \in State
  BY DEF State, Server, ScreenState
<1>2. Damages(T, U)
  BY DEF Damages, Awake, State, ScreenState
<1>3. PaintBackground(T, r) \in {T, U}
  BY DEF PaintBackground
<1> HIDE DEF U
<1>4. QED
  BY <1>1, <1>2, <1>3, DamagesKept, KeptSelf

\* The buffers are swapped: only what is shown and what is forgotten change.
LEMMA FrontOfKept ==
    ASSUME NEW T \in State, NEW W \in SUBSET Window, NEW r \in SUBSET Cell
    PROVE  FrontOf(T, W, r) \in State /\ Kept(T, FrontOf(T, W, r))
<1> DEFINE f == [c \in Cell |->
                  IF c \notin r THEN T.srv.front[c]
                  ELSE Drawing(T, W, c)
                       \cup IF c \in Cover(T, W) THEN {} ELSE {<<Root, T.scr.bgTex>>}]
           g == T.scr.forgotten \ r
           b == [w \in Window |-> {}]
           U == [T EXCEPT !.scr.forgotten = g, !.srv.front = f]
           V == [U EXCEPT !.scr.back = b]
           Spots == (Window \cup {Root}) \X Version
<1>1. FrontOf(T, W, r) = V
  BY DEF FrontOf, Blank
<1>2. \A c \in Cell : Drawing(T, W, c) \in SUBSET Spots
  <2>1. \A w \in Window : T.win[w].tex.shown \in Version
    BY DEF State, WindowState, TextureOf
  <2>2. QED
    BY <2>1 DEF Drawing
<1>3. {<<Root, T.scr.bgTex>>} \in SUBSET Spots
  BY DEF State, ScreenState
<1>4. \A c \in Cell : T.srv.front[c] \in SUBSET Spots
  BY DEF State, Server
<1>5. f \in [Cell -> SUBSET Spots]
  BY <1>2, <1>3, <1>4
<1>6. g \in SUBSET Cell /\ b \in [Window -> SUBSET Cell]
  BY DEF State, ScreenState
<1> HIDE DEF f, g, b
<1>7. U \in State
  BY <1>5, <1>6 DEF State, Server, ScreenState
<1>8. /\ U.win = T.win /\ U.queue = T.queue /\ U.srv.win = T.srv.win /\ U.srv.shape = T.srv.shape
      /\ U.scr.active = T.scr.active /\ U.scr.count = T.scr.count /\ U.scr.stack = T.scr.stack
      /\ U.scr.mask = T.scr.mask /\ U.scr.late = T.scr.late
  BY DEF State, Server, ScreenState
<1> HIDE DEF U
<1>9. V \in State
  BY <1>6, <1>7 DEF State, ScreenState
<1>10. /\ V.win = U.win /\ V.queue = U.queue /\ V.srv = U.srv
       /\ V.scr.active = U.scr.active /\ V.scr.count = U.scr.count /\ V.scr.stack = U.scr.stack
       /\ V.scr.mask = U.scr.mask /\ V.scr.late = U.scr.late
  BY <1>7 DEF State, ScreenState
<1> HIDE DEF V
<1>11. CreatesOnce(T) => CreatesOnce(V)
  BY <1>8, <1>10, SameCreates
<1>12. Kept(T, V)
  BY <1>8, <1>10, <1>11 DEF Kept, KeptWindow, Awake
<1>13. QED
  BY <1>1, <1>9, <1>12

-----------------------------------------------------------------------------
(* Many windows, and the outputs.                                          *)

RedirectedStep(p, T, w) == Redirected(T, w)
UnredirectedStep(p, T, w) == Unredirected(T, w)
UnredirectStep(p, T, w) == Unredirect(T, w)
DrawStep(p, T, w) == IF w \in p.windows THEN GlDraw(T, w, p.region) ELSE T
OutputStep(p, T, o) ==
    IF "all" \in p.mask THEN PaintOutputRegion(T, o)
    ELSE IF "region" \in p.mask THEN PaintOutputRegion(T, o \cap p.region)
    ELSE T

RedirectedFold == INSTANCE DataLemmas WITH Stepped <- RedirectedStep
UnredirectedFold == INSTANCE DataLemmas WITH Stepped <- UnredirectedStep
UnredirectFold == INSTANCE DataLemmas WITH Stepped <- UnredirectStep
DrawFold == INSTANCE DataLemmas WITH Stepped <- DrawStep
OutputFold == INSTANCE DataLemmas WITH Stepped <- OutputStep

\* When compositing starts or ends the server redirects all windows, or none.
LEMMA AllRedirectedKept ==
    ASSUME NEW T \in State, NEW W \in SUBSET Window
    PROVE  /\ OnAll(T, W, Redirected) \in State /\ Kept(T, OnAll(T, W, Redirected))
           /\ OnAll(T, W, Unredirected) \in State /\ Kept(T, OnAll(T, W, Unredirected))
<1> DEFINE V == {U \in State : Kept(T, U)}
<1>1. IsFiniteSet(W)
  BY WindowAssumption, FS_Subset
<1>2. T \in V
  BY KeptSelf
<1>3. \A w \in W : \A U \in V : RedirectedStep(0, U, w) \in V
  BY RedirectedKept, KeptTwice DEF RedirectedStep
<1>4. \A w \in W : \A U \in V : UnredirectedStep(0, U, w) \in V
  BY UnredirectedKept, KeptTwice DEF UnredirectedStep
<1> HIDE DEF V
<1>5. RedirectedFold!Folded(0, W, T) \in V
  BY <1>1, <1>2, <1>3, RedirectedFold!FoldStays DEF IsFiniteSet, RedirectedFold!IsFiniteSet
<1>6. UnredirectedFold!Folded(0, W, T) \in V
  BY <1>1, <1>2, <1>4, UnredirectedFold!FoldStays DEF IsFiniteSet, UnredirectedFold!IsFiniteSet
<1>7. OnAll(T, W, Redirected) = RedirectedFold!Folded(0, W, T)
  BY DEF OnAll, FoldSet, MapThenFoldSet, RedirectedFold!Folded, RedirectedStep
<1>8. OnAll(T, W, Unredirected) = UnredirectedFold!Folded(0, W, T)
  BY DEF OnAll, FoldSet, MapThenFoldSet, UnredirectedFold!Folded, UnredirectedStep
<1>9. QED
  BY <1>5, <1>6, <1>7, <1>8 DEF V

\* A fullscreen window is left to the server.
LEMMA AllUnredirectGood ==
    ASSUME NEW T, Good(T), NEW W \in SUBSET Window, \A w \in W : T.win[w].known
    PROVE  Good(OnAll(T, W, Unredirect)) /\ Same(T, OnAll(T, W, Unredirect))
<1> DEFINE V == {U \in State : Good(U) /\ Same(T, U)}
<1>1. IsFiniteSet(W)
  BY WindowAssumption, FS_Subset
<1>2. T \in V
  BY DEF Same, Good, Sound
<1>3. ASSUME NEW w \in W, NEW U \in V PROVE UnredirectStep(0, U, w) \in V
  <2>1. U.win[w].known
    BY DEF Same
  <2>2. Good(Unredirect(U, w)) /\ Same(U, Unredirect(U, w))
    BY <2>1, UnredirectGood
  <2>3. QED
    BY <2>2, SameTwice DEF UnredirectStep, Good, Sound
<1> HIDE DEF V
<1>4. UnredirectFold!Folded(0, W, T) \in V
  BY <1>1, <1>2, <1>3, UnredirectFold!FoldStays DEF IsFiniteSet, UnredirectFold!IsFiniteSet
<1>5. OnAll(T, W, Unredirect) = UnredirectFold!Folded(0, W, T)
  BY DEF OnAll, FoldSet, MapThenFoldSet, UnredirectFold!Folded, UnredirectStep
<1>6. QED
  BY <1>4, <1>5 DEF V

LEMMA DrawWindowsGood ==
    ASSUME NEW T, Good(T), NEW W \in SUBSET Window, NEW r \in SUBSET Cell,
           \A w \in W : T.win[w].known /\ T.win[w].viewable
    PROVE  Good(DrawWindows(T, W, r)) /\ Same(T, DrawWindows(T, W, r))
<1> DEFINE V == {U \in State : Good(U) /\ Same(T, U)}
           p == [windows |-> W, region |-> r]
<1>1. T.scr.stack \in Seq(Window)
  BY DEF Good, Sound, State, ScreenState
<1>2. T \in V
  BY DEF Same, Good, Sound
<1>3. ASSUME NEW w \in Window, NEW U \in V PROVE DrawStep(p, U, w) \in V
  <2>1. CASE w \notin W
    BY <2>1 DEF DrawStep
  <2>2. CASE w \in W
    <3>1. U.win[w].known /\ U.win[w].viewable
      BY <2>2 DEF Same
    <3>2. Good(GlDraw(U, w, r)) /\ Same(U, GlDraw(U, w, r))
      BY <3>1, GlDrawGood
    <3>3. QED
      BY <2>2, <3>2, SameTwice DEF DrawStep, Good, Sound
  <2>3. QED
    BY <2>1, <2>2
<1>4. DrawWindows(T, W, r) = DrawFold!FoldedLeft(p, T.scr.stack, T)
  BY DEF DrawWindows, FoldLeft, MapThenFoldSet, DrawFold!FoldedLeft, DrawStep, Max, DrawFold!Max
<1> HIDE DEF V, p
<1>5. DrawFold!FoldedLeft(p, T.scr.stack, T) \in V
  BY <1>1, <1>2, <1>3, DrawFold!FoldLeftStays
<1>6. QED
  BY <1>4, <1>5 DEF V

\* What is painted is known and on screen.
LEMMA ShownKnown ==
    ASSUME NEW T, Good(T)
    PROVE  /\ Shown(T) \in SUBSET Window
           /\ \A w \in Shown(T) : T.win[w].known /\ T.win[w].viewable
<1>1. \A i \in PaintList(T) : T.scr.stack[i] \in Window
  BY ElementOfSeq, LenProperties DEF PaintList, Good, Sound, State, ScreenState
<1>2. \A i \in PaintList(T) : T.win[T.scr.stack[i]].viewable
  BY DEF PaintList, Paintable, Exposed
<1>3. QED
  BY <1>1, <1>2 DEF Shown, Good, Sound, Holds

LEMMA PaintOutputRegionGood ==
    ASSUME NEW T, Good(T), NEW r \in SUBSET Cell
    PROVE  Good(PaintOutputRegion(T, r)) /\ Same(T, PaintOutputRegion(T, r))
<1> DEFINE S == Shown(T)
           full == FullscreenWindow(T, r)
           U == OnAll(T, full, Unredirect)
           V == PaintBackground(U, r \ Cover(T, S))
           X == DrawWindows(V, S \ full, r)
           Y == FrontOf(X, S, r)
<1>1. S \in SUBSET Window /\ \A w \in S : T.win[w].known /\ T.win[w].viewable
  BY ShownKnown
<1>2. full \in SUBSET S
  BY DEF FullscreenWindow
<1>3. PaintOutputRegion(T, r) = Y
  BY DEF PaintOutputRegion
<1> HIDE DEF S, full
<1>4. Good(U) /\ Same(T, U)
  BY <1>1, <1>2, AllUnredirectGood
<1> HIDE DEF U
<1>5. V \in State /\ Kept(U, V)
  BY <1>4, PaintBackgroundKept DEF Good, Sound
<1> HIDE DEF V
<1>6. Good(V) /\ Same(T, V)
  BY <1>4, <1>5, KeptGood, KeptSame, SameTwice
<1>7. Good(X) /\ Same(V, X)
  <2>1. S \ full \in SUBSET Window /\ \A w \in S \ full : V.win[w].known /\ V.win[w].viewable
    BY <1>1, <1>6 DEF Same
  <2>2. QED
    BY <1>6, <2>1, DrawWindowsGood
<1> HIDE DEF X
<1>8. Y \in State /\ Kept(X, Y)
  BY <1>1, <1>7, FrontOfKept DEF Good, Sound
<1>9. QED
  BY <1>3, <1>6, <1>7, <1>8, KeptGood, KeptSame, SameTwice

LEMMA PaintOutputsGood ==
    ASSUME NEW T, Good(T), NEW m, NEW r \in SUBSET Cell
    PROVE  Good(PaintOutputs(T, m, r)) /\ Same(T, PaintOutputs(T, m, r))
<1> DEFINE V == {U \in State : Good(U) /\ Same(T, U)}
           p == [mask |-> m, region |-> r]
<1>1. IsFiniteSet(Outputs) /\ \A o \in Outputs : o \in SUBSET Cell
  BY OutputsAssumption DEF Screen
<1>2. T \in V
  BY DEF Same, Good, Sound
<1>3. ASSUME NEW o \in Outputs, NEW U \in V PROVE OutputStep(p, U, o) \in V
  <2>1. /\ Good(PaintOutputRegion(U, o)) /\ Same(U, PaintOutputRegion(U, o))
        /\ Good(PaintOutputRegion(U, o \cap r)) /\ Same(U, PaintOutputRegion(U, o \cap r))
    BY <1>1, PaintOutputRegionGood
  <2>2. OutputStep(p, U, o) \in {PaintOutputRegion(U, o), PaintOutputRegion(U, o \cap r), U}
    BY DEF OutputStep
  <2>3. QED
    BY <2>1, <2>2, SameTwice DEF Good, Sound
<1>4. PaintOutputs(T, m, r) = OutputFold!Folded(p, Outputs, T)
  BY DEF PaintOutputs, FoldSet, MapThenFoldSet, OutputFold!Folded, OutputStep
<1> HIDE DEF V, p
<1>5. OutputFold!Folded(p, Outputs, T) \in V
  BY <1>1, <1>2, <1>3, OutputFold!FoldStays DEF IsFiniteSet, OutputFold!IsFiniteSet
<1>6. QED
  BY <1>4, <1>5 DEF V

-----------------------------------------------------------------------------
(* The paint timer.                                                        *)

\* Damage is cleared, or made smaller, while the timer is awake.
LEMMA MaskKept ==
    ASSUME NEW T \in State, NEW d \in SUBSET Cell,
           NEW m \in SUBSET {"all", "region", "pending"}, T.scr.mask = {} => m = {}
    PROVE  /\ [T EXCEPT !.scr.damage = d, !.scr.mask = m] \in State
           /\ Kept(T, [T EXCEPT !.scr.damage = d, !.scr.mask = m])
<1> DEFINE U == [T EXCEPT !.scr.damage = d, !.scr.mask = m]
<1>1. U \in State
  BY DEF State, ScreenState
<1>2. /\ U.srv = T.srv /\ U.win = T.win /\ U.queue = T.queue
      /\ U.scr.active = T.scr.active /\ U.scr.count = T.scr.count /\ U.scr.stack = T.scr.stack
      /\ U.scr.late = T.scr.late /\ U.scr.mask = m
  BY DEF State, ScreenState
<1> HIDE DEF U
<1>3. Kept(T, U)
  BY <1>1, <1>2, DamagesKept DEF Damages, Awake
<1>4. QED
  BY <1>1, <1>3 DEF U

LEMMA ForgottenKept ==
    ASSUME NEW T \in State, NEW f \in SUBSET Cell
    PROVE  /\ [T EXCEPT !.scr.forgotten = f] \in State
           /\ Kept(T, [T EXCEPT !.scr.forgotten = f])
<1>1. [T EXCEPT !.scr.forgotten = f] \in State
  BY DEF State, ScreenState
<1>2. Damages(T, [T EXCEPT !.scr.forgotten = f])
  BY DEF Damages, Awake, State, ScreenState
<1>3. QED
  BY <1>1, <1>2, DamagesKept

LEMMA SubtractOverlayKept ==
    ASSUME NEW T \in State
    PROVE  SubtractOverlay(T) \in State /\ Kept(T, SubtractOverlay(T))
<1> DEFINE hidden == UNION {Area(T, w) : w \in TopOverlay(T)}
           left == (T.scr.damage \ hidden) \cap Screen
           d == T.scr.damage \ hidden
           m == (T.scr.mask \ {"all"}) \cup {"region"}
           f == T.scr.forgotten \cup (Screen \ left)
           U == [T EXCEPT !.scr.damage = d, !.scr.mask = m]
           V == [U EXCEPT !.scr.forgotten = f]
           W == [T EXCEPT !.scr.damage = d, !.scr.mask = T.scr.mask]
<1>1. /\ d \in SUBSET Cell /\ m \in SUBSET {"all", "region", "pending"}
      /\ T.scr.mask \in SUBSET {"all", "region", "pending"}
  BY DEF State, ScreenState
<1>2. f \in SUBSET Cell
  BY ScreenCells DEF State, ScreenState
<1>3. SubtractOverlay(T) = T \/ (SubtractOverlay(T) = V /\ "all" \in T.scr.mask)
      \/ SubtractOverlay(T) = [T EXCEPT !.scr.damage = d]
  BY DEF SubtractOverlay
<1>4. [T EXCEPT !.scr.damage = d] = W
  BY DEF State, ScreenState
<1> HIDE DEF d, m, f
<1>5. W \in State /\ Kept(T, W)
  BY <1>1, MaskKept
<1>6. ASSUME "all" \in T.scr.mask PROVE U \in State /\ Kept(T, U)
  BY <1>1, <1>6, MaskKept
<1> HIDE DEF U, W
<1>7. ASSUME "all" \in T.scr.mask PROVE V \in State /\ Kept(U, V)
  BY <1>2, <1>6, <1>7, ForgottenKept
<1>8. QED
  BY <1>3, <1>4, <1>5, <1>6, <1>7, KeptSelf, KeptTwice

LEMMA WholeScreenKept ==
    ASSUME NEW T \in State
    PROVE  WholeScreen(T) \in State /\ Kept(T, WholeScreen(T))
BY DamageScreenDamages, DamagesKept, KeptSelf DEF WholeScreen

LEMMA RepaintGood ==
    ASSUME NEW T, Good(T), NEW m, NEW r \in SUBSET Cell
    PROVE  Good(Repaint(T, m, r))
<1> DEFINE U == [T EXCEPT !.scr.damage = {}, !.scr.mask = {}]
           dead == {w \in Known(T) : T.win[w].destroyed}
           one == CHOOSE w \in dead : TRUE
           P == PaintOutputs(U, m, r)
<1>1. Repaint(T, m, r) = IF dead = {} THEN P ELSE DamageOld(P, one)
  BY DEF Repaint
<1>2. dead # {} => one \in Window
  BY DEF Known
<1> HIDE DEF dead, one
<1>3. U \in State /\ Kept(T, U)
  BY MaskKept DEF Good, Sound
<1> HIDE DEF U
<1>4. Good(P)
  BY <1>3, KeptGood, PaintOutputsGood
<1> HIDE DEF P
<1>5. dead # {} => DamageOld(P, one) \in State /\ Kept(P, DamageOld(P, one))
  BY <1>2, <1>4, DamageOldKept DEF Good, Sound
<1>6. QED
  BY <1>1, <1>4, <1>5, KeptGood

LEMMA HandlePaintTimeoutGood ==
    ASSUME NEW T, Good(T)
    PROVE  Good(HandlePaintTimeout(T))
<1> DEFINE S == SubtractOverlay(T)
           U == WholeScreen(S)
           R == Repaint(U, U.scr.mask, U.scr.damage \cap Screen)
           X == [R EXCEPT !.scr.idle = FALSE, !.scr.late = FALSE]
           Y == [T EXCEPT !.scr.idle = TRUE, !.scr.late = TRUE]
<1>0. HandlePaintTimeout(T) = IF T.scr.mask = {} THEN Y ELSE X
  BY DEF HandlePaintTimeout
<1>1. S \in State /\ Kept(T, S)
  BY SubtractOverlayKept DEF Good, Sound
<1> HIDE DEF S
<1>2. U \in State /\ Kept(S, U)
  BY <1>1, WholeScreenKept
<1>3. Good(U)
  BY <1>1, <1>2, KeptGood
<1> HIDE DEF U
<1>4. Good(R)
  BY <1>3, ScreenCells, RepaintGood
<1> HIDE DEF R
<1>5. X \in State
  BY <1>4 DEF Good, Sound, State, ScreenState
<1>6. /\ X.srv = R.srv /\ X.win = R.win /\ X.queue = R.queue
      /\ X.scr.active = R.scr.active /\ X.scr.count = R.scr.count /\ X.scr.stack = R.scr.stack
      /\ ~X.scr.late
  BY <1>4 DEF Good, Sound, State, ScreenState
<1> HIDE DEF X
<1>7. Kept(R, X)
  BY <1>4, <1>5, <1>6, DamagesKept DEF Damages, Awake, Good, Sound
<1>8. ASSUME T.scr.mask = {} PROVE Good(Y)
  <2>1. Y \in State
    BY DEF Good, Sound, State, ScreenState
  <2>2. /\ Y.srv = T.srv /\ Y.win = T.win /\ Y.queue = T.queue
        /\ Y.scr.active = T.scr.active /\ Y.scr.count = T.scr.count
        /\ Y.scr.stack = T.scr.stack /\ Y.scr.mask = {}
    BY <1>8 DEF Good, Sound, State, ScreenState
  <2> HIDE DEF Y
  <2>3. Kept(T, Y)
    BY <2>1, <2>2, DamagesKept DEF Damages, Awake, Good, Sound
  <2>4. QED
    BY <2>1, <2>3, KeptGood
<1>9. QED
  BY <1>0, <1>4, <1>5, <1>7, <1>8, KeptGood

-----------------------------------------------------------------------------
(* Windows come on screen, leave it, start and end.                        *)

\* A window that is known changes, and holds nothing unless it is on screen.
LEMMA KnownGood ==
    ASSUME NEW T, Good(T), NEW w \in Window, T.win[w].known, NEW v \in WindowState,
           v.known, v.overlay = T.win[w].overlay, v.redirected = T.win[w].redirected,
           ~v.viewable => ~v.pix.bound /\ ~v.tex.bound
    PROVE  Good([T EXCEPT !.win[w] = v])
<1> DEFINE U == [T EXCEPT !.win[w] = v]
<1>1. T \in State
  BY DEF Good, Sound
<1>2. U \in State
  BY <1>1 DEF State
<1>3. /\ U.srv = T.srv /\ U.scr = T.scr /\ U.queue = T.queue /\ U.win[w] = v
      /\ \A x \in Window \ {w} : U.win[x] = T.win[x]
  BY <1>1 DEF State
<1> HIDE DEF U
<1>4. T.win[w].known = v.known
  BY <1>1 DEF State, WindowState
<1>5. \A x \in Window : /\ U.win[x].known = T.win[x].known
                        /\ U.win[x].overlay = T.win[x].overlay
                        /\ U.win[x].redirected = T.win[x].redirected
  BY <1>3, <1>4
<1>6. CreatesOnce(T) /\ \A x \in Window : U.srv.win[x].exists = T.srv.win[x].exists
  BY <1>3 DEF Good, Sound
<1>7. CreatesOnce(U)
  BY <1>3, <1>5, <1>6, SameCreates
<1>8. Overlays(U) = Overlays(T)
  BY <1>5 DEF Overlays
<1>9. Counted(U) /\ Whole(U)
  BY <1>3, <1>5, <1>8 DEF Counted, Whole, Good, Sound
<1>10. Holds(U)
  BY <1>3 DEF Holds, Good, Sound
<1>11. Awake(U)
  BY <1>3 DEF Awake, Good, Sound
<1>12. QED
  BY <1>2, <1>7, <1>9, <1>10, <1>11 DEF Good, Sound, U

LEMMA MappedGood ==
    ASSUME NEW T, Good(T), NEW w \in Window, T.win[w].known
    PROVE  Good(Mapped(T, w))
<1> DEFINE x == T.win[w]
           s == x.syncWait \/ (w \in SyncWindow /\ ~T.win[w].viewable)
           y == [x EXCEPT !.viewable = TRUE, !.mapNum = TRUE, !.syncWait = s,
                          !.bindFailed = FALSE, !.damaged = FALSE]
<1>1. x \in WindowState /\ s \in BOOLEAN
  BY DEF Good, Sound, State
<1>7. T \in State
  BY DEF Good, Sound
<1>2. Mapped(T, w) = [T EXCEPT !.win[w] = y]
  BY <1>1, <1>7 DEF Mapped, State
<1> HIDE DEF s, x
<1>3. /\ y \in WindowState /\ y.known = x.known /\ y.overlay = x.overlay
      /\ y.redirected = x.redirected /\ y.viewable
  BY <1>1 DEF WindowState
<1>4. y.known
  BY <1>3 DEF x
<1> HIDE DEF y
<1>5. QED
  BY <1>2, <1>3, <1>4, KnownGood DEF x

LEMMA UnmappedGood ==
    ASSUME NEW T, Good(T), NEW w \in Window, T.win[w].known
    PROVE  Good(Unmapped(T, w))
<1> DEFINE x == T.win[w]
           G == [T EXCEPT !.win[w].viewable = FALSE, !.win[w].mapNum = FALSE]
           y == [x EXCEPT !.viewable = FALSE, !.mapNum = FALSE, !.pix = NoPix, !.tex = NoTex]
           z == [x EXCEPT !.mapNum = FALSE]
           R == ReleaseTexture(G, w)
           D == AddDamage(R, w, TRUE)
           L == Release(D, w)
<1>0. T \in State /\ x \in WindowState
  BY DEF Good, Sound, State
<1>1. /\ NoPix \in Pixmap /\ ~NoPix.bound /\ NoTex \in TextureOf /\ ~NoTex.bound
  BY DEF NoPix, NoTex, Pixmap, TextureOf, Version
<1>2. CASE x.viewable
  <2>1. Unmapped(T, w) = Redirect(L, w)
    BY <1>2 DEF Unmapped, UnmapNotify
  <2>2. R = [T EXCEPT !.win[w] = y]
    <3> DEFINE g == [x EXCEPT !.viewable = FALSE, !.mapNum = FALSE]
               h == [g EXCEPT !.pix = NoPix]
               K == Release(G, w)
    <3>1. G = [T EXCEPT !.win[w] = g]
      BY <1>0 DEF State
    <3> HIDE DEF G, g
    <3>2. K = [T EXCEPT !.win[w] = h]
      BY <1>0, <3>1 DEF Release, State
    <3>3. R = [K EXCEPT !.win[w].tex = NoTex]
      BY DEF ReleaseTexture
    <3> HIDE DEF K, R, h
    <3>4. R = [T EXCEPT !.win[w] = [h EXCEPT !.tex = NoTex]]
      BY <1>0, <3>2, <3>3 DEF State
    <3>5. [h EXCEPT !.tex = NoTex] = y
      BY <1>0 DEF WindowState, g, h
    <3>6. QED
      BY <3>4, <3>5
  <2> HIDE DEF R
  <2>3. /\ y \in WindowState /\ y.known = x.known /\ y.overlay = x.overlay
        /\ y.redirected = x.redirected /\ ~y.pix.bound /\ ~y.tex.bound
    BY <1>0, <1>1 DEF WindowState
  <2> HIDE DEF y
  <2>4. Good(R)
    BY <2>2, <2>3, KnownGood
  <2>5. R.win[w].known
    BY <1>0, <2>2, <2>3 DEF State
  <2>6. D \in State /\ Kept(R, D)
    BY <2>4, AddDamageDamages, DamagesKept DEF Good, Sound
  <2> HIDE DEF D
  <2>7. L \in State /\ Kept(D, L)
    BY <2>6, ReleaseKept
  <2> HIDE DEF L
  <2>8. Good(L) /\ L.win[w].known
    BY <2>4, <2>5, <2>6, <2>7, KeptGood DEF Kept, KeptWindow
  <2>9. QED
    BY <2>1, <2>8, RedirectGood
<1>3. CASE ~x.viewable
  <2>1. Unmapped(T, w) = [T EXCEPT !.win[w] = z]
    BY <1>3 DEF Unmapped, Good, Sound, State, WindowState
  <2>2. z \in WindowState /\ KeptWindow(x, z)
    BY <1>0 DEF WindowState, KeptWindow
  <2>3. QED
    BY <1>0, <2>1, <2>2, WindowKept, KeptGood
<1>4. QED
  BY <1>0, <1>2, <1>3 DEF WindowState

\* The window goes to the top of the compositor's list.
LEMMA RestackedGood ==
    ASSUME NEW T, Good(T), NEW w \in Window
    PROVE  Good(Restacked(T, w))
<1> DEFINE s == Append(RemoveFirst(T.scr.stack, w), w)
           U == [T EXCEPT !.scr.stack = s]
<1>1. T \in State /\ T.scr.stack \in Seq(Window)
  BY DEF Good, Sound, State, ScreenState
<1>2. s \in Seq(Window)
  BY <1>1, RemoveFirstSeq, AppendSeq
<1>3. Restacked(T, w) \in {T, AddDamage(U, w, TRUE)}
  BY DEF Restacked
<1> HIDE DEF s
<1>4. U \in State
  BY <1>1, <1>2 DEF State, ScreenState
<1>5. /\ U.srv = T.srv /\ U.win = T.win /\ U.queue = T.queue
      /\ U.scr.active = T.scr.active /\ U.scr.count = T.scr.count
      /\ U.scr.mask = T.scr.mask /\ U.scr.late = T.scr.late
  BY <1>1 DEF State, ScreenState
<1> HIDE DEF U
<1>6. Good(U)
  <2>1. CreatesOnce(U)
    BY <1>5, SameCreates DEF Good, Sound
  <2>2. Overlays(U) = Overlays(T)
    BY <1>5 DEF Overlays
  <2>3. QED
    BY <1>4, <1>5, <2>1, <2>2 DEF Good, Sound, Counted, Whole, Holds, Awake
<1>7. AddDamage(U, w, TRUE) \in State /\ Kept(U, AddDamage(U, w, TRUE))
  BY <1>4, AddDamageDamages, DamagesKept
<1>8. QED
  BY <1>3, <1>6, <1>7, KeptGood

\* The compositor learns of a window it does not know.
LEMMA CreatedGood ==
    ASSUME NEW T, Good(T), NEW w \in Window, ~T.win[w].known,
           \A i \in DOMAIN T.queue : ~IsAt(T.queue, i, "create", w)
    PROVE  Good(Created(T, w))
<1> DEFINE x == T.win[w]
           here == T.srv.win[w].mapped
           a == T.srv.win[w].area
           o == T.srv.win[w].opaque
           on == T.scr.active
           y == [x EXCEPT !.known = TRUE, !.destroyed = FALSE,
                          !.viewable = here, !.mapNum = here, !.area = a, !.opaque = o,
                          !.damaged = here, !.redirected = on, !.overlay = FALSE,
                          !.bindFailed = FALSE, !.pix = NoPix, !.tex = NoTex,
                          !.syncWait = FALSE, !.nDamage = 0, !.dropped = FALSE]
           s == Append(T.scr.stack, w)
           G == [T EXCEPT !.scr.stack = s]
           U == [G EXCEPT !.win[w] = y]
<1>1. /\ T \in State /\ x \in WindowState /\ T.scr.stack \in Seq(Window)
      /\ T.scr.active \in BOOLEAN /\ T.srv.win[w] \in ServerWindow
  BY DEF Good, Sound, State, Server, ScreenState
<1>2. Created(T, w) = U
  BY <1>1 DEF Created, State
<1>3. NoPix \in Pixmap /\ ~NoPix.bound /\ NoTex \in TextureOf /\ ~NoTex.bound
  BY DEF NoPix, NoTex, Pixmap, TextureOf, Version
<1>4. s \in Seq(Window)
  BY <1>1, AppendSeq
<1>17. here \in BOOLEAN /\ a \in SUBSET Cell /\ o \in BOOLEAN /\ on \in BOOLEAN
  BY <1>1 DEF ServerWindow
<1>18. x \in WindowState
  BY <1>1
<1> HIDE DEF here, a, o, on, x
<1>5. y \in WindowState
  <2> DEFINE f == [x EXCEPT !.known = TRUE, !.destroyed = FALSE,
                            !.viewable = here, !.mapNum = here]
             v == [f EXCEPT !.area = a, !.opaque = o,
                            !.damaged = here, !.redirected = on, !.overlay = FALSE]
             z == [v EXCEPT !.bindFailed = FALSE, !.pix = NoPix, !.tex = NoTex]
             u == [z EXCEPT !.syncWait = FALSE, !.nDamage = 0, !.dropped = FALSE]
  <2>1. y = u
    OBVIOUS
  <2>7. f \in WindowState
    BY <1>17, <1>18 DEF WindowState
  <2> HIDE DEF f, y
  <2>2. v \in WindowState
    BY <1>17, <2>7 DEF WindowState
  <2> HIDE DEF v
  <2>3. z \in WindowState
    BY <1>3, <2>2 DEF WindowState
  <2> HIDE DEF z
  <2>6. 0 \in Int
    OBVIOUS
  <2>4. u \in WindowState
    BY <2>3, <2>6 DEF WindowState
  <2>5. QED
    BY <2>1, <2>4
<1>6. /\ y.known /\ y.overlay = FALSE /\ y.redirected = T.scr.active
      /\ ~y.pix.bound /\ ~y.tex.bound
  BY <1>3, <1>18 DEF WindowState, on
<1> HIDE DEF s, y
<1>7. G \in State
  BY <1>1, <1>4 DEF State, ScreenState
<1>8. /\ G.srv = T.srv /\ G.win = T.win /\ G.queue = T.queue
      /\ G.scr.active = T.scr.active /\ G.scr.count = T.scr.count
      /\ G.scr.mask = T.scr.mask /\ G.scr.late = T.scr.late
  BY <1>1 DEF State, ScreenState
<1> HIDE DEF G
<1>9. U \in State
  BY <1>5, <1>7 DEF State
<1>10. /\ U.srv = G.srv /\ U.scr = G.scr /\ U.queue = G.queue /\ U.win[w] = y
       /\ \A v \in Window \ {w} : U.win[v] = G.win[v]
  BY <1>7 DEF State
<1> HIDE DEF U
<1>11. \A v \in Window \ {w} : U.win[v] = T.win[v]
  BY <1>8, <1>10
<1>12. CreatesOnce(U)
  <2>1. ASSUME NEW v \in Window, NEW i \in DOMAIN U.queue, IsAt(U.queue, i, "create", v)
        PROVE  v # w
    BY <1>8, <1>10, <2>1
  <2>2. U.queue = T.queue /\ U.srv = T.srv
    BY <1>8, <1>10
  <2>3. QED
    BY <1>11, <2>1, <2>2 DEF CreatesOnce, Good, Sound
<1>13. Overlays(U) = Overlays(T)
  BY <1>6, <1>10, <1>11 DEF Overlays
<1>14. Counted(U) /\ Whole(U)
  <2>1. U.scr.active = T.scr.active /\ U.scr.count = T.scr.count /\ U.srv = T.srv
    BY <1>8, <1>10
  <2>2. T.scr.active => U.win[w].overlay = ~U.win[w].redirected
    BY <1>1, <1>6, <1>10
  <2>3. QED
    BY <1>11, <1>13, <2>1, <2>2 DEF Counted, Whole, Good, Sound
<1>15. Holds(U) /\ Awake(U)
  BY <1>6, <1>8, <1>10, <1>11 DEF Holds, Awake, Good, Sound
<1>16. QED
  BY <1>2, <1>9, <1>12, <1>14, <1>15 DEF Good, Sound

\* The queue holds no more creations when fewer windows are known.
LEMMA FewerCreates ==
    ASSUME NEW T, NEW U, CreatesOnce(T), U.queue = T.queue,
           \A w \in Window : /\ U.win[w].known => T.win[w].known
                             /\ U.srv.win[w].exists = T.srv.win[w].exists
    PROVE  CreatesOnce(U)
BY DEF CreatesOnce

\* A window that was left to the server is no longer counted, and with the
\* last of them the hole goes.
LEMMA RemovedGood ==
    ASSUME NEW T, Good(T), NEW w \in Window, T.win[w].known
    PROVE  Good(Removed(T, w))
<1> DEFINE x == T.win[w]
           s == RemoveFirst(T.scr.stack, w)
           n == IF x.redirected THEN T.scr.count ELSE T.scr.count - 1
           t == [x EXCEPT !.tex = NoTex]
           A == [T EXCEPT !.scr.stack = s, !.scr.count = n]
           B == [A EXCEPT !.win[w] = t]
           H == [B EXCEPT !.srv.shape = Screen]
           C == IF ~x.redirected /\ n < 1 /\ T.scr.active THEN DamageScreen(H) ELSE B
           R == Release(C, w)
           D == DamageOld(R, w)
           y == [D.win[w] EXCEPT !.known = FALSE, !.viewable = FALSE]
           U == [D EXCEPT !.win[w] = y]
<1>1. /\ T \in State /\ x \in WindowState /\ T.scr.stack \in Seq(Window) /\ n \in Int
      /\ T.scr.active \in BOOLEAN
  BY DEF Good, Sound, State, ScreenState
<1>2. Removed(T, w) = [D EXCEPT !.win[w].known = FALSE, !.win[w].viewable = FALSE]
  <2>1. [T EXCEPT !.scr.stack = s, !.win[w].tex = NoTex, !.scr.count = n] = B
    BY <1>1 DEF State, ScreenState
  <2>2. B.scr.active = T.scr.active /\ B.scr.count = n
    BY <1>1 DEF State, ScreenState
  <2>3. Dropped(T, w) = B
    BY <2>1, <1>1 DEF Dropped, State, ScreenState
  <2> DEFINE V == IF ~T.win[w].redirected /\ B.scr.count < 1 THEN ShowOutputWindow(B) ELSE B
  <2> HIDE DEF B
  <2>4. Removed(T, w) = [DamageOld(Release(V, w), w) EXCEPT
                            !.win[w].known = FALSE, !.win[w].viewable = FALSE]
    BY <2>3 DEF Removed
  <2>5. V = C
    BY <2>2 DEF ShowOutputWindow
  <2> HIDE DEF V, C
  <2>6. QED
    BY <2>4, <2>5
<1>3. s \in Seq(Window)
  BY <1>1, RemoveFirstSeq
<1>4. NoTex \in TextureOf
  BY DEF NoTex, TextureOf, Version
<1>5. t \in WindowState /\ KeptWindow(x, t)
  BY <1>1, <1>4 DEF WindowState, KeptWindow, NoTex
<1> HIDE DEF s, t
<1>6. A \in State
  <2> HIDE DEF n
  <2>1. QED
    BY <1>1, <1>3 DEF State, ScreenState
<1>7. /\ A.srv = T.srv /\ A.win = T.win /\ A.queue = T.queue
      /\ A.scr.active = T.scr.active /\ A.scr.count = n
      /\ A.scr.mask = T.scr.mask /\ A.scr.late = T.scr.late
  BY <1>1 DEF State, ScreenState
<1> HIDE DEF A
<1>8. B \in State /\ Kept(A, B)
  BY <1>5, <1>6, <1>7, WindowKept
<1>9. B.srv = A.srv /\ B.scr = A.scr /\ B.queue = A.queue
  BY <1>6 DEF State
<1> HIDE DEF B
<1>10. H \in State
  BY <1>8, ScreenCells DEF State, Server
<1>11. /\ H.scr = B.scr /\ H.win = B.win /\ H.queue = B.queue /\ H.srv.win = B.srv.win
       /\ H.srv.shape = Screen
  BY <1>8 DEF State, Server
<1> HIDE DEF H
<1>12. DamageScreen(H) \in State /\ Damages(H, DamageScreen(H))
  BY <1>10, DamageScreenDamages
<1>13. /\ C \in State /\ C.queue = T.queue /\ C.srv.win = T.srv.win
       /\ C.scr.active = T.scr.active /\ C.scr.count = n /\ C.win = B.win
       /\ Awake(C)
       /\ C.scr.active /\ n = 0 => C.srv.shape = Screen
  <2>1. Awake(B)
    BY <1>7, <1>9 DEF Awake, Good, Sound
  <2>2. CASE ~x.redirected /\ n < 1 /\ T.scr.active
    <3>1. C = DamageScreen(H)
      BY <2>2
    <3>2. Awake(H)
      BY <1>11, <2>1 DEF Awake
    <3> HIDE DEF C
    <3>3. QED
      BY <1>7, <1>9, <1>11, <1>12, <3>1, <3>2 DEF Damages
  <2>3. CASE ~(~x.redirected /\ n < 1 /\ T.scr.active)
    <3>1. C = B
      BY <2>3
    <3>2. T.scr.active /\ n = 0 => T.srv.shape = Screen
      BY <1>1, <2>3 DEF Good, Whole
    <3> HIDE DEF C, n
    <3>3. QED
      BY <1>7, <1>8, <1>9, <2>1, <3>1, <3>2
  <2>4. QED
    BY <2>2, <2>3
<1> HIDE DEF C
<1>14. R \in State /\ Kept(C, R)
  BY <1>13, ReleaseKept
<1>15. R.queue = C.queue /\ R.srv = C.srv
  BY <1>13 DEF Release, State
<1> HIDE DEF R
<1>16. D \in State /\ Damages(R, D) /\ Kept(R, D)
  BY <1>14, AddDamageDamages, DamagesKept DEF DamageOld
<1> HIDE DEF D
<1>17. y \in WindowState /\ ~y.known /\ ~y.viewable
  <2>1. D.win[w] \in WindowState
    BY <1>16 DEF State
  <2>2. QED
    BY <2>1 DEF WindowState
<1>18. [D EXCEPT !.win[w].known = FALSE, !.win[w].viewable = FALSE] = U
  BY <1>16 DEF State, WindowState
<1> HIDE DEF y
<1>19. U \in State
  BY <1>16, <1>17 DEF State
<1>20. /\ U.srv = D.srv /\ U.scr = D.scr /\ U.queue = D.queue /\ U.win[w] = y
       /\ \A v \in Window \ {w} : U.win[v] = D.win[v]
  BY <1>16 DEF State
<1> HIDE DEF U
<1>21. /\ U.queue = T.queue /\ U.srv.win = T.srv.win /\ U.scr.active = T.scr.active
       /\ U.scr.count = n /\ Awake(U)
       /\ U.scr.active /\ n = 0 => U.srv.shape = Screen
  <2>1. Awake(D)
    BY <1>13, <1>14, <1>16 DEF Kept
  <2> HIDE DEF n
  <2>2. Awake(U) /\ U.queue = D.queue /\ U.srv = D.srv
    BY <1>20, <2>1 DEF Awake
  <2>3. /\ D.srv = R.srv /\ D.queue = R.queue
        /\ U.scr.active = C.scr.active /\ U.scr.count = C.scr.count
    BY <1>14, <1>16, <1>20 DEF Kept, Damages
  <2>4. QED
    BY <1>13, <1>15, <2>2, <2>3
<1>22. \A v \in Window \ {w} : KeptWindow(T.win[v], U.win[v])
  <2>1. Kept(B, B) /\ \A v \in Window : KeptWindow(T.win[v], B.win[v])
    BY <1>7, <1>8, KeptSelf DEF Kept
  <2>2. \A v \in Window : KeptWindow(B.win[v], D.win[v])
    BY <1>13, <1>14, <1>16 DEF Kept, KeptWindow
  <2>3. QED
    BY <1>20, <2>1, <2>2 DEF KeptWindow
<1>23. CreatesOnce(U)
  <2>1. \A v \in Window : /\ U.win[v].known => T.win[v].known
                          /\ U.srv.win[v].exists = T.srv.win[v].exists
    BY <1>17, <1>20, <1>21, <1>22 DEF KeptWindow
  <2>2. QED
    BY <1>21, <2>1, FewerCreates DEF Good, Sound
<1>24. Overlays(U) = Overlays(T) \ {w}
  BY <1>17, <1>20, <1>22 DEF Overlays, KeptWindow
<1>25. Counted(U)
  <2>1. SUFFICES ASSUME T.scr.active PROVE n = Cardinality(Overlays(U))
    BY <1>17, <1>20, <1>21, <1>22 DEF Counted, KeptWindow, Good, Sound
  <2>2. IsFiniteSet(Overlays(T)) /\ T.scr.count = Cardinality(Overlays(T))
    BY <2>1, OverlaysFinite DEF Counted, Good, Sound
  <2>3. CASE x.redirected
    <3>1. w \notin Overlays(T)
      BY <2>1, <2>3 DEF Overlays, Counted, Good, Sound
    <3>2. Overlays(U) = Overlays(T)
      BY <1>24, <3>1
    <3>3. QED
      BY <2>2, <2>3, <3>2
  <2>4. CASE ~x.redirected
    <3>1. w \in Overlays(T)
      BY <2>1, <2>4 DEF Overlays, Counted, Good, Sound
    <3>2. QED
      BY <1>24, <2>2, <2>4, <3>1, FS_RemoveElement
  <2>5. QED
    BY <2>3, <2>4
<1>26. Holds(U)
  BY <1>17, <1>20, <1>22 DEF Holds, KeptWindow, Good, Sound
<1>27. Whole(U)
  BY <1>21 DEF Whole
<1>28. QED
  BY <1>2, <1>18, <1>19, <1>21, <1>23, <1>25, <1>26, <1>27 DEF Good, Sound

-----------------------------------------------------------------------------
(* Painting starts and ends.                                               *)

\* All windows are redirected: none is left to the server.
LEMMA RegisterGood ==
    ASSUME NEW T, Good(T)
    PROVE  Good(Register(T))
<1> DEFINE W == {w \in Window : T.srv.win[w].exists}
           A == [T EXCEPT !.scr.count = 0]
           U == OnAll(A, W, Redirected)
           f == [w \in Window |->
                    IF T.win[w].known
                    THEN [U.win[w] EXCEPT !.overlay = FALSE, !.redirected = TRUE]
                    ELSE U.win[w]]
           V == [U EXCEPT !.scr.active = TRUE, !.win = f]
           S == ShowOutputWindow(V)
           X == [S EXCEPT !.scr.late = FALSE]
<1>1. CASE T.scr.active
  BY <1>1 DEF Register
<1>2. CASE ~T.scr.active
  <2>1. Register(T) = X
    BY <1>2 DEF Register
  <2>15. 0 \in Int
    OBVIOUS
  <2>2. A \in State
    BY <2>15 DEF Good, Sound, State, ScreenState
  <2>3. /\ A.srv = T.srv /\ A.win = T.win /\ A.queue = T.queue
        /\ A.scr.active = T.scr.active /\ A.scr.count = 0
        /\ A.scr.mask = T.scr.mask /\ A.scr.late = T.scr.late
    BY DEF Good, Sound, State, ScreenState
  <2> HIDE DEF A
  <2>4. CreatesOnce(A) /\ Awake(A)
    BY <2>3, SameCreates DEF Awake, Good, Sound
  <2>5. U \in State /\ Kept(A, U)
    BY <2>2, AllRedirectedKept
  <2> HIDE DEF U
  <2>6. f \in [Window -> WindowState]
    <3>1. ASSUME NEW w \in Window PROVE f[w] \in WindowState
      <4> DEFINE x == U.win[w]
      <4>1. x \in WindowState
        BY <2>5 DEF State
      <4> HIDE DEF x
      <4>2. [x EXCEPT !.overlay = FALSE, !.redirected = TRUE] \in WindowState
        BY <4>1 DEF WindowState
      <4>3. QED
        BY <4>1, <4>2 DEF x
    <3>2. QED
      BY <3>1
  <2>7. \A w \in Window : /\ f[w].known = T.win[w].known
                          /\ f[w].viewable = T.win[w].viewable
                          /\ f[w].pix.bound => T.win[w].pix.bound \/ T.win[w].viewable
                          /\ f[w].tex.bound => T.win[w].tex.bound \/ T.win[w].viewable
                          /\ f[w].known => ~f[w].overlay /\ f[w].redirected
    <3>1. \A w \in Window : KeptWindow(T.win[w], U.win[w]) /\ U.win[w] \in WindowState
      BY <2>3, <2>5 DEF Kept, State
    <3>2. QED
      BY <3>1 DEF KeptWindow, WindowState
  <2> HIDE DEF f
  <2>8. V \in State
    BY <2>5, <2>6 DEF State, ScreenState
  <2>9. /\ V.srv = U.srv /\ V.win = f /\ V.queue = U.queue
        /\ V.scr.active /\ V.scr.count = U.scr.count
        /\ V.scr.mask = U.scr.mask /\ V.scr.late = U.scr.late
    BY <2>5, <2>6 DEF State, ScreenState
  <2> HIDE DEF V
  <2>10. V.scr.count = 0 /\ CreatesOnce(V) /\ Awake(V)
    <3>1. CreatesOnce(U) /\ Awake(U) /\ U.scr.count = 0
      BY <2>3, <2>4, <2>5 DEF Kept
    <3>2. \A w \in Window : /\ V.win[w].known = U.win[w].known
                            /\ V.srv.win[w].exists = U.srv.win[w].exists
      BY <2>3, <2>5, <2>7, <2>9 DEF Kept, KeptWindow
    <3>3. QED
      BY <2>9, <3>1, <3>2, SameCreates DEF Awake
  <2>11. Overlays(V) = {}
    BY <2>7, <2>9 DEF Overlays
  <2>12. Sound(V)
    <3>1. Counted(V)
      <4>1. \A w \in Window : V.win[w].known => V.win[w].overlay = FALSE /\ V.win[w].redirected = TRUE
        BY <2>7, <2>8, <2>9 DEF State, WindowState
      <4>2. QED
        BY <2>10, <2>11, <4>1, FS_EmptySet DEF Counted
    <3>2. Holds(V)
      BY <2>7, <2>9 DEF Holds, Good, Sound
    <3>3. QED
      BY <2>8, <2>10, <3>1, <3>2 DEF Sound
  <2>13. Good(S)
    BY <2>12, ShowOutputWindowGood
  <2> HIDE DEF S
  <2>14. Good(X)
    <3>1. X \in State
      BY <2>13 DEF Good, Sound, State, ScreenState
    <3>2. /\ X.srv = S.srv /\ X.win = S.win /\ X.queue = S.queue
          /\ X.scr.active = S.scr.active /\ X.scr.count = S.scr.count
          /\ X.scr.stack = S.scr.stack /\ ~X.scr.late
      BY <2>13 DEF Good, Sound, State, ScreenState
    <3> HIDE DEF X
    <3>3. QED
      BY <2>13, <3>1, <3>2, DamagesKept, KeptGood DEF Damages, Awake, Good, Sound
  <2>16. QED
    BY <2>1, <2>14
<1>3. QED
  BY <1>1, <1>2

\* Without compositing no window holds a pixmap or a texture.
LEMMA UnregisterGood ==
    ASSUME NEW T, Good(T)
    PROVE  Good(Unregister(T))
<1> DEFINE W == {w \in Window : T.srv.win[w].exists}
           U == OnAll(T, W, Unredirected)
           f == [w \in Window |->
                    IF T.win[w].known
                    THEN [U.win[w] EXCEPT !.overlay = FALSE, !.redirected = FALSE,
                                          !.pix = NoPix, !.tex = NoTex]
                    ELSE U.win[w]]
           V == [U EXCEPT !.scr.active = FALSE, !.scr.count = 0,
                          !.scr.bgTex = 0, !.scr.bgLoaded = FALSE, !.win = f]
<1>1. Unregister(T) = [V EXCEPT !.srv.shape = {}]
  BY DEF Unregister, HideOutputWindow
<1>2. U \in State /\ Kept(T, U)
  BY AllRedirectedKept DEF Good, Sound
<1> HIDE DEF U
<1>3. /\ NoPix \in Pixmap /\ ~NoPix.bound /\ NoTex \in TextureOf /\ ~NoTex.bound
      /\ 0 \in Int /\ 0 \in Version
  BY DEF NoPix, NoTex, Pixmap, TextureOf, Version
<1>4. \A w \in Window : KeptWindow(T.win[w], U.win[w]) /\ U.win[w] \in WindowState
  BY <1>2 DEF Kept, State
<1>5. f \in [Window -> WindowState]
  <2>1. ASSUME NEW w \in Window PROVE f[w] \in WindowState
    <3> DEFINE x == U.win[w]
               y == [x EXCEPT !.overlay = FALSE, !.redirected = FALSE,
                              !.pix = NoPix, !.tex = NoTex]
    <3>1. x \in WindowState
      BY <1>4
    <3>2. f[w] \in {x, y}
      OBVIOUS
    <3> HIDE DEF x
    <3>3. y \in WindowState
      BY <1>3, <3>1 DEF WindowState
    <3>4. QED
      BY <3>1, <3>2, <3>3
  <2>2. QED
    BY <2>1
<1>6. \A w \in Window : /\ f[w].known = T.win[w].known
                        /\ f[w].viewable = T.win[w].viewable
                        /\ f[w].known => ~f[w].pix.bound /\ ~f[w].tex.bound
  BY <1>3, <1>4 DEF KeptWindow, WindowState
<1> HIDE DEF f
<1>7. V \in State
  BY <1>2, <1>3, <1>5 DEF State, ScreenState
<1>8. /\ V.srv = U.srv /\ V.win = f /\ V.queue = U.queue /\ ~V.scr.active
      /\ V.scr.mask = U.scr.mask /\ V.scr.late = U.scr.late
  BY <1>2, <1>5 DEF State, ScreenState
<1> HIDE DEF V
<1>9. CreatesOnce(V) /\ Awake(V)
  <2>1. CreatesOnce(U) /\ Awake(U)
    BY <1>2 DEF Kept, Good, Sound
  <2>2. \A w \in Window : /\ V.win[w].known = U.win[w].known
                          /\ V.srv.win[w].exists = U.srv.win[w].exists
    BY <1>4, <1>6, <1>8 DEF KeptWindow
  <2>3. QED
    BY <1>8, <2>1, <2>2, SameCreates DEF Awake
<1>10. Sound(V)
  BY <1>6, <1>7, <1>8, <1>9 DEF Sound, Counted, Holds, Good
<1>11. /\ Sound([V EXCEPT !.srv.shape = {}]) /\ Same(V, [V EXCEPT !.srv.shape = {}])
  <2>1. {} \in SUBSET Cell
    OBVIOUS
  <2>2. QED
    BY <1>10, <2>1, ShapeSound
<1>12. QED
  BY <1>1, <1>8, <1>11 DEF Good, Whole, Same

-----------------------------------------------------------------------------
(* Clients.                                                                *)

\* Only the server and the queue change, and the queue is right.
LEMMA ServerGood ==
    ASSUME NEW T, Good(T), NEW U \in State, U.scr = T.scr, U.win = T.win,
           U.srv.shape = T.srv.shape, CreatesOnce(U)
    PROVE  Good(U)
<1>1. Overlays(U) = Overlays(T)
  BY DEF Overlays
<1>2. QED
  BY <1>1 DEF Good, Sound, Counted, Whole, Holds, Awake

\* An event at the end of the queue
LEMMA EmitSeq ==
    ASSUME NEW T \in State, NEW e \in Event
    PROVE  LET n == Len(T.queue)
               q == Emit(T, e).queue
           IN  /\ n \in Nat /\ DOMAIN T.queue = 1 .. n /\ DOMAIN q = 1 .. n + 1
               /\ q[n + 1] = e /\ \A i \in 1 .. n : q[i] = T.queue[i]
               /\ Emit(T, e) \in State /\ Emit(T, e).srv = T.srv
               /\ Emit(T, e).scr = T.scr /\ Emit(T, e).win = T.win
<1>1. T.queue \in Seq(Event)
  BY DEF State
<1>2. /\ Append(T.queue, e) \in Seq(Event)
      /\ Len(Append(T.queue, e)) = Len(T.queue) + 1
      /\ \A i \in 1..Len(T.queue) : Append(T.queue, e)[i] = T.queue[i]
      /\ Append(T.queue, e)[Len(T.queue) + 1] = e
  BY <1>1, AppendSeq
<1>3. /\ Emit(T, e).queue = Append(T.queue, e) /\ Emit(T, e).srv = T.srv
      /\ Emit(T, e).scr = T.scr /\ Emit(T, e).win = T.win /\ Emit(T, e) \in State
  BY <1>2 DEF Emit, State
<1>4. /\ Len(T.queue) \in Nat /\ DOMAIN T.queue = 1 .. Len(T.queue)
      /\ DOMAIN Append(T.queue, e) = 1 .. Len(T.queue) + 1
  BY <1>1, <1>2, LenProperties
<1>5. QED
  BY <1>2, <1>3, <1>4

\* A window the compositor no longer knows is created again.
LEMMA CreateGood ==
    ASSUME NEW T, Good(T), NEW w \in Window, ~T.srv.win[w].exists, ~T.win[w].known,
           <<"destroy", w>> \notin ToSet(T.queue),
           NEW U \in State, U.scr = T.scr, U.win = T.win, U.queue = T.queue,
           U.srv.shape = T.srv.shape, U.srv.win[w].exists,
           \A v \in Window \ {w} : U.srv.win[v].exists = T.srv.win[v].exists
    PROVE  Good(Emit(U, <<"create", w>>))
<1> DEFINE e == <<"create", w>>
           V == Emit(U, e)
           n == Len(U.queue)
<1>1. e \in Event /\ e[1] = "create" /\ e[2] = w
  BY EventOf DEF OfWindow
<1> HIDE DEF e
<1>2. /\ n \in Nat /\ DOMAIN U.queue = 1 .. n /\ DOMAIN V.queue = 1 .. n + 1
      /\ V.queue[n + 1] = e /\ \A i \in 1 .. n : V.queue[i] = U.queue[i]
      /\ V \in State /\ V.srv = U.srv /\ V.scr = U.scr /\ V.win = U.win
  BY <1>1, EmitSeq
<1> HIDE DEF V
<1>3. \A i \in 1 .. n : ~IsAt(U.queue, i, "destroy", w)
  <2>1. SUFFICES ASSUME NEW i \in 1 .. n, IsAt(U.queue, i, "destroy", w) PROVE FALSE
    OBVIOUS
  <2>2. U.queue[i] \in Event /\ U.queue[i][1] = "destroy" /\ U.queue[i][2] = w
    BY <1>2, <2>1, ElementOfSeq DEF IsAt, State
  <2>3. U.queue[i] = <<"destroy", w>>
    BY <2>2 DEF Event
  <2>4. QED
    BY <1>2, <2>3 DEF ToSet
<1>4. CreatesOnce(T) /\ \A i \in 1 .. n : ~IsAt(U.queue, i, "create", w)
  BY <1>2, <1>3 DEF CreatesOnce, Good, Sound
<1>5. \A i \in 1 .. n + 1, k \in {"create", "destroy"}, v \in Window :
          IsAt(V.queue, i, k, v) <=> \/ i \in 1 .. n /\ IsAt(U.queue, i, k, v)
                                     \/ i = n + 1 /\ k = "create" /\ v = w
  BY <1>1, <1>2 DEF IsAt
<1>6. CreatesOnce(V)
  <2>1. SUFFICES ASSUME NEW v \in Window, NEW i \in 1 .. n + 1, IsAt(V.queue, i, "create", v)
                 PROVE  /\ ~V.win[v].known
                        /\ \/ V.srv.win[v].exists
                           \/ \E j \in 1 .. n + 1 : IsAt(V.queue, j, "destroy", v)
                        /\ \A j \in 1 .. n + 1 : /\ IsAt(V.queue, j, "create", v) => j = i
                                                 /\ IsAt(V.queue, j, "destroy", v) => i < j
    BY <1>2 DEF CreatesOnce
  <2>2. CASE v = w
    <3>1. i = n + 1
      BY <1>4, <1>5, <2>1, <2>2
    <3>2. \A j \in 1 .. n + 1 : IsAt(V.queue, j, "create", v) => j = n + 1
      BY <1>4, <1>5, <2>2
    <3>3. \A j \in 1 .. n + 1 : ~IsAt(V.queue, j, "destroy", v)
      BY <1>3, <1>5, <2>2
    <3>4. QED
      BY <1>2, <2>2, <3>1, <3>2, <3>3
  <2>3. CASE v # w
    <3>1. \A j \in 1 .. n + 1, k \in {"create", "destroy"} :
              IsAt(V.queue, j, k, v) <=> j \in 1 .. n /\ IsAt(T.queue, j, k, v)
      BY <1>5, <2>3
    <3>2. i \in 1 .. n /\ IsAt(T.queue, i, "create", v)
      BY <2>1, <3>1
    <3>3. /\ ~T.win[v].known
          /\ T.srv.win[v].exists \/ \E j \in 1 .. n : IsAt(T.queue, j, "destroy", v)
          /\ \A j \in 1 .. n : /\ IsAt(T.queue, j, "create", v) => j = i
                               /\ IsAt(T.queue, j, "destroy", v) => i < j
      BY <1>2, <1>4, <3>2 DEF CreatesOnce
    <3>4. V.srv.win[v].exists = T.srv.win[v].exists /\ V.win[v].known = T.win[v].known
      BY <1>2, <2>3
    <3>5. QED
      BY <1>2, <3>1, <3>3, <3>4
  <2>4. QED
    BY <2>2, <2>3
<1>7. QED
  BY <1>2, <1>6, ServerGood DEF V, e

\* A window that is destroyed
LEMMA DestroyGood ==
    ASSUME NEW T, Good(T), NEW w \in Window,
           NEW U \in State, U.scr = T.scr, U.win = T.win, U.queue = T.queue,
           U.srv.shape = T.srv.shape,
           \A v \in Window \ {w} : U.srv.win[v].exists = T.srv.win[v].exists
    PROVE  Good(Emit(U, <<"destroy", w>>))
<1> DEFINE e == <<"destroy", w>>
           V == Emit(U, e)
           n == Len(U.queue)
<1>1. e \in Event /\ e[1] = "destroy" /\ e[2] = w
  BY EventOf DEF OfWindow
<1>2. /\ n \in Nat /\ DOMAIN U.queue = 1 .. n /\ DOMAIN V.queue = 1 .. n + 1
      /\ V.queue[n + 1] = e /\ \A i \in 1 .. n : V.queue[i] = U.queue[i]
      /\ V \in State /\ V.srv = U.srv /\ V.scr = U.scr /\ V.win = U.win
  BY <1>1, EmitSeq
<1> HIDE DEF V
<1>3. \A i \in 1 .. n + 1, k \in {"create", "destroy"}, v \in Window :
          IsAt(V.queue, i, k, v) <=> \/ i \in 1 .. n /\ IsAt(U.queue, i, k, v)
                                     \/ i = n + 1 /\ k = "destroy" /\ v = w
  BY <1>1, <1>2 DEF IsAt
<1>4. CreatesOnce(V)
  <2>1. SUFFICES ASSUME NEW v \in Window, NEW i \in 1 .. n + 1, IsAt(V.queue, i, "create", v)
                 PROVE  /\ ~V.win[v].known
                        /\ \/ V.srv.win[v].exists
                           \/ \E j \in 1 .. n + 1 : IsAt(V.queue, j, "destroy", v)
                        /\ \A j \in 1 .. n + 1 : /\ IsAt(V.queue, j, "create", v) => j = i
                                                 /\ IsAt(V.queue, j, "destroy", v) => i < j
    BY <1>2 DEF CreatesOnce
  <2>2. i \in 1 .. n /\ IsAt(T.queue, i, "create", v)
    BY <1>3, <2>1
  <2>3. /\ ~T.win[v].known
        /\ T.srv.win[v].exists \/ \E j \in 1 .. n : IsAt(T.queue, j, "destroy", v)
        /\ \A j \in 1 .. n : /\ IsAt(T.queue, j, "create", v) => j = i
                             /\ IsAt(T.queue, j, "destroy", v) => i < j
    BY <1>2, <2>2 DEF CreatesOnce, Good, Sound
  <2>4. \/ V.srv.win[v].exists
        \/ \E j \in 1 .. n + 1 : IsAt(V.queue, j, "destroy", v)
    <3>1. CASE v = w
      <4>1. n + 1 \in 1 .. n + 1 /\ IsAt(V.queue, n + 1, "destroy", v)
        BY <1>2, <1>3, <3>1
      <4>2. QED
        BY <4>1
    <3>2. CASE v # w
      <4>1. CASE T.srv.win[v].exists
        BY <1>2, <3>2, <4>1
      <4>2. CASE \E j \in 1 .. n : IsAt(T.queue, j, "destroy", v)
        <5>1. PICK j \in 1 .. n : IsAt(T.queue, j, "destroy", v)
          BY <4>2
        <5>2. j \in 1 .. n + 1 /\ IsAt(V.queue, j, "destroy", v)
          BY <1>2, <1>3, <5>1
        <5>3. QED
          BY <5>2
      <4>3. QED
        BY <2>3, <4>1, <4>2
    <3>3. QED
      BY <3>1, <3>2
  <2>5. \A j \in 1 .. n + 1 : /\ IsAt(V.queue, j, "create", v) => j = i
                              /\ IsAt(V.queue, j, "destroy", v) => i < j
    BY <1>2, <1>3, <2>2, <2>3
  <2>6. QED
    BY <1>2, <2>3, <2>4, <2>5
<1>5. QED
  BY <1>2, <1>4, ServerGood DEF V, e

-----------------------------------------------------------------------------
(* Events.                                                                 *)

\* The first event is taken from the queue.
LEMMA TailGood ==
    ASSUME NEW T, Good(T), T.queue # <<>>
    PROVE  LET U == [T EXCEPT !.queue = Tail(T.queue)]
           IN  /\ Good(U) /\ Same(T, U) /\ Head(T.queue) \in Event
               /\ \A w \in Window : Head(T.queue)[1] = "create" /\ Head(T.queue)[2] = w =>
                      /\ ~U.win[w].known
                      /\ \A i \in DOMAIN U.queue : ~IsAt(U.queue, i, "create", w)
<1> DEFINE U == [T EXCEPT !.queue = Tail(T.queue)]
           n == Len(T.queue)
<1>1. T \in State /\ T.queue \in Seq(Event)
  BY DEF Good, Sound, State
<1>2. /\ n \in Nat \ {0} /\ Head(T.queue) = T.queue[1] /\ Head(T.queue) \in Event
      /\ Tail(T.queue) \in Seq(Event) /\ Len(Tail(T.queue)) = n - 1
      /\ \A i \in 1 .. n - 1 : Tail(T.queue)[i] = T.queue[i + 1]
  BY <1>1, TailSeq
<1>3. DOMAIN T.queue = 1 .. n /\ DOMAIN Tail(T.queue) = 1 .. n - 1
  BY <1>1, <1>2, LenProperties
<1>4. /\ U \in State /\ U.srv = T.srv /\ U.scr = T.scr /\ U.win = T.win
      /\ U.queue = Tail(T.queue)
  BY <1>1, <1>2 DEF State
<1> HIDE DEF U, n
<1>5. \A i \in 1 .. n - 1 :
          /\ i + 1 \in 1 .. n
          /\ \A k, w : IsAt(U.queue, i, k, w) <=> IsAt(T.queue, i + 1, k, w)
  BY <1>2, <1>3, <1>4 DEF IsAt
<1>6. ASSUME NEW w \in Window, NEW i \in 1 .. n - 1, IsAt(U.queue, i, "create", w)
      PROVE  /\ ~U.win[w].known
             /\ U.srv.win[w].exists \/ \E j \in 1 .. n - 1 : IsAt(U.queue, j, "destroy", w)
             /\ \A j \in 1 .. n - 1 : /\ IsAt(U.queue, j, "create", w) => j = i
                                      /\ IsAt(U.queue, j, "destroy", w) => i < j
             /\ ~IsAt(T.queue, 1, "create", w)
  <2>1. i + 1 \in 1 .. n /\ IsAt(T.queue, i + 1, "create", w)
    BY <1>5, <1>6
  <2>2. /\ ~T.win[w].known
        /\ T.srv.win[w].exists \/ \E j \in 1 .. n : IsAt(T.queue, j, "destroy", w)
        /\ \A j \in 1 .. n : /\ IsAt(T.queue, j, "create", w) => j = i + 1
                             /\ IsAt(T.queue, j, "destroy", w) => i + 1 < j
    BY <1>3, <2>1 DEF CreatesOnce, Good, Sound
  <2>3. ASSUME NEW j \in 1 .. n, IsAt(T.queue, j, "destroy", w)
        PROVE  \E l \in 1 .. n - 1 : IsAt(U.queue, l, "destroy", w)
    <3>1. i + 1 < j
      BY <2>2, <2>3
    <3>2. j - 1 \in 1 .. n - 1 /\ j - 1 + 1 = j
      BY <1>2, <3>1
    <3>3. IsAt(U.queue, j - 1, "destroy", w)
      BY <1>5, <2>3, <3>2
    <3>4. QED
      BY <3>2, <3>3
  <2>4. \A j \in 1 .. n - 1 : /\ IsAt(U.queue, j, "create", w) => j = i
                              /\ IsAt(U.queue, j, "destroy", w) => i < j
    <3>1. SUFFICES ASSUME NEW j \in 1 .. n - 1
                   PROVE  /\ IsAt(U.queue, j, "create", w) => j = i
                          /\ IsAt(U.queue, j, "destroy", w) => i < j
      OBVIOUS
    <3>2. /\ j + 1 \in 1 .. n
          /\ IsAt(U.queue, j, "create", w) <=> IsAt(T.queue, j + 1, "create", w)
          /\ IsAt(U.queue, j, "destroy", w) <=> IsAt(T.queue, j + 1, "destroy", w)
      BY <1>5
    <3>3. /\ IsAt(T.queue, j + 1, "create", w) => j + 1 = i + 1
          /\ IsAt(T.queue, j + 1, "destroy", w) => i + 1 < j + 1
      BY <2>2, <3>2
    <3>4. QED
      BY <1>2, <3>2, <3>3
  <2>5. ~IsAt(T.queue, 1, "create", w)
    <3>1. 1 \in 1 .. n /\ 1 # i + 1
      BY <1>2
    <3>2. QED
      BY <2>2, <3>1
  <2>6. QED
    BY <1>4, <2>2, <2>3, <2>4, <2>5
<1>7. CreatesOnce(U)
  BY <1>3, <1>4, <1>6 DEF CreatesOnce
<1>8. Good(U)
  BY <1>4, <1>7, ServerGood
<1>9. Same(T, U)
  BY <1>4 DEF Same
<1>10. ASSUME NEW w \in Window, Head(T.queue)[1] = "create", Head(T.queue)[2] = w
       PROVE  /\ ~U.win[w].known
              /\ \A i \in DOMAIN U.queue : ~IsAt(U.queue, i, "create", w)
  <2>1. 1 \in DOMAIN T.queue /\ IsAt(T.queue, 1, "create", w)
    BY <1>2, <1>3, <1>10 DEF IsAt
  <2>2. ~T.win[w].known
    BY <2>1 DEF CreatesOnce, Good, Sound
  <2>3. QED
    BY <1>3, <1>4, <1>6, <2>1, <2>2
<1>11. QED
  BY <1>2, <1>8, <1>9, <1>10 DEF U

\* Every event is handled so that the invariant is kept.
LEMMA HandleGood ==
    ASSUME NEW T, Good(T), NEW e \in Event,
           Len(e) # 1 /\ e[1] # "create" => T.win[e[2]].known,
           \A w \in Window : e[1] = "create" /\ e[2] = w =>
               /\ ~T.win[w].known
               /\ \A i \in DOMAIN T.queue : ~IsAt(T.queue, i, "create", w)
    PROVE  Good(Handle(T, e))
<1>1. T \in State
  BY DEF Good, Sound
<1>2. CASE e = <<"background">>
  <2>1. Handle(T, e) = UpdateBackground(T)
    BY <1>2 DEF Handle
  <2>2. QED
    BY <1>1, <2>1, UpdateBackgroundKept, KeptGood
<1>3. CASE e = <<"expose">>
  <2>1. Handle(T, e) = DamageRegion(T, Screen)
    BY <1>3 DEF Handle, ExposeEvent
  <2>2. QED
    BY <1>1, <2>1, ScreenCells, DamageRegionDamages, DamagesKept, KeptGood
<1>4. ASSUME NEW w \in Window, NEW a \in SUBSET Cell, e = <<"configure", w, a>>
      PROVE  Good(Handle(T, e))
  <2>1. Handle(T, e) = Configured(T, w, a)
    BY <1>4 DEF Handle
  <2>2. QED
    BY <1>1, <2>1, ConfiguredKept, KeptGood
<1>5. ASSUME NEW k \in OfWindow, NEW w \in Window, e = <<k, w>>
      PROVE  Good(Handle(T, e))
  <2>1. e[1] = k /\ e[2] = w /\ Len(e) = 2
    BY <1>5
  <2>2. k # "create" => T.win[w].known
    BY <2>1
  <2>3. CASE k = "create"
    <3>1. Handle(T, e) = Created(T, w)
      BY <2>1, <2>3 DEF Handle
    <3>2. QED
      BY <2>1, <2>3, <3>1, CreatedGood
  <2>4. CASE k = "map"
    <3> DEFINE a == T.win[w].area
               U == [T EXCEPT !.win[w].syncArea = a]
    <3>1. Handle(T, e) = Mapped(U, w)
      BY <2>1, <2>4 DEF Handle
    <3>2. a \in SUBSET Cell
      BY <1>1 DEF State, WindowState
    <3> HIDE DEF a
    <3>3. U \in State /\ Kept(T, U)
      BY <1>1, <3>2, AreaKept
    <3> HIDE DEF U
    <3>4. Good(U) /\ U.win[w].known
      BY <2>2, <2>4, <3>3, KeptGood DEF Kept, KeptWindow
    <3>5. QED
      BY <3>1, <3>4, MappedGood
  <2>5. CASE k = "unmap"
    <3>1. Handle(T, e) = Unmapped(T, w)
      BY <2>1, <2>5 DEF Handle
    <3>2. QED
      BY <2>2, <2>5, <3>1, UnmappedGood
  <2>6. CASE k = "damage"
    <3>1. Handle(T, e) = ProcessDamage(T, w)
      BY <2>1, <2>6 DEF Handle
    <3>2. QED
      BY <1>1, <3>1, ProcessDamageKept, KeptGood
  <2>7. CASE k = "raise"
    <3>1. Handle(T, e) = Restacked(T, w)
      BY <2>1, <2>7 DEF Handle
    <3>2. QED
      BY <3>1, RestackedGood
  <2>8. CASE k = "opacity"
    <3>1. Handle(T, e) = OpacityChanged(T, w)
      BY <2>1, <2>8 DEF Handle
    <3>2. QED
      BY <1>1, <3>1, OpacityChangedKept, KeptGood
  <2>9. CASE k = "shape"
    <3>1. Handle(T, e) = Shaped(T, w)
      BY <2>1, <2>9 DEF Handle
    <3>2. QED
      BY <1>1, <3>1, ShapedKept, KeptGood
  <2>10. CASE k = "alarm"
    <3>1. Handle(T, e) = SyncAlarm(T, w)
      BY <2>1, <2>10 DEF Handle
    <3>2. QED
      BY <1>1, <3>1, SyncAlarmKept, KeptGood
  <2>11. CASE k = "destroy"
    <3> DEFINE x == T.win[w]
               y == [x EXCEPT !.destroyed = TRUE, !.mapNum = FALSE]
    <3>1. Handle(T, e) = [T EXCEPT !.win[w].destroyed = TRUE, !.win[w].mapNum = FALSE]
      BY <2>1, <2>11 DEF Handle
    <3>2. [T EXCEPT !.win[w].destroyed = TRUE, !.win[w].mapNum = FALSE] = [T EXCEPT !.win[w] = y]
      BY <1>1 DEF State, WindowState
    <3>3. x \in WindowState
      BY <1>1 DEF State
    <3>4. y \in WindowState /\ KeptWindow(x, y)
      BY <3>3 DEF WindowState, KeptWindow
    <3>5. QED
      BY <1>1, <3>1, <3>2, <3>4, WindowKept, KeptGood
  <2>12. QED
    BY <2>3, <2>4, <2>5, <2>6, <2>7, <2>8, <2>9, <2>10, <2>11 DEF OfWindow
<1>6. QED
  BY <1>2, <1>3, <1>4, <1>5 DEF Event

-----------------------------------------------------------------------------
(* The invariant.                                                          *)

LEMMA BecomeGood ==
    ASSUME NEW T, Good(T), Become(T)
    PROVE  Inv'
<1>1. T = [srv |-> T.srv, scr |-> T.scr, win |-> T.win, queue |-> T.queue]
  BY DEF Good, Sound, State
<1>2. Now' = T
  BY <1>1 DEF Now, Become
<1>3. QED
  BY <1>2 DEF Inv

\* What was kept from a good state is good.
LEMMA KeptBecomes ==
    ASSUME NEW T, Good(T), NEW U \in State, Kept(T, U), Become(U)
    PROVE  Inv'
BY KeptGood, BecomeGood

LEMMA InitGood ==
    ASSUME Init
    PROVE  Inv
<1> DEFINE S == [stack |-> <<First1>>, bg |-> 1, shape |-> Screen,
                 front |-> [c \in Cell |-> {}],
                 win |-> [w \in Window |->
                            [exists |-> w = First1, mapped |-> w = First1, area |-> Full,
                             opaque |-> TRUE, ver |-> 0, redirected |-> w = First1]]]
           C(u) == [unredirect |-> u, active |-> TRUE, mask |-> {"all"}, damage |-> {},
                    idle |-> TRUE, late |-> FALSE, count |-> 0, stack |-> <<First1>>,
                    bgTex |-> 0, bgLoaded |-> FALSE, back |-> [w \in Window |-> {}],
                    forgotten |-> {}, ended |-> FALSE]
           W == [w \in Window |->
                    [known |-> w = First1, destroyed |-> FALSE, viewable |-> w = First1,
                     mapNum |-> w = First1, area |-> Full, opaque |-> TRUE,
                     damaged |-> w = First1, redirected |-> w = First1,
                     overlay |-> FALSE, bindFailed |-> FALSE,
                     pix |-> NoPix, tex |-> NoTex, syncWait |-> FALSE,
                     syncArea |-> Full, nDamage |-> 0, dropped |-> FALSE]]
<1>1. srv = S /\ win = W /\ queue = <<>> /\ \E u \in BOOLEAN : scr = C(u)
  BY DEF Init
<1>2. PICK u \in BOOLEAN : scr = C(u)
  BY <1>1
<1>3. First1 \in Window /\ Full \in SUBSET Cell /\ Screen \in SUBSET Cell
  BY WindowAssumption, ShapeAssumption, ScreenCells DEF First1, Full
<1>4. /\ NoPix \in Pixmap /\ ~NoPix.bound /\ NoTex \in TextureOf /\ ~NoTex.bound
      /\ 0 \in Version /\ 1 \in Version /\ 0 \in Int
  BY DEF NoPix, NoTex, Pixmap, TextureOf, Version
<1>5. <<First1>> \in Seq(Window) /\ <<>> \in Seq(Event)
  BY <1>3, EmptySeq
<1>6. S \in Server
  BY <1>3, <1>4, <1>5 DEF Server, ServerWindow
<1>7. C(u) \in ScreenState
  BY <1>4, <1>5 DEF ScreenState
<1>8. W \in [Window -> WindowState]
  BY <1>3, <1>4 DEF WindowState
<1>9. Now \in State
  BY <1>1, <1>2, <1>5, <1>6, <1>7, <1>8 DEF Now, State
<1>10. /\ Now.win = W /\ Now.queue = <<>> /\ Now.scr.active /\ Now.scr.count = 0
       /\ Now.srv.shape = Screen /\ ~Now.scr.late
  BY <1>1, <1>2 DEF Now
<1>11. CreatesOnce(Now)
  <2>1. DOMAIN Now.queue = {}
    BY <1>10
  <2>2. QED
    BY <2>1 DEF CreatesOnce
<1>12. \A w \in Window : /\ Now.win[w].overlay = FALSE
                         /\ Now.win[w].known = (w = First1)
                         /\ Now.win[w].viewable = (w = First1)
                         /\ Now.win[w].redirected = (w = First1)
                         /\ Now.win[w].pix = NoPix /\ Now.win[w].tex = NoTex
  BY <1>10
<1>13. Overlays(Now) = {}
  BY <1>12 DEF Overlays
<1>14. Counted(Now) /\ Whole(Now)
  <2>1. \A w \in Window : Now.win[w].known => Now.win[w].redirected = TRUE
    BY <1>12
  <2>2. QED
    BY <1>10, <1>12, <1>13, <2>1, FS_EmptySet DEF Counted, Whole
<1>15. Holds(Now) /\ Awake(Now)
  BY <1>4, <1>10, <1>12 DEF Holds, Awake
<1>16. QED
  BY <1>9, <1>11, <1>14, <1>15 DEF Inv, Good, Sound

-----------------------------------------------------------------------------
(* Steps.                                                                  *)

\* The steps of clients
Asks(w) ==
    \/ \E a \in Shape : ClientCreate(w, a) \/ ClientMove(w, a)
    \/ ClientMap(w) \/ ClientUnmap(w) \/ ClientDraw(w) \/ ClientRaise(w)
    \/ ClientOpacity(w) \/ ClientShape(w) \/ ClientDestroy(w) \/ ClientAnswer(w)

\* A window of the server changes, and an event is reported.
LEMMA ReportKept ==
    ASSUME NEW T \in State, NEW w \in Window, NEW v \in ServerWindow,
           v.exists = T.srv.win[w].exists, NEW e \in Event, e[1] # "create",
           NEW U, U = [T EXCEPT !.srv.win[w] = v]
    PROVE  Emit(U, e) \in State /\ Kept(T, Emit(U, e))
<1>1. U \in State /\ Kept(T, U)
  BY ServerWindowKept
<1>2. Emit(U, e) \in State /\ Kept(U, Emit(U, e))
  BY <1>1, EmitKept
<1>3. QED
  BY <1>1, <1>2, KeptTwice

\* The server's windows are stacked in another order.
LEMMA ServerStackKept ==
    ASSUME NEW T \in State, NEW s \in Seq(Window)
    PROVE  /\ [T EXCEPT !.srv.stack = s] \in State
           /\ Kept(T, [T EXCEPT !.srv.stack = s])
<1> DEFINE U == [T EXCEPT !.srv.stack = s]
<1>1. U \in State
  BY DEF State, Server
<1>2. /\ U.scr = T.scr /\ U.win = T.win /\ U.queue = T.queue
      /\ U.srv.shape = T.srv.shape /\ U.srv.win = T.srv.win
  BY DEF State, Server
<1> HIDE DEF U
<1>3. CreatesOnce(T) => CreatesOnce(U)
  BY <1>2, SameCreates
<1>4. Kept(T, U)
  BY <1>2, <1>3 DEF Kept, KeptWindow, Awake
<1>5. QED
  BY <1>1, <1>4 DEF U

LEMMA ClientCreateGood ==
    ASSUME Inv, NEW w \in Window, NEW a \in Shape, ClientCreate(w, a)
    PROVE  Inv'
<1> DEFINE x == srv.win[w]
           y == [x EXCEPT !.exists = TRUE, !.area = a, !.opaque = TRUE,
                          !.redirected = scr.active]
           s == Append(srv.stack, w)
           U == [Now EXCEPT !.srv.stack = s, !.srv.win[w] = y]
<1>1. /\ Good(Now) /\ Now \in State /\ Now.srv = srv /\ Now.win = win
      /\ Now.scr = scr /\ Now.queue = queue
  BY DEF Inv, Good, Sound, Now
<1>2. /\ ~Now.srv.win[w].exists /\ ~Now.win[w].known
      /\ <<"destroy", w>> \notin ToSet(Now.queue)
      /\ Become(Emit(U, <<"create", w>>))
  BY <1>1 DEF ClientCreate, Op, Exists
<1> HIDE DEF Now
<1>3. x \in ServerWindow /\ srv.stack \in Seq(Window) /\ scr.active \in BOOLEAN
  BY <1>1 DEF State, Server, ScreenState
<1>4. a \in SUBSET Cell
  BY ShapeAssumption
<1>5. y \in ServerWindow /\ y.exists
  BY <1>3, <1>4 DEF ServerWindow
<1>6. s \in Seq(Window)
  BY <1>3, AppendSeq
<1> HIDE DEF y, s
<1>7. U \in State
  BY <1>1, <1>5, <1>6 DEF State, Server
<1>8. /\ U.scr = Now.scr /\ U.win = Now.win /\ U.queue = Now.queue
      /\ U.srv.shape = Now.srv.shape /\ U.srv.win[w].exists
      /\ \A v \in Window \ {w} : U.srv.win[v].exists = Now.srv.win[v].exists
  BY <1>1, <1>5 DEF State, Server
<1> HIDE DEF U
<1>9. Good(Emit(U, <<"create", w>>))
  BY <1>1, <1>2, <1>7, <1>8, CreateGood
<1>10. QED
  BY <1>2, <1>9, BecomeGood

LEMMA ClientDestroyGood ==
    ASSUME Inv, NEW w \in Window, ClientDestroy(w)
    PROVE  Inv'
<1> DEFINE F == Freeze(Now, w)
           T == IF srv.win[w].mapped THEN Emit(F, <<"unmap", w>>) ELSE Now
           s == RemoveFirst(T.srv.stack, w)
           y == [T.srv.win[w] EXCEPT !.exists = FALSE, !.mapped = FALSE]
           A == [T EXCEPT !.srv.stack = s]
           U == [A EXCEPT !.srv.win[w] = y]
<1>1. Good(Now) /\ Now \in State
  BY DEF Inv, Good, Sound
<1>2. Become(Emit([T EXCEPT !.srv.stack = RemoveFirst(@, w), !.srv.win[w].exists = FALSE,
                            !.srv.win[w].mapped = FALSE], <<"destroy", w>>))
  BY DEF ClientDestroy, Op
<1> HIDE DEF Now
<1>3. F \in State /\ Kept(Now, F)
  BY <1>1, FreezeKept
<1> HIDE DEF F
<1>4. Emit(F, <<"unmap", w>>) \in State /\ Kept(F, Emit(F, <<"unmap", w>>))
  BY <1>3, EmitKept, EventOf DEF OfWindow
<1>5. Good(T) /\ T \in State
  BY <1>1, <1>3, <1>4, KeptGood
<1> HIDE DEF T
<1>6. /\ T.srv.stack \in Seq(Window) /\ T.srv.win[w] \in ServerWindow
  BY <1>5 DEF State, Server
<1>7. s \in Seq(Window)
  BY <1>6, RemoveFirstSeq
<1>8. y \in ServerWindow
  BY <1>6 DEF ServerWindow
<1>9. [T EXCEPT !.srv.stack = s, !.srv.win[w].exists = FALSE, !.srv.win[w].mapped = FALSE]
         = [A EXCEPT !.srv.win[w].exists = FALSE, !.srv.win[w].mapped = FALSE]
  OBVIOUS
<1>10. A \in State /\ Kept(T, A)
  <2> HIDE DEF s
  <2>1. QED
    BY <1>5, <1>7, ServerStackKept
<1>11. /\ A.scr = T.scr /\ A.win = T.win /\ A.queue = T.queue
       /\ A.srv.shape = T.srv.shape /\ A.srv.win = T.srv.win
  BY <1>5 DEF State, Server
<1> HIDE DEF A
<1>17. [A EXCEPT !.srv.win[w].exists = FALSE, !.srv.win[w].mapped = FALSE]
          = [A EXCEPT !.srv.win[w] = [A.srv.win[w] EXCEPT !.exists = FALSE, !.mapped = FALSE]]
  <2>1. /\ DOMAIN A = {"srv", "scr", "win", "queue"} /\ A.srv.win \in [Window -> ServerWindow]
        /\ DOMAIN A.srv = {"stack", "bg", "shape", "front", "win"}
    BY <1>10 DEF State, Server
  <2>2. QED
    BY <2>1
<1>18. [A EXCEPT !.srv.win[w].exists = FALSE, !.srv.win[w].mapped = FALSE] = U
  BY <1>11, <1>17
<1>12. Become(Emit(U, <<"destroy", w>>))
  BY <1>2, <1>9, <1>18
<1> HIDE DEF y
<1>13. U \in State
  BY <1>8, <1>10 DEF State, Server
<1>14. /\ U.scr = A.scr /\ U.win = A.win /\ U.queue = A.queue
       /\ U.srv.shape = A.srv.shape
       /\ \A v \in Window \ {w} : U.srv.win[v] = A.srv.win[v]
  BY <1>10 DEF State, Server
<1> HIDE DEF U
<1>15. Good(Emit(U, <<"destroy", w>>))
  BY <1>5, <1>11, <1>13, <1>14, DestroyGood
<1>16. QED
  BY <1>12, <1>15, BecomeGood

LEMMA ClientsGood ==
    ASSUME Inv, NEW w \in Window, Asks(w)
    PROVE  Inv'
<1>1. /\ Good(Now) /\ Now \in State /\ Now.srv = srv /\ Now.win = win
      /\ Now.scr = scr /\ Now.queue = queue
  BY DEF Inv, Good, Sound, Now
<1> DEFINE x == Now.srv.win[w]
<1>2. x \in ServerWindow /\ Now.srv.stack \in Seq(Window)
  BY <1>1 DEF State, Server
<1>3. \A k \in OfWindow : <<k, w>> \in Event /\ <<k, w>>[1] = k
  BY EventOf
<1>4. ASSUME NEW a \in Shape, ClientCreate(w, a) PROVE Inv'
  BY <1>4, ClientCreateGood
<1>5. ASSUME NEW a \in Shape, ClientMove(w, a) PROVE Inv'
  <2> DEFINE y == [x EXCEPT !.area = a]
             A == [Now EXCEPT !.srv.win[w] = y]
             T == Emit(A, <<"configure", w, a>>)
             F == Freeze(T, w)
  <2>1. [Now EXCEPT !.srv.win[w].area = a] = A
    BY <1>1 DEF State, Server
  <2>2. Become(T) \/ Become(Drawn(F, w))
    BY <1>5, <2>1 DEF ClientMove, Op
  <2> HIDE DEF Now
  <2>3. a \in SUBSET Cell
    BY ShapeAssumption
  <2>4. y \in ServerWindow /\ y.exists = x.exists
    BY <1>2, <2>3 DEF ServerWindow
  <2>5. <<"configure", w, a>> \in Event /\ <<"configure", w, a>>[1] # "create"
    BY <2>3 DEF Event
  <2>6. T \in State /\ Kept(Now, T)
    BY <1>1, <2>4, <2>5, ReportKept
  <2> HIDE DEF T
  <2>7. F \in State /\ Kept(T, F)
    BY <2>6, FreezeKept
  <2> HIDE DEF F
  <2>8. Drawn(F, w) \in State /\ Kept(F, Drawn(F, w))
    BY <2>7, DrawnKept
  <2>9. QED
    BY <1>1, <2>2, <2>6, <2>7, <2>8, KeptGood, BecomeGood
<1>6. CASE ClientMap(w)
  <2> DEFINE y == [x EXCEPT !.mapped = TRUE]
             A == [Now EXCEPT !.srv.win[w] = y]
             T == Emit(A, <<"map", w>>)
  <2>1. [Now EXCEPT !.srv.win[w].mapped = TRUE] = A
    BY <1>1 DEF State, Server
  <2>2. Become(Drawn(T, w))
    BY <1>6, <2>1 DEF ClientMap, Op
  <2> HIDE DEF Now
  <2>3. y \in ServerWindow /\ y.exists = x.exists
    BY <1>2 DEF ServerWindow
  <2>4. T \in State /\ Kept(Now, T)
    BY <1>1, <1>3, <2>3, ReportKept DEF OfWindow
  <2> HIDE DEF T
  <2>5. Drawn(T, w) \in State /\ Kept(T, Drawn(T, w))
    BY <2>4, DrawnKept
  <2>6. QED
    BY <1>1, <2>2, <2>4, <2>5, KeptGood, BecomeGood
<1>7. CASE ClientUnmap(w)
  <2> DEFINE F == Freeze(Now, w)
             y == [F.srv.win[w] EXCEPT !.mapped = FALSE]
             A == [F EXCEPT !.srv.win[w] = y]
             T == Emit(A, <<"unmap", w>>)
  <2>1. F \in State /\ Kept(Now, F)
    BY <1>1, FreezeKept
  <2>2. Become(Emit([F EXCEPT !.srv.win[w].mapped = FALSE], <<"unmap", w>>))
    BY <1>7 DEF ClientUnmap, Op
  <2> HIDE DEF F, Now
  <2>3. [F EXCEPT !.srv.win[w].mapped = FALSE] = A
    BY <2>1 DEF State, Server
  <2>4. F.srv.win[w] \in ServerWindow
    BY <2>1 DEF State, Server
  <2>5. y \in ServerWindow /\ y.exists = F.srv.win[w].exists
    BY <2>4 DEF ServerWindow
  <2>6. T \in State /\ Kept(F, T)
    BY <1>3, <2>1, <2>5, ReportKept DEF OfWindow
  <2>7. Become(T)
    BY <2>2, <2>3
  <2> HIDE DEF T
  <2>8. QED
    BY <1>1, <2>1, <2>6, <2>7, KeptGood, BecomeGood
<1>8. CASE ClientDraw(w)
  <2>1. Become(Drawn(Now, w))
    BY <1>8 DEF ClientDraw, Op
  <2>2. QED
    BY <1>1, <2>1, DrawnKept, KeptBecomes
<1>9. CASE ClientRaise(w)
  <2> DEFINE s == Append(RemoveFirst(Now.srv.stack, w), w)
             A == [Now EXCEPT !.srv.stack = s]
             T == Emit(A, <<"raise", w>>)
  <2>1. Become(T)
    BY <1>9 DEF ClientRaise, Op
  <2>2. s \in Seq(Window)
    BY <1>2, RemoveFirstSeq, AppendSeq
  <2> HIDE DEF s, Now
  <2>3. A \in State /\ Kept(Now, A)
    BY <1>1, <2>2, ServerStackKept
  <2> HIDE DEF A
  <2>4. T \in State /\ Kept(A, T)
    BY <1>3, <2>3, EmitKept DEF OfWindow
  <2> HIDE DEF T
  <2>5. QED
    BY <1>1, <2>1, <2>3, <2>4, KeptGood, BecomeGood
<1>10. CASE ClientOpacity(w)
  <2> DEFINE o == ~x.opaque
             y == [x EXCEPT !.opaque = o]
             A == [Now EXCEPT !.srv.win[w] = y]
             T == Emit(A, <<"opacity", w>>)
  <2>1. [Now EXCEPT !.srv.win[w].opaque = ~@] = A
    BY <1>1 DEF State, Server
  <2>2. Become(T)
    BY <1>10, <2>1 DEF ClientOpacity, Op
  <2>3. o \in BOOLEAN
    OBVIOUS
  <2> HIDE DEF Now, o
  <2>4. y \in ServerWindow /\ y.exists = x.exists
    BY <1>2, <2>3 DEF ServerWindow
  <2>5. T \in State /\ Kept(Now, T)
    BY <1>1, <1>3, <2>4, ReportKept DEF OfWindow
  <2> HIDE DEF T
  <2>6. QED
    BY <1>1, <2>2, <2>5, KeptBecomes
<1>11. CASE ClientShape(w)
  <2> DEFINE T == Emit(Now, <<"shape", w>>)
  <2>1. Become(Drawn(T, w))
    BY <1>11 DEF ClientShape, Op
  <2>2. T \in State /\ Kept(Now, T)
    BY <1>1, <1>3, EmitKept DEF OfWindow
  <2> HIDE DEF T, Now
  <2>3. Drawn(T, w) \in State /\ Kept(T, Drawn(T, w))
    BY <2>2, DrawnKept
  <2>4. QED
    BY <1>1, <2>1, <2>2, <2>3, KeptGood, BecomeGood
<1>12. CASE ClientDestroy(w)
  BY <1>12, ClientDestroyGood
<1>13. CASE ClientAnswer(w)
  <2>1. Become(Emit(Now, <<"alarm", w>>))
    BY <1>13 DEF ClientAnswer
  <2>2. Emit(Now, <<"alarm", w>>) \in State /\ Kept(Now, Emit(Now, <<"alarm", w>>))
    BY <1>1, <1>3, EmitKept DEF OfWindow
  <2>3. QED
    BY <1>1, <2>1, <2>2, KeptBecomes
<1>14. QED
  BY <1>4, <1>5, <1>6, <1>7, <1>8, <1>9, <1>10, <1>11, <1>12, <1>13 DEF Asks

LEMMA HandleEventGood ==
    ASSUME Inv, HandleEvent
    PROVE  Inv'
<1> DEFINE T == [Now EXCEPT !.queue = Tail(Now.queue)]
           e == Head(Now.queue)
<1>1. Good(Now) /\ Now.queue = queue /\ Now.win = win
  BY DEF Inv, Now
<1>2. /\ Now.queue # <<>>
      /\ Become(IF Concerns(e) THEN Handle(T, e) ELSE T)
  BY <1>1 DEF HandleEvent
<1> HIDE DEF Now
<1>3. /\ Good(T) /\ Same(Now, T) /\ e \in Event
      /\ \A w \in Window : e[1] = "create" /\ e[2] = w =>
             /\ ~T.win[w].known
             /\ \A i \in DOMAIN T.queue : ~IsAt(T.queue, i, "create", w)
  BY <1>1, <1>2, TailGood
<1> HIDE DEF T, e
<1>4. ASSUME Concerns(e) PROVE Good(Handle(T, e))
  <2>1. Len(e) # 1 => e[2] \in Window
    BY <1>3 DEF Event
  <2>2. Len(e) # 1 /\ e[1] # "create" => T.win[e[2]].known
    BY <1>1, <1>3, <1>4, <2>1 DEF Concerns, Same
  <2>3. QED
    BY <1>3, <2>2, HandleGood
<1>5. CASE Concerns(e)
  BY <1>2, <1>4, <1>5, BecomeGood
<1>6. CASE ~Concerns(e)
  BY <1>2, <1>3, <1>6, BecomeGood
<1>7. QED
  BY <1>5, <1>6

\* The invariant is inductive.
LEMMA StepGood ==
    ASSUME Inv, [Next]_vars
    PROVE  Inv'
<1>1. /\ Good(Now) /\ Now \in State /\ Now.srv = srv /\ Now.win = win
      /\ Now.scr = scr /\ Now.queue = queue
  BY DEF Inv, Good, Sound, Now
<1>2. CASE UNCHANGED vars
  <2>1. Now' = Now
    BY <1>2 DEF vars, Now
  <2>2. QED
    BY <2>1 DEF Inv
<1>3. ASSUME NEW w \in Window, Asks(w) PROVE Inv'
  BY <1>3, ClientsGood
<1>4. ASSUME NEW w \in Window, RemoveDestroyed(w) PROVE Inv'
  <2>1. Now.win[w].known /\ Become(Removed(Now, w))
    BY <1>1, <1>4 DEF RemoveDestroyed
  <2>2. QED
    BY <1>1, <2>1, RemovedGood, BecomeGood
<1>5. ASSUME NEW w \in Window, SyncTimeout(w) PROVE Inv'
  <2>1. Become(SyncAlarm(Now, w))
    BY <1>5 DEF SyncTimeout
  <2>2. QED
    BY <1>1, <2>1, SyncAlarmKept, KeptBecomes
<1>6. CASE ChangeBackground
  <2> DEFINE b == (Now.srv.bg + 1) % 4
             A == [Now EXCEPT !.srv.bg = b]
             T == Emit(A, <<"background">>)
  <2>1. Become(T)
    BY <1>6 DEF ChangeBackground, Op
  <2>2. b \in Version
    BY <1>1 DEF State, Server, Version
  <2> HIDE DEF Now, b
  <2>3. A \in State
    BY <1>1, <2>2 DEF State, Server
  <2>4. /\ A.scr = Now.scr /\ A.win = Now.win /\ A.queue = Now.queue
        /\ A.srv.shape = Now.srv.shape /\ A.srv.win = Now.srv.win
    BY <1>1 DEF State, Server
  <2> HIDE DEF A
  <2>5. Good(A)
    <3>1. CreatesOnce(A)
      BY <1>1, <2>4, SameCreates DEF Good, Sound
    <3>2. QED
      BY <1>1, <2>3, <2>4, <3>1, ServerGood
  <2>6. <<"background">> \in Event /\ <<"background">>[1] # "create"
    BY DEF Event
  <2>7. T \in State /\ Kept(A, T)
    BY <2>3, <2>6, EmitKept
  <2> HIDE DEF T
  <2>8. QED
    BY <2>1, <2>5, <2>7, KeptBecomes
<1>7. CASE ChangeOutputs
  <2>1. Become(DamageScreen(Now))
    BY <1>7 DEF ChangeOutputs, OutputChange, Op
  <2>2. QED
    BY <1>1, <2>1, DamageScreenDamages, DamagesKept, KeptBecomes
<1>8. CASE ExposeRoot
  <2>1. Become(Emit(Now, <<"expose">>))
    BY <1>8 DEF ExposeRoot, Op
  <2>2. <<"expose">> \in Event /\ <<"expose">>[1] # "create"
    BY DEF Event
  <2>3. QED
    BY <1>1, <2>1, <2>2, EmitKept, KeptBecomes
<1>9. CASE PluginPending
  <2>1. Become(DamagePending(Now))
    BY <1>9 DEF PluginPending, Op
  <2>2. QED
    BY <1>1, <2>1, DamagePendingDamages, DamagesKept, KeptBecomes
<1>10. CASE PluginLoads
  <2>1. Become(Register(Now))
    BY <1>10 DEF PluginLoads, Op
  <2>2. QED
    BY <1>1, <2>1, RegisterGood, BecomeGood
<1>11. CASE PluginUnloads
  <2>1. Become(Unregister(Now))
    BY <1>11 DEF PluginUnloads, Op
  <2>2. QED
    BY <1>1, <2>1, UnregisterGood, BecomeGood
<1>12. CASE HandleEvent
  BY <1>12, HandleEventGood
<1>13. CASE PaintTimeout
  <2>1. Become(HandlePaintTimeout(Now))
    BY <1>13 DEF PaintTimeout
  <2>2. QED
    BY <1>1, <2>1, HandlePaintTimeoutGood, BecomeGood
<1>14. QED
  BY <1>2, <1>3, <1>4, <1>5, <1>6, <1>7, <1>8, <1>9, <1>10, <1>11, <1>12, <1>13 DEF Next, Asks

-----------------------------------------------------------------------------
(* The results.                                                            *)

\* The state of the server, the compositor and the events on their way is
\* of its type and the invariant holds, for any number of windows, outputs
\* and places: a window that is created is reported once, every window that
\* is known is redirected or counted as an overlay window, and what is not on
\* screen holds nothing (compositeScreen, compositeWindow).
THEOREM Invariant == Spec => []Inv
<1>1. Init => Inv
  BY InitGood
<1>2. Inv /\ [Next]_vars => Inv'
  BY StepGood
<1>3. QED
  BY <1>1, <1>2, PTL DEF Spec

\* Holes, pixmaps and the paint timer agree with the windows and the damage:
\* the count of overlay windows is their number and without one the output
\* window has no hole, a window that left the screen holds neither pixmap nor
\* texture, and damage does not wait for an idle screen's timer (redirect,
\* unredirect, unmapNotify, release, scheduleRepaint).
THEOREM ResourcesAgreeHolds == Spec => []ResourcesAgree
<1>1. Inv => ResourcesAgree
  <2>1. SUFFICES ASSUME Inv PROVE ResourcesAgree
    OBVIOUS
  <2>2. Good(Now) /\ Now.win = win /\ Now.scr = scr /\ Now.srv = srv
    BY <2>1 DEF Inv, Now
  <2>3. OverlaysCounted
    BY <2>2 DEF OverlaysCounted, Good, Sound, Counted, Whole
  <2>4. PixmapsReleased
    BY <2>2 DEF PixmapsReleased, Good, Sound, Holds
  <2>5. NoDamageAsleep
    BY <2>2 DEF NoDamageAsleep, Good, Sound, Awake
  <2>6. QED
    BY <2>3, <2>4, <2>5 DEF ResourcesAgree
<1>2. QED
  BY <1>1, Invariant, PTL

=============================================================================
