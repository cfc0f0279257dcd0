----------------------- MODULE WindowLifecycleHandlers -----------------------
(***************************************************************************)
(* What compiz does to one window in a handler keeps the inductive         *)
(* invariant of WindowLifecycleLemmas: a window is taken out of its frame, *)
(* destroyed, given back to the client that took it, made a CompWindow and *)
(* mapped.  The invariant holds when compiz has started.                   *)
(***************************************************************************)
EXTENDS WindowLifecycleLemmas

-----------------------------------------------------------------------------
(* Unmapping: a window that is withdrawn leaves its frame.                 *)

\* Taking a window out of its frame keeps the invariant: one that has left
\* meanwhile will be put back when compiz hears of it.
LEMMA UnreparentBetween ==
    ASSUME NEW S, NEW ask, Between(S, ask), NEW w \in Windows, S.win[w].stage = "window"
    PROVE  Between(Unreparent(S, w), ask)
<1> DEFINE r == [S.win[w] EXCEPT !.frame = FALSE]
           a == [S.srv[w] EXCEPT !.frameMapped = FALSE, !.parent = "root", !.selected = TRUE]
           T == Updated(S, w, r, a, S.crossed[w])
<1>1. Sound(S) /\ S \in States /\ S.win[w] \in Record /\ S.srv[w] \in Attributes
      /\ S.crossed[w] \in BOOLEAN /\ S.queue \in Seq(Events)
      /\ (S.srv[w].mapped => S.srv[w].exists)
  BY StateTypes DEF Between, Sound, MappedExist
<1>2. r \in Record
  BY <1>1, RecordChanges
<1>3. a \in Attributes
  BY <1>1, AttributeChanges
<1>4. /\ r.stage = S.win[w].stage /\ r.frame = FALSE /\ r.desktop = S.win[w].desktop
      /\ r.pendingUnmaps = S.win[w].pendingUnmaps /\ r.showDesktop = S.win[w].showDesktop
  BY <1>1 DEF Record
<1>5. a.parent = "root" /\ a.exists = S.srv[w].exists /\ a.mapped = S.srv[w].mapped
  BY <1>1 DEF Attributes
<1>6. CASE ~S.win[w].frame
  BY <1>6 DEF Unreparent
<1>7. CASE S.win[w].frame
  <2>1. Unreparent(S, w) = T
    <3>1. [S.srv[w] EXCEPT !.frameMapped = FALSE, !.parent = "root",
                           !.selected = S.srv[w].selected \/ TRUE] = a
      OBVIOUS
    <3>2. Unreparent(S, w) =
              [S EXCEPT !.win[w].frame = FALSE,
                        !.srv[w] = [S.srv[w] EXCEPT !.frameMapped = FALSE, !.parent = "root",
                                        !.selected = S.srv[w].selected \/ TRUE]]
      BY <1>1, <1>7 DEF Unreparent, States
    <3>3. Unreparent(S, w) = [S EXCEPT !.win[w].frame = FALSE, !.srv[w] = a]
      <4> HIDE DEF a
      <4>1. QED
        BY <3>1, <3>2
    <3>4. QED
      <4> HIDE DEF a
      <4>1. T = [S EXCEPT !.win[w].frame = FALSE, !.srv[w] = a]
        BY <1>1 DEF States, Updated
      <4>2. QED
        BY <3>3, <4>1
  <2> HIDE DEF r, a
  <2>2. (a.mapped => a.exists) /\ T = Updated(S, w, r, a, S.crossed[w])
    BY <1>1, <1>5
  <2> HIDE DEF T
  <2>3. /\ Sound(T) /\ T.win[w] = r /\ T.srv[w] = a /\ T.crossed[w] = S.crossed[w]
        /\ T.queue = S.queue /\ T.current = S.current /\ T.number = S.number /\ T.mask = S.mask
        /\ \A x \in Windows \ {w} :
               T.win[x] = S.win[x] /\ T.srv[x] = S.srv[x] /\ T.crossed[x] = S.crossed[x]
    BY SMTT(30), <1>1, <1>2, <1>3, <2>2, UpdatedSound
  <2>4. \A x \in Windows \ {w} : WindowInv(T, x, ask[x])
    <3>1. \A x \in Windows \ {w} : SameBooks(S, T, x)
      BY <2>3 DEF SameBooks
    <3>2. QED
      BY <3>1, SameInv DEF Between
  <2>5. WindowInv(S, w, ask[w])
    BY DEF Between
  <2>6. ~\E i \in 1..Len(S.queue) : Is(S.queue[i], "CreateNotify", w)
    BY <2>5 DEF WindowInv, Uncounted, CreatedFirst
  <2>7. ~S.crossed[w] => \A i \in 1..Len(S.queue) : ~Returns(S.queue[i], w)
    BY <2>5 DEF WindowInv, Uncounted, ReturnsFirst
  <2>8. T.win[w].stage = "window" /\ T.win[w].frame = FALSE
    BY <1>4, <2>3
  <2>9. Counted(T, w) /\ Ordered(T, w) /\ CreatedFirst(T, w)
    <3>1. Counted(T, w)
      BY <1>4, <2>3, <2>5 DEF WindowInv, Uncounted, Counted
    <3>2. Ordered(T, w)
      BY <1>4, <2>3, <2>5 DEF WindowInv, Uncounted, Ordered
    <3>3. CreatedFirst(T, w)
      BY <2>3, <2>6 DEF CreatedFirst
    <3>4. QED
      BY <3>1, <3>2, <3>3
  <2>10. Comes(T, w) /\ ReturnsFirst(T, w)
    BY <2>3, <2>6, <2>7, <2>8 DEF Comes, Coming, ReturnsFirst
  <2>11. LeavesFirst(T, w)
    BY <1>5, <2>3, <2>5 DEF LeavesFirst, WindowInv, Uncounted
  <2>12. Framed(T, w)
    BY <1>5, <2>3, <2>8 DEF Framed
  <2>13. Gone(T, w)
    BY <1>5, <2>3, <2>5 DEF WindowInv, Uncounted, Gone
  <2>14. LeftOrGivenBack(T, w, ask[w])
    BY <1>5, <1>7, <2>3, <2>5, <2>8 DEF WindowInv, Uncounted, LeavesFirst, LeftOrGivenBack
  <2>15. WindowInv(T, w, ask[w])
    BY <2>9, <2>10, <2>11, <2>12, <2>13, <2>14 DEF WindowInv, Uncounted
  <2>16. Placed(T) /\ ModeCovers(T)
    BY <1>4, <2>3 DEF Between, Placed, ModeCovers
  <2>17. QED
    BY <2>1, <2>3, <2>4, <2>15, <2>16 DEF Between
<1>8. QED
  BY <1>6, <1>7

\* The stage of a window that leaves its frame
LEMMA UnreparentStage ==
    ASSUME NEW S, Sound(S), NEW w \in Windows, S.win[w].stage = "window"
    PROVE  Unreparent(S, w).win[w].stage = "window"
<1>1. S \in States /\ S.win[w] \in Record
  BY StateTypes DEF Sound
<1>2. QED
  BY <1>1 DEF Unreparent, States, Record

\* CompWindow::unmap keeps the invariant.
LEMMA UnmapBetween ==
    ASSUME NEW S, NEW ask, Between(S, ask), NEW w \in Windows, S.win[w].stage = "window"
    PROVE  Between(Unmap(S, w), ask)
<1> DEFINE T == IF S.win[w].unmanaging THEN Unreparent(S, w) ELSE S
           e == T.win[w].rolled \/ (S.win[w].viewable /\ S.win[w].shaded)
           r == [T.win[w] EXCEPT !.unmanaging = FALSE, !.viewable = FALSE, !.rolled = e]
           U == [T EXCEPT !.win[w] = r]
<1>1. Between(T, ask)
  BY UnreparentBetween
<1>2. Unmap(S, w) = U
  BY DEF Unmap
<1>3. Sound(T)
  BY <1>1 DEF Between
<1> HIDE DEF T
<1>4. T.win[w] \in Record
  BY <1>3, StateTypes DEF Sound
<1>5. e \in BOOLEAN
  BY <1>4 DEF Record
<1> HIDE DEF e
<1>6. r \in Record
  BY <1>4, <1>5, RecordChanges
<1>7. FlagsOf(r, T.win[w])
  BY <1>4 DEF FlagsOf, Record
<1> HIDE DEF r
<1>8. FlagsOnly(T, U)
  BY <1>3, <1>6, <1>7, RecordFollows
<1> HIDE DEF U
<1>9. QED
  BY <1>1, <1>2, <1>8, FlagsBetween

\* The flags of a window do not say what it is.
LEMMA FlagsStage ==
    ASSUME NEW S, NEW T, FlagsOnly(S, T), NEW w \in Windows
    PROVE  T.win[w].stage = S.win[w].stage
BY DEF FlagsOnly, SameWindow

\* An unmap that is not of compiz is the client's.
LEMMA UnmapsOfTwo ==
    ASSUME NEW e \in Events, NEW w, e.type \in {"UnmapNotify", "SyntheticUnmap"}, e.win = w
    PROVE  /\ WmUnmap(e, w) \/ ClientUnmap(e, w)
           /\ ~Leaves(e, w) /\ ~Returns(e, w)
BY DEF Events, WindowEvents, WmUnmap, ClientUnmap, Leaves, Returns

\* What the queue holds when its first event is an unmap: unless requests have
\* crossed, it is of compiz exactly when pendingUnmaps is positive.
LEMMA FirstUnmap ==
    ASSUME NEW S, Sound(S), S.queue # <<>>, NEW w \in Windows, NEW ask,
           WindowInv(S, w, ask), S.win[w].stage = "window", ~S.crossed[w],
           S.queue[1].type \in {"UnmapNotify", "SyntheticUnmap"}, S.queue[1].win = w
    PROVE  /\ WmUnmap(S.queue[1], w) <=> S.win[w].pendingUnmaps > 0
           /\ S.win[w].pendingUnmaps = IF WmUnmap(S.queue[1], w)
                                       THEN Count(Pop(S).queue, w) + 1
                                       ELSE Count(Pop(S).queue, w)
<1> DEFINE q == S.queue
<1>1. q \in Seq(Events) /\ Pop(S).queue = Tail(q) /\ Tail(q) \in Seq(Events)
  <2>1. q \in Seq(Events)
    BY DEF Sound, States
  <2>2. Pop(S).queue = Tail(q)
    BY PopFacts
  <2>3. QED
    BY <2>1, <2>2
<1>2. S.win[w].pendingUnmaps = Count(q, w)
  BY DEF WindowInv, Counted
<1>3. Count(q, w) = IF WmUnmap(q[1], w) THEN Count(Tail(q), w) + 1 ELSE Count(Tail(q), w)
  BY <1>1, CountTail
<1>4. Count(q, w) \in Nat /\ Count(Tail(q), w) \in Nat
  BY <1>1, CountType
<1>5. ASSUME ~WmUnmap(q[1], w) PROVE Count(q, w) = 0
  <2>1. PICK n \in Nat : n = Len(q) /\ n > 0
    BY <1>1
  <2>2. q[1] \in Events
    BY <1>1, <2>1
  <2>3. ClientUnmap(q[1], w)
    BY <1>5, <2>2, UnmapsOfTwo
  <2>4. \A j \in 1..n : ~WmUnmap(q[j], w)
    <3>1. SUFFICES ASSUME NEW j \in 1..n, j # 1 PROVE ~WmUnmap(q[j], w)
      BY <1>5
    <3>2. 1 \in 1..n /\ 1 < j
      BY <2>1, <3>1
    <3>3. QED
      BY <2>1, <2>3, <3>1, <3>2 DEF WindowInv, Uncounted, Ordered
  <2>5. Unmaps(q, w) = {}
    BY <2>1, <2>4 DEF Unmaps
  <2>6. QED
    BY <2>5, FS_EmptySet DEF Count
<1> HIDE DEF q
<1>6. WmUnmap(q[1], w) <=> S.win[w].pendingUnmaps > 0
  BY <1>2, <1>3, <1>4, <1>5
<1>7. QED
  BY <1>1, <1>2, <1>3, <1>6 DEF q

\* One unmap of compiz is counted down.
LEMMA CountDown ==
    ASSUME NEW S, NEW ask, Between(S, ask), S.queue # <<>>,
           NEW w \in Windows, S.win[w].stage = "window", S.win[w].pendingUnmaps > 0,
           S.queue[1].type \in {"UnmapNotify", "SyntheticUnmap"}, S.queue[1].win = w
    PROVE  LET D == [Pop(S) EXCEPT !.win[w].pendingUnmaps = @ - 1]
           IN  Between(D, ask) /\ D.win[w].stage = "window"
<1> DEFINE P == Pop(S)
           k == P.win[w].pendingUnmaps - 1
           r == [P.win[w] EXCEPT !.pendingUnmaps = k]
           D == Updated(P, w, r, P.srv[w], P.crossed[w])
<1>1. Sound(S) /\ WindowInv(S, w, ask[w])
  BY DEF Between
<1>2. /\ P.win = S.win /\ P.srv = S.srv /\ P.crossed = S.crossed /\ P.number = S.number
      /\ P.current = S.current /\ P.queue = Tail(S.queue) /\ P.mask = S.mask
      /\ Sound(P) /\ P \in States
  BY <1>1, PopFacts
<1>3. /\ Placed(P) /\ ModeCovers(P) /\ \A x \in Windows \ {w} : WindowInv(P, x, ask[x])
  BY PopOther
<1>4. Uncounted(P, w, ask[w])
  <2>1. S.queue[1] \in Events
    BY <1>1 DEF Sound, States
  <2>2. ~Leaves(S.queue[1], w)
    BY <2>1, UnmapsOfTwo
  <2>3. QED
    BY <1>1, <2>2, PopInv
<1>5. ~S.crossed[w] => S.win[w].pendingUnmaps = Count(P.queue, w) + 1
  BY <1>1, FirstUnmap
<1>6. S.win[w].pendingUnmaps \in Nat /\ Count(P.queue, w) \in Nat
  <2>1. P.queue \in Seq(Events) /\ S.win[w] \in Record
    BY <1>2, StateTypes
  <2>2. QED
    BY <2>1, RecordTypes, CountType
<1> HIDE DEF P
<1>7. P.win[w] \in Record /\ P.srv[w] \in Attributes /\ P.crossed[w] \in BOOLEAN
      /\ P.win \in [Windows -> Record] /\ P.srv \in [Windows -> Attributes]
      /\ P.crossed \in [Windows -> BOOLEAN]
      /\ (P.srv[w].mapped => P.srv[w].exists)
  BY <1>2, StateTypes DEF Sound, MappedExist
<1>8. r \in Record
  <2>1. k \in Nat
    BY <1>2, <1>6
  <2> HIDE DEF k
  <2>2. QED
    BY <1>7, <2>1, RecordChanges
<1>9. /\ r.stage = P.win[w].stage /\ r.frame = P.win[w].frame /\ r.desktop = P.win[w].desktop
      /\ r.pendingUnmaps = k /\ r.showDesktop = P.win[w].showDesktop
  BY <1>7 DEF Record
<1>10. [P EXCEPT !.win[w].pendingUnmaps = @ - 1] = D
  BY <1>2, <1>7 DEF Updated, States
<1> HIDE DEF r
<1>11. D = Updated(P, w, r, P.srv[w], P.crossed[w])
  OBVIOUS
<1> HIDE DEF D
<1>12. /\ Sound(D) /\ D.win[w] = r /\ D.srv[w] = P.srv[w] /\ D.crossed[w] = P.crossed[w]
       /\ D.queue = P.queue /\ D.current = P.current /\ D.number = P.number /\ D.mask = P.mask
       /\ \A x \in Windows \ {w} :
              D.win[x] = P.win[x] /\ D.srv[x] = P.srv[x] /\ D.crossed[x] = P.crossed[x]
  <2>1. Sound(P) /\ P.srv[w] \in Attributes /\ P.crossed[w] \in BOOLEAN
    BY <1>2, <1>7
  <2>2. P.srv[w].mapped => P.srv[w].exists
    BY <1>7
  <2>3. QED
    BY <1>8, <1>11, <2>1, <2>2, UpdatedSound
<1>13. \A x \in Windows \ {w} : WindowInv(D, x, ask[x])
  <2>1. \A x \in Windows \ {w} : SameBooks(P, D, x)
    BY <1>12 DEF SameBooks
  <2>2. QED
    BY <1>3, <2>1, SameInv
<1>14. Uncounted(D, w, ask[w])
  BY <1>4, <1>9, <1>12, SameUncounted
<1>15. Counted(D, w)
  <2>1. ~S.crossed[w] => k = Count(P.queue, w)
    BY <1>2, <1>5, <1>6
  <2> HIDE DEF k
  <2>2. QED
    BY <1>2, <1>9, <1>12, <2>1 DEF Counted
<1>16. Placed(D) /\ ModeCovers(D)
  BY <1>3, <1>9, <1>12 DEF Placed, ModeCovers
<1>17. Between(D, ask)
  BY <1>12, <1>13, <1>14, <1>15, <1>16 DEF Between, WindowInv
<1>18. QED
  BY <1>2, <1>9, <1>10, <1>12, <1>17 DEF P

\* Both kinds of unmap events keep the invariant.
LEMMA UnmapNotifiedBetween ==
    ASSUME NEW S, NEW ask, Between(S, ask), S.queue # <<>>,
           NEW w \in Windows, S.win[w].stage = "window", NEW synthetic \in BOOLEAN,
           S.queue[1].type \in {"UnmapNotify", "SyntheticUnmap"}, S.queue[1].win = w
    PROVE  Between(UnmapNotified(Pop(S), w, synthetic), ask)
<1> DEFINE P == Pop(S)
           D == [P EXCEPT !.win[w].pendingUnmaps = @ - 1]
           U == SetWmState(D, w, "Iconic")
           V == Withdrawn(P, w, synthetic)
           T == IF P.win[w].pendingUnmaps > 0 THEN U ELSE V
<1>1. Sound(S) /\ P.win = S.win /\ Sound(P) /\ S.win[w].pendingUnmaps \in Nat
  <2>1. Sound(S) /\ P.win = S.win /\ Sound(P)
    BY PopFacts DEF Between
  <2>2. QED
    BY <2>1, StateTypes, RecordTypes DEF Sound
<1>2. CASE P.win[w].pendingUnmaps > 0
  <2>1. Between(D, ask) /\ D.win[w].stage = "window"
    BY <1>1, <1>2, CountDown
  <2> HIDE DEF D
  <2>2. FlagsOnly(D, U)
    BY <2>1, WmStateFollows DEF Between
  <2>3. Between(U, ask) /\ U.win[w].stage = "window"
    BY <2>1, <2>2, FlagsBetween, FlagsStage
  <2>4. QED
    BY <1>2, <2>3, UnmapBetween DEF UnmapNotified, D
<1>3. CASE ~(P.win[w].pendingUnmaps > 0)
  <2>1. WindowInv(P, w, ask[w])
    <3>1. WindowInv(S, w, ask[w])
      BY DEF Between
    <3>2. S.queue[1] \in Events
      BY <1>1 DEF Sound, States
    <3>3. ~Leaves(S.queue[1], w)
      BY <3>2, UnmapsOfTwo
    <3>4. ~S.crossed[w] => ~WmUnmap(S.queue[1], w)
      BY <1>1, <1>3, <3>1, FirstUnmap
    <3>5. QED
      BY <1>1, <3>1, <3>3, <3>4, PopInv
  <2>2. Between(P, ask)
    BY <2>1, PopOther DEF Between
  <2>3. FlagsOnly(P, V)
    BY <1>1, WithdrawnFlags
  <2>4. Between(V, ask) /\ V.win[w].stage = "window"
    BY <1>1, <2>2, <2>3, FlagsBetween, FlagsStage
  <2>5. QED
    BY <1>3, <2>4, UnmapBetween DEF UnmapNotified
<1>4. QED
  BY <1>2, <1>3

-----------------------------------------------------------------------------
(* What a handler or a request does to one window leaves the others alone. *)

\* All of the invariant but for the window w
Rest(S, ask, w) ==
    /\ Sound(S) /\ Placed(S) /\ ModeCovers(S)
    /\ \A x \in Windows \ {w} : WindowInv(S, x, ask[x])

\* What lacks is the invariant of w.
LEMMA RestBetween ==
    ASSUME NEW S, NEW ask, NEW w \in Windows
    PROVE  Between(S, ask) <=> Rest(S, ask, w) /\ WindowInv(S, w, ask[w])
BY DEF Between, Rest

\* Only the window is changed.
LEMMA UpdatedRest ==
    ASSUME NEW S, NEW ask, NEW w \in Windows, Rest(S, ask, w),
           NEW r \in Record, NEW a \in Attributes, NEW c \in BOOLEAN,
           a.mapped => a.exists,
           r.stage = "window" => /\ r.desktop < S.number \/ r.desktop = AllDesktops
                                 /\ r.showDesktop => S.mask,
           NEW T, T = Updated(S, w, r, a, c)
    PROVE  /\ Rest(T, ask, w) /\ Sound(T) /\ T.win[w] = r /\ T.srv[w] = a /\ T.crossed[w] = c
           /\ T.queue = S.queue /\ T.current = S.current
           /\ T.number = S.number /\ T.mask = S.mask
<1>1. Sound(S)
  BY DEF Rest
<1>2. /\ Sound(T) /\ T.win[w] = r /\ T.srv[w] = a /\ T.crossed[w] = c
      /\ T.queue = S.queue /\ T.current = S.current /\ T.number = S.number /\ T.mask = S.mask
      /\ \A x \in Windows \ {w} :
             T.win[x] = S.win[x] /\ T.srv[x] = S.srv[x] /\ T.crossed[x] = S.crossed[x]
  BY <1>1, UpdatedSound
<1>3. \A x \in Windows \ {w} : SameBooks(S, T, x)
  BY <1>2 DEF SameBooks
<1>4. \A x \in Windows \ {w} : WindowInv(T, x, ask[x])
  BY <1>3, SameInv DEF Rest
<1>5. Placed(T)
  BY <1>2 DEF Rest, Placed
<1>6. ModeCovers(T)
  BY <1>2 DEF Rest, ModeCovers
<1>7. QED
  BY <1>2, <1>4, <1>5, <1>6 DEF Rest

\* An event about w joins the queue.
LEMMA SendRest ==
    ASSUME NEW S, NEW ask, NEW w \in Windows, Rest(S, ask, w), NEW e \in Events, e.win = w
    PROVE  Rest(Send(S, e), ask, w)
<1> DEFINE T == Send(S, e)
<1>1. /\ T \in States /\ T.win = S.win /\ T.srv = S.srv /\ T.crossed = S.crossed
      /\ T.current = S.current /\ T.number = S.number /\ T.mask = S.mask
  BY SendFacts DEF Rest, Sound
<1>2. Sound(T) /\ Placed(T) /\ ModeCovers(T)
  <2> HIDE DEF T
  <2>1. QED
    BY <1>1 DEF Rest, Sound, MappedExist, Placed, ModeCovers
<1>3. ASSUME NEW x \in Windows \ {w} PROVE WindowInv(T, x, ask[x])
  <2>1. Neutral(S, e, x)
    BY DEF Neutral, WmUnmap, Leaves, Returns, Is
  <2>2. Sound(S) /\ WindowInv(S, x, ask[x])
    BY DEF Rest
  <2>3. QED
    BY <2>1, <2>2, SendInv
<1>4. QED
  BY <1>2, <1>3 DEF Rest

\* Other requests of other clients do not matter.
LEMMA AskedRest ==
    ASSUME NEW S, NEW ask, NEW new, NEW w \in Windows, Rest(S, ask, w),
           \A x \in Windows \ {w} : new[x] = ask[x]
    PROVE  Rest(S, new, w)
BY DEF Rest

\* The next event is about w.
LEMMA PopRest ==
    ASSUME NEW S, NEW ask, NEW w \in Windows, Between(S, ask), S.queue # <<>>,
           S.queue[1].win = w
    PROVE  Rest(Pop(S), ask, w)
BY PopOther DEF Rest

-----------------------------------------------------------------------------
(* Windows that are destroyed for compiz, whether they are or not.         *)

\* compiz has no CompWindow any more, and nothing makes one unless the window
\* comes back.
Dead(S, w) ==
    /\ S.win[w].stage = "destroyed"
    /\ S.srv[w].exists => S.srv[w].parent # "wrapper"
    /\ Gone(S, w)
    /\ \A i \in 1..Len(S.queue) :
           ~Is(S.queue[i], "CreateNotify", w) /\ (~S.crossed[w] => ~Returns(S.queue[i], w))

\* It is left to know where the window is.
LEMMA DeadInv ==
    ASSUME NEW S, NEW w, NEW ask, Dead(S, w), LeftOrGivenBack(S, w, ask)
    PROVE  WindowInv(S, w, ask)
<1>1. Counted(S, w) /\ Ordered(S, w) /\ LeavesFirst(S, w)
  BY DEF Dead, Counted, Ordered, LeavesFirst
<1>2. CreatedFirst(S, w) /\ Comes(S, w) /\ ReturnsFirst(S, w)
  BY DEF Dead, CreatedFirst, Comes, Coming, ReturnsFirst
<1>3. Framed(S, w) /\ Gone(S, w)
  BY DEF Dead, Framed
<1>4. QED
  BY <1>1, <1>2, <1>3 DEF WindowInv, Uncounted

\* Events about its end, its unmapping and its leaving may follow.
LEMMA SendDead ==
    ASSUME NEW S, Sound(S), NEW w \in Windows, Dead(S, w), NEW e \in Events,
           e.type \in {"UnmapNotify", "DestroyNotify", "ReparentNotify"}, ~Returns(e, w),
           Is(e, "DestroyNotify", w) => ~S.srv[w].exists /\ (e.arg = "client" \/ S.crossed[w])
    PROVE  Dead(Send(S, e), w)
<1> DEFINE T == Send(S, e)
<1>1. S \in States /\ S.queue \in Seq(Events)
  BY DEF Sound, States
<1>2. /\ T.win = S.win /\ T.srv = S.srv /\ T.crossed = S.crossed
  BY <1>1, SendFacts
<1>3. PICK n \in Nat : n = Len(S.queue) /\ Len(T.queue) = n + 1 /\ T.queue[n + 1] = e
                       /\ \A i \in 1..n : T.queue[i] = S.queue[i]
  BY <1>1, SendFacts
<1> HIDE DEF T
<1>4. ASSUME NEW i \in 1..n + 1
      PROVE  /\ ~Is(T.queue[i], "CreateNotify", w)
             /\ ~S.crossed[w] => ~Returns(T.queue[i], w)
             /\ Is(T.queue[i], "DestroyNotify", w) =>
                    ~S.srv[w].exists /\ (T.queue[i].arg = "client" \/ S.crossed[w])
  <2>1. i \in 1..n \/ i = n + 1
    BY <1>3
  <2>2. CASE i \in 1..n
    BY <1>3, <2>2 DEF Dead, Gone
  <2>3. CASE i = n + 1
    BY <1>3, <2>3 DEF Is
  <2>4. QED
    BY <2>1, <2>2, <2>3
<1>5. Gone(T, w)
  BY <1>2, <1>3, <1>4 DEF Gone
<1>6. QED
  BY <1>2, <1>3, <1>4, <1>5 DEF Dead, T

\* A window that compiz lets go, while its frame is still there: it is in the
\* frame only when requests have crossed.
Dying(S, w) ==
    /\ S.win[w].stage = "destroyed"
    /\ S.srv[w].exists /\ S.srv[w].parent = "wrapper" => S.win[w].frame /\ S.crossed[w]
    /\ Gone(S, w)
    /\ \A i \in 1..Len(S.queue) :
           ~Is(S.queue[i], "CreateNotify", w) /\ (~S.crossed[w] => ~Returns(S.queue[i], w))

\* A record may have any stage.
LEMMA StageChanges ==
    ASSUME NEW r \in Record, NEW s \in Stages
    PROVE  /\ [r EXCEPT !.stage = s] \in Record
           /\ [r EXCEPT !.stage = s].stage = s /\ [r EXCEPT !.stage = s].frame = r.frame
BY DEF Record

\* Its frame is destroyed, and with it a window that is still in it.
LEMMA UnreparentDead ==
    ASSUME NEW S, NEW ask, NEW w \in Windows, Rest(S, ask, w), Dying(S, w)
    PROVE  LET T == Unreparent(S, w)
           IN  /\ Rest(T, ask, w) /\ Dead(T, w) /\ T.crossed[w] = S.crossed[w]
               /\ T.srv[w].exists => S.srv[w].exists /\ T.srv[w].parent = S.srv[w].parent
<1> DEFINE gone == S.win[w].stage # "window"
           held == gone /\ S.srv[w].exists /\ S.srv[w].parent = "wrapper"
           b == [S.srv[w] EXCEPT !.exists = FALSE, !.mapped = FALSE]
           X == Updated(S, w, S.win[w], b, S.crossed[w])
           e == Event("DestroyNotify", w, "wm")
           Y == IF held THEN Send(X, e) ELSE S
           r == [Y.win[w] EXCEPT !.frame = FALSE]
           p == S.srv[w].parent
           s == S.srv[w].selected
           a == [Y.srv[w] EXCEPT !.frameMapped = FALSE, !.parent = p, !.selected = s]
           T == Updated(Y, w, r, a, Y.crossed[w])
<1>1. Sound(S) /\ S \in States /\ S.win[w] \in Record /\ S.srv[w] \in Attributes
      /\ S.crossed[w] \in BOOLEAN /\ S.queue \in Seq(Events)
      /\ S.win \in [Windows -> Record] /\ S.srv \in [Windows -> Attributes]
      /\ S.crossed \in [Windows -> BOOLEAN]
  BY StateTypes DEF Rest, Sound
<1>2. p \in {"root", "wrapper", "other"} /\ s \in BOOLEAN
  BY <1>1, AttributeTypes
<1>3. CASE ~S.win[w].frame
  BY <1>3 DEF Unreparent, Dead, Dying
<1>4. CASE S.win[w].frame
  <2>1. [S EXCEPT !.srv[w].exists = FALSE, !.srv[w].mapped = FALSE] = X
    BY <1>1 DEF Updated, States
  <2>2. Unreparent(S, w) = [Y EXCEPT !.win[w].frame = FALSE, !.srv[w] = a]
    <3>1. gone
      BY DEF Dying
    <3>2. Unreparent(S, w) =
              [Y EXCEPT !.win[w].frame = FALSE,
                        !.srv[w] = [@ EXCEPT
                            !.frameMapped = FALSE,
                            !.parent = IF gone THEN S.srv[w].parent ELSE "root",
                            !.selected = S.srv[w].selected \/ ~gone]]
      <4> DEFINE Z == [S EXCEPT !.srv[w].exists = FALSE, !.srv[w].mapped = FALSE]
                 V == IF held THEN Send(Z, e) ELSE S
      <4>1. Y = V
        <5> HIDE DEF Z, X
        <5>1. Z = X
          BY <2>1 DEF Z
        <5>2. QED
          BY <5>1
      <4>2. Unreparent(S, w) =
                [V EXCEPT !.win[w].frame = FALSE,
                          !.srv[w] = [@ EXCEPT
                              !.frameMapped = FALSE,
                              !.parent = IF gone THEN S.srv[w].parent ELSE "root",
                              !.selected = S.srv[w].selected \/ ~gone]]
        BY <1>4 DEF Unreparent
      <4> HIDE DEF V, Y, gone
      <4>3. QED
        BY <4>1, <4>2
    <3>3. (S.srv[w].selected \/ ~gone) = s /\ (IF gone THEN S.srv[w].parent ELSE "root") = p
      BY <1>2, <3>1
    <3> HIDE DEF s, p, Y, gone
    <3>4. QED
      BY <3>2, <3>3
  <2>3. b \in Attributes /\ b.exists = FALSE /\ b.mapped = FALSE /\ b.parent = S.srv[w].parent
    <3>1. b \in Attributes
      BY <1>1, AttributeChanges
    <3>2. b.exists = FALSE /\ b.mapped = FALSE /\ b.parent = S.srv[w].parent
      BY <1>1 DEF Attributes
    <3>3. QED
      BY <3>1, <3>2
  <2> HIDE DEF b
  <2>4. (b.mapped => b.exists) /\ X = Updated(S, w, S.win[w], b, S.crossed[w])
    BY <2>3
  <2>5. S.win[w].stage # "window"
    BY DEF Dying
  <2> HIDE DEF X
  <2>6. /\ Rest(X, ask, w) /\ Sound(X) /\ X.win[w] = S.win[w] /\ X.srv[w] = b
        /\ X.crossed[w] = S.crossed[w] /\ X.queue = S.queue
    BY <1>1, <2>3, <2>4, <2>5, UpdatedRest
  <2>7. e \in Events /\ e.type = "DestroyNotify" /\ e.win = w /\ e.arg = "wm"
    BY EventTypes
  <2> HIDE DEF e
  <2>8. /\ Rest(Y, ask, w) /\ Dead(Y, w) /\ Y.win[w] = S.win[w]
        /\ Y.crossed[w] = S.crossed[w]
        /\ Y.srv[w].parent = S.srv[w].parent
        /\ Y.srv[w].exists => S.srv[w].exists
    <3>1. CASE held
      <4>1. Y = Send(X, e)
        BY <3>1
      <4>2. X \in States
        BY <2>6 DEF Sound
      <4>3. Y.win = X.win /\ Y.srv = X.srv /\ Y.crossed = X.crossed
        BY <2>7, <4>1, <4>2, SendFacts
      <4>4. Rest(Y, ask, w)
        BY <2>6, <2>7, <4>1, SendRest
      <4>5. Dead(X, w)
        BY <2>3, <2>6 DEF Dead, Dying, Gone
      <4>6. X.crossed[w] /\ ~X.srv[w].exists
        BY <2>3, <2>6, <3>1 DEF Dying
      <4>7. Dead(Y, w)
        BY <2>6, <2>7, <4>1, <4>5, <4>6, SendDead DEF Returns
      <4>8. QED
        BY <2>3, <2>6, <3>1, <4>3, <4>4, <4>7
    <3>2. CASE ~held
      BY <3>2 DEF Dead, Dying
    <3>3. QED
      BY <3>1, <3>2
  <2> HIDE DEF Y
  <2>9. /\ Sound(Y) /\ Y.win[w] \in Record /\ Y.srv[w] \in Attributes
        /\ Y.crossed[w] \in BOOLEAN /\ Y \in States
        /\ (Y.srv[w].mapped => Y.srv[w].exists)
    BY <2>8, StateTypes DEF Rest, Sound, MappedExist
  <2>10. Unreparent(S, w) = T
    <3> HIDE DEF a
    <3>1. T = [Y EXCEPT !.win[w].frame = FALSE, !.srv[w] = a]
      BY <2>9 DEF Updated, States
    <3>2. QED
      BY <2>2, <3>1
  <2>11. r \in Record /\ r.stage = Y.win[w].stage
    <3>1. r \in Record
      BY <2>9, RecordChanges
    <3>2. r.stage = Y.win[w].stage
      BY <2>9 DEF Record
    <3>3. QED
      BY <3>1, <3>2
  <2> HIDE DEF p, s
  <2>12. a \in Attributes
    BY <1>2, <2>9, AttributeChanges
  <2>13. a.exists = Y.srv[w].exists /\ a.mapped = Y.srv[w].mapped /\ a.parent = p
    BY <2>9 DEF Attributes
  <2> HIDE DEF r, a
  <2>14. (a.mapped => a.exists) /\ T = Updated(Y, w, r, a, Y.crossed[w])
         /\ r.stage # "window"
    BY <2>5, <2>8, <2>9, <2>11, <2>13
  <2> HIDE DEF T
  <2>15. /\ Rest(T, ask, w) /\ T.win[w] = r /\ T.srv[w] = a
         /\ T.crossed[w] = Y.crossed[w] /\ T.queue = Y.queue
    BY SMTT(30), <2>8, <2>9, <2>11, <2>12, <2>14, UpdatedRest
  <2>16. Dead(T, w)
    BY <2>8, <2>11, <2>13, <2>15 DEF Dead, Gone, p
  <2>17. QED
    BY <2>8, <2>10, <2>13, <2>15, <2>16 DEF p
<1>5. QED
  BY <1>3, <1>4

\* CompWindow::destroy, of a window that is in its frame only when requests
\* have crossed
LEMMA DestroyRest ==
    ASSUME NEW S, NEW ask, Between(S, ask), S.queue # <<>>, NEW w \in Windows,
           S.queue[1].win = w, S.win[w].stage = "window",
           S.srv[w].exists /\ S.srv[w].parent = "wrapper" => S.crossed[w]
    PROVE  LET T == Destroy(Pop(S), w)
           IN  /\ Rest(T, ask, w) /\ Dead(T, w) /\ T.crossed[w] = S.crossed[w]
               /\ T.srv[w].exists => S.srv[w].exists /\ T.srv[w].parent = S.srv[w].parent
<1> DEFINE P == Pop(S)
           r == [P.win[w] EXCEPT !.stage = "destroyed"]
           D == Updated(P, w, r, P.srv[w], P.crossed[w])
<1>1. WindowInv(S, w, ask[w]) /\ Sound(S)
  BY DEF Between
<1>2. P.win = S.win /\ P.srv = S.srv /\ P.crossed = S.crossed /\ Sound(P) /\ P \in States
  BY <1>1, PopFacts
<1>3. PICK n \in Nat : n = Len(S.queue) /\ n > 0 /\ n - 1 = Len(P.queue)
                       /\ \A i \in 1..n - 1 : P.queue[i] = S.queue[i + 1]
  BY <1>1, PopFacts
<1>4. Rest(P, ask, w)
  BY PopRest
<1> HIDE DEF P
<1>5. /\ P.win[w] \in Record /\ P.srv[w] \in Attributes /\ P.crossed[w] \in BOOLEAN
      /\ P.win \in [Windows -> Record] /\ P.srv \in [Windows -> Attributes]
      /\ P.crossed \in [Windows -> BOOLEAN]
  BY <1>2, StateTypes
<1>6. P.srv[w].mapped => P.srv[w].exists
  BY <1>2 DEF Sound, MappedExist
<1>7. r \in Record /\ r.stage = "destroyed" /\ r.frame = S.win[w].frame
  <2>1. "destroyed" \in Stages
    BY DEF Stages
  <2>2. r \in Record
    BY <1>5, <2>1, StageChanges
  <2>3. r.stage = "destroyed" /\ r.frame = P.win[w].frame
    BY <1>5 DEF Record
  <2>4. QED
    BY <1>2, <2>2, <2>3
<1>8. [P EXCEPT !.win[w].stage = "destroyed"] = D
  BY <1>2, <1>5 DEF Updated, States
<1> HIDE DEF r
<1>9. D = Updated(P, w, r, P.srv[w], P.crossed[w]) /\ r.stage # "window"
  BY <1>7
<1> HIDE DEF D
<1>10. /\ Rest(D, ask, w) /\ D.win[w] = r /\ D.srv[w] = S.srv[w]
       /\ D.crossed[w] = S.crossed[w] /\ D.queue = P.queue
  BY <1>2, <1>4, <1>5, <1>6, <1>7, <1>9, UpdatedRest
<1>11. Dying(D, w)
  <2>1. ASSUME NEW i \in 1..n - 1
        PROVE  /\ ~Is(P.queue[i], "CreateNotify", w)
               /\ ~S.crossed[w] => ~Returns(P.queue[i], w)
               /\ Is(P.queue[i], "DestroyNotify", w) =>
                      ~S.srv[w].exists /\ (P.queue[i].arg = "client" \/ S.crossed[w])
    <3>1. i + 1 \in 1..n /\ P.queue[i] = S.queue[i + 1]
      BY <1>3
    <3>2. CreatedFirst(S, w) /\ ReturnsFirst(S, w) /\ Gone(S, w)
      BY <1>1 DEF WindowInv, Uncounted
    <3>3. QED
      BY <1>3, <3>1, <3>2 DEF CreatedFirst, ReturnsFirst, Gone
  <2>2. Gone(D, w)
    BY <1>3, <1>10, <2>1 DEF Gone
  <2>3. S.srv[w].exists /\ S.srv[w].parent = "wrapper" => S.win[w].frame
    BY <1>1 DEF WindowInv, Uncounted, Framed
  <2>4. QED
    BY <1>3, <1>7, <1>10, <2>1, <2>2, <2>3 DEF Dying
<1>12. Destroy(P, w) = Unreparent(D, w)
  BY <1>8 DEF Destroy
<1> DEFINE T == Unreparent(D, w)
<1>13. /\ Rest(T, ask, w) /\ Dead(T, w) /\ T.crossed[w] = D.crossed[w]
       /\ T.srv[w].exists => D.srv[w].exists /\ T.srv[w].parent = D.srv[w].parent
  <2>1. Rest(D, ask, w)
    BY <1>10
  <2>2. QED
    BY <1>11, <2>1, UnreparentDead
<1>14. Destroy(Pop(S), w) = T
  BY <1>12 DEF P
<1> HIDE DEF T
<1>15. QED
  BY <1>10, <1>13, <1>14

\* A window that its client destroys
LEMMA DestroyBetween ==
    ASSUME NEW S, NEW ask, Between(S, ask), S.queue # <<>>, NEW w \in Windows,
           Is(S.queue[1], "DestroyNotify", w), S.win[w].stage = "window"
    PROVE  Between(Destroy(Pop(S), w), ask)
<1> DEFINE T == Destroy(Pop(S), w)
<1>1. ~S.srv[w].exists
  <2>1. Gone(S, w)
    BY DEF Between, WindowInv, Uncounted
  <2>2. 1 \in 1..Len(S.queue)
    BY PopFacts DEF Between
  <2>3. QED
    BY <2>1, <2>2 DEF Gone
<1>2. S.queue[1].win = w
  BY DEF Is
<1>3. /\ Rest(T, ask, w) /\ Dead(T, w) /\ T.crossed[w] = S.crossed[w]
      /\ T.srv[w].exists => S.srv[w].exists /\ T.srv[w].parent = S.srv[w].parent
  BY <1>1, <1>2, DestroyRest
<1> HIDE DEF T
<1>4. LeftOrGivenBack(T, w, ask[w])
  BY <1>1, <1>3 DEF LeftOrGivenBack
<1>5. QED
  BY <1>3, <1>4, DeadInv, RestBetween DEF T

\* What the server reports of a window that is destroyed for compiz
LEMMA ReportDead ==
    ASSUME NEW S, NEW ask, NEW w \in Windows, Rest(S, ask, w), Dead(S, w),
           NEW type, NEW arg, <<type, arg>> \in {<<"UnmapNotify", "wm">>, <<"ReparentNotify", "other">>}
    PROVE  LET T == Report(S, w, type, arg)
           IN  /\ Rest(T, ask, w) /\ Dead(T, w) /\ T.win = S.win /\ T.srv = S.srv
               /\ T.crossed = S.crossed
<1> DEFINE e == Event(type, w, arg)
<1>1. e \in Events /\ e.type = type /\ e.win = w /\ e.arg = arg
  BY DEF Event, Events, WindowEvents
<1>2. type \in {"UnmapNotify", "ReparentNotify"} /\ arg # "root"
  OBVIOUS
<1>3. Report(S, w, type, arg) \in {S, Send(S, e)}
  BY DEF Report
<1> HIDE DEF e
<1>4. Rest(Send(S, e), ask, w)
  BY <1>1, SendRest
<1>5. Sound(S) /\ S \in States
  BY DEF Rest, Sound
<1>6. Dead(Send(S, e), w)
  BY <1>1, <1>2, <1>5, SendDead DEF Returns, Is
<1>7. /\ Send(S, e).win = S.win /\ Send(S, e).srv = S.srv
      /\ Send(S, e).crossed = S.crossed
  BY <1>1, <1>5, SendFacts
<1>8. QED
  BY <1>3, <1>4, <1>6, <1>7

\* A window that compiz had taken for withdrawn is given back.
LEMMA PutBackBetween ==
    ASSUME NEW S, NEW ask, NEW w \in Windows, Rest(S, ask, w), Dead(S, w)
    PROVE  Between(PutBack(S, w), ask)
<1> DEFINE T == IF S.srv[w].mapped THEN Report(S, w, "UnmapNotify", "wm") ELSE S
           U == Report(T, w, "ReparentNotify", "other")
           a == [U.srv[w] EXCEPT !.parent = "other"]
           V == Updated(U, w, U.win[w], a, U.crossed[w])
<1>1. CASE ~S.srv[w].exists
  <2>1. LeftOrGivenBack(S, w, ask[w])
    BY <1>1 DEF LeftOrGivenBack
  <2>2. QED
    BY <1>1, <2>1, DeadInv, RestBetween DEF PutBack
<1>2. CASE S.srv[w].exists
  <2>1. PutBack(S, w) = [U EXCEPT !.srv[w].parent = "other"]
    BY <1>2 DEF PutBack
  <2>2. Rest(T, ask, w) /\ Dead(T, w)
    BY ReportDead
  <2> HIDE DEF T
  <2>3. Rest(U, ask, w) /\ Dead(U, w)
    BY <2>2, ReportDead
  <2> HIDE DEF U
  <2>4. /\ U \in States /\ U.win[w] \in Record /\ U.srv[w] \in Attributes
        /\ U.crossed[w] \in BOOLEAN
        /\ U.win \in [Windows -> Record] /\ U.srv \in [Windows -> Attributes]
        /\ U.crossed \in [Windows -> BOOLEAN]
        /\ (U.srv[w].mapped => U.srv[w].exists)
    BY <2>3, StateTypes DEF Rest, Sound, MappedExist
  <2>5. [U EXCEPT !.srv[w].parent = "other"] = V
    BY <2>4 DEF Updated, States
  <2>6. a \in Attributes
    BY <2>4, AttributeChanges
  <2>7. a.exists = U.srv[w].exists /\ a.mapped = U.srv[w].mapped /\ a.parent = "other"
    BY <2>4 DEF Attributes
  <2>8. U.win[w].stage # "window"
    BY <2>3 DEF Dead
  <2> HIDE DEF a
  <2>9. (a.mapped => a.exists) /\ V = Updated(U, w, U.win[w], a, U.crossed[w])
    BY <2>4, <2>7
  <2> HIDE DEF V
  <2>10. /\ Rest(V, ask, w) /\ V.win[w] = U.win[w] /\ V.srv[w] = a
         /\ V.crossed[w] = U.crossed[w] /\ V.queue = U.queue
    BY <2>3, <2>4, <2>6, <2>8, <2>9, UpdatedRest
  <2>11. Dead(V, w) /\ LeftOrGivenBack(V, w, ask[w])
    BY <2>3, <2>7, <2>10 DEF Dead, Gone, LeftOrGivenBack
  <2>12. QED
    BY <2>1, <2>5, <2>10, <2>11, DeadInv, RestBetween
<1>3. QED
  BY <1>1, <1>2

\* A window that its client reparents
LEMMA ReparentedAwayBetween ==
    ASSUME NEW S, NEW ask, Between(S, ask), S.queue # <<>>, NEW w \in Windows,
           Leaves(S.queue[1], w), S.win[w].stage = "window"
    PROVE  Between(ReparentedAway(Pop(S), w), ask)
<1> DEFINE T == Destroy(Pop(S), w)
<1>1. WindowInv(S, w, ask[w]) /\ Sound(S)
  BY DEF Between
<1>2. 1 \in 1..Len(S.queue) /\ Pop(S).win = S.win
  BY <1>1, PopFacts
<1>3. ~S.crossed[w] => S.srv[w].parent # "wrapper"
  BY <1>1, <1>2 DEF WindowInv, Uncounted, LeavesFirst
<1>4. S.queue[1].win = w
  BY DEF Leaves
<1>5. S.crossed[w] \in BOOLEAN
  BY <1>1, StateTypes DEF Sound
<1>6. /\ Rest(T, ask, w) /\ Dead(T, w) /\ T.crossed[w] = S.crossed[w]
      /\ T.srv[w].exists => S.srv[w].exists /\ T.srv[w].parent = S.srv[w].parent
  BY <1>3, <1>4, <1>5, DestroyRest
<1> HIDE DEF T
<1>7. CASE S.win[w].frame
  <2>1. LeftOrGivenBack(T, w, ask[w])
    BY <1>1, <1>6, <1>7 DEF LeftOrGivenBack, WindowInv, Uncounted
  <2>2. Between(T, ask)
    BY <1>6, <2>1, DeadInv, RestBetween
  <2>3. QED
    BY <1>2, <1>7, <2>2 DEF ReparentedAway, T
<1>8. CASE ~S.win[w].frame
  <2>1. ReparentedAway(Pop(S), w) = PutBack(T, w)
    BY <1>2, <1>8 DEF ReparentedAway, T
  <2>2. QED
    BY <1>6, <2>1, PutBackBetween
<1>9. QED
  BY <1>7, <1>8

-----------------------------------------------------------------------------
(* compiz makes a CompWindow.                                              *)

\* The window is one that compiz has no CompWindow of, and unless requests
\* have crossed nothing of its earlier life is left in the queue.
Ready(S, w) ==
    /\ S.win[w].stage # "window"
    /\ \A i \in 1..Len(S.queue) : ~Is(S.queue[i], "CreateNotify", w)
    /\ ~S.crossed[w] =>
           /\ S.srv[w].parent # "other"
           /\ \A i \in 1..Len(S.queue) :
                  /\ ~WmUnmap(S.queue[i], w) /\ ~Leaves(S.queue[i], w)
                  /\ ~Returns(S.queue[i], w)

\* At the start the windows in D have been managed so far, and only compiz
\* has made events.
Started(S, D) ==
    /\ S.number = Largest
    /\ \A x \in Windows : /\ S.win[x].stage = IF x \in D THEN "window" ELSE "none"
                          /\ ~S.win[x].showDesktop /\ S.srv[x].parent # "other"
    /\ \A i \in 1..Len(S.queue) :
           \/ S.queue[i].type = "MapNotify"
           \/ S.queue[i].type = "UnmapNotify" /\ S.queue[i].win \in D

\* A window is managed at the start or later.
Going(S, ask, start, D) == Within(S, ask) /\ (start => Started(S, D))

\* Showing and hiding go on.
LEMMA FollowsGoing ==
    ASSUME NEW S, NEW ask, NEW start \in BOOLEAN, NEW D, Going(S, ask, start, D),
           NEW T, Follows(S, T)
    PROVE  /\ Going(T, ask, start, D) /\ Sound(T) /\ T.number = S.number
           /\ \A x \in Windows : T.win[x].stage = S.win[x].stage
<1>1. Within(T, ask)
  BY FollowsWithin DEF Going
<1>2. /\ Sound(T) /\ T.number = S.number
      /\ \A x \in Windows : SameWindow(S, T, x) /\ (T.win[x].showDesktop => S.win[x].showDesktop)
      /\ Grows(S, T)
  BY DEF Follows, Keeps
<1>3. \A x \in Windows : T.win[x].stage = S.win[x].stage
  BY <1>2 DEF SameWindow
<1>4. ASSUME Started(S, D) PROVE Started(T, D)
  <2>1. ASSUME NEW i \in 1..Len(T.queue)
        PROVE  \/ T.queue[i].type = "MapNotify"
               \/ T.queue[i].type = "UnmapNotify" /\ T.queue[i].win \in D
    <3>1. PICK m \in Nat : m = Len(S.queue)
      BY DEF Going, Within, Between, Sound, States
    <3>2. PICK n \in Nat : n = Len(T.queue)
      BY <1>2 DEF Sound, States
    <3>3. i \in 1..m \/ i \in m + 1..n
      BY <3>1, <3>2
    <3>4. CASE i \in 1..m
      BY <1>2, <1>4, <3>1, <3>4 DEF Grows, Started
    <3>5. CASE i \in m + 1..n
      BY <1>2, <1>4, <3>1, <3>2, <3>5 DEF Grows, Answers, Started
    <3>6. QED
      BY <3>3, <3>4, <3>5
  <2>2. QED
    BY <1>2, <1>4, <2>1 DEF Started, SameWindow
<1>5. QED
  BY <1>1, <1>2, <1>3, <1>4 DEF Going

\* Its frame is made.
LEMMA ReparentGoing ==
    ASSUME NEW S, NEW ask, NEW start \in BOOLEAN, NEW D, Going(S, ask, start, D),
           NEW w \in Windows, S.win[w].stage = "window"
    PROVE  LET T == Reparent(S, w)
           IN  /\ Going(T, ask, start, D) /\ T.number = S.number /\ T.win[w].stage = "window"
<1> DEFINE T == Reparent(S, w)
<1>1. /\ Within(T, ask) /\ T.number = S.number /\ T.queue = S.queue
      /\ \A x \in Windows : /\ T.win[x].stage = S.win[x].stage
                            /\ T.win[x].showDesktop = S.win[x].showDesktop
                            /\ T.srv[x].parent \in {S.srv[x].parent, "wrapper"}
  BY ReparentWithin DEF Going
<1> HIDE DEF T
<1>2. Started(S, D) => Started(T, D)
  BY <1>1 DEF Started
<1>3. QED
  BY <1>1, <1>2 DEF Going, T

\* Its flags and its desktop are set.
LEMMA RecordGoing ==
    ASSUME NEW S, NEW ask, NEW start \in BOOLEAN, NEW D, Going(S, ask, start, D),
           NEW w \in Windows, NEW r \in Record,
           r.stage = S.win[w].stage, r.frame = S.win[w].frame,
           r.pendingUnmaps = S.win[w].pendingUnmaps, r.showDesktop = S.win[w].showDesktop,
           r.desktop = S.win[w].desktop \/ r.desktop < S.number
    PROVE  LET T == [S EXCEPT !.win[w] = r]
           IN  /\ Going(T, ask, start, D) /\ T.number = S.number /\ T.win[w] = r
<1> DEFINE T == [S EXCEPT !.win[w] = r]
<1>1. /\ Sound(S) /\ S \in States /\ S.srv[w] \in Attributes /\ S.crossed[w] \in BOOLEAN
      /\ S.win \in [Windows -> Record] /\ S.srv \in [Windows -> Attributes]
      /\ S.crossed \in [Windows -> BOOLEAN]
  BY StateTypes DEF Going, Within, Between, Sound
<1>2. S.srv[w].mapped => S.srv[w].exists
  BY <1>1 DEF Sound, MappedExist
<1>3. T = Updated(S, w, r, S.srv[w], S.crossed[w])
  BY <1>1 DEF Updated, States
<1> HIDE DEF T
<1>4. Sound(S) /\ S.srv[w] \in Attributes /\ S.crossed[w] \in BOOLEAN
  BY <1>1
<1>5. /\ Sound(T) /\ T.win[w] = r /\ T.srv[w] = S.srv[w] /\ T.crossed[w] = S.crossed[w]
      /\ T.queue = S.queue /\ T.current = S.current /\ T.number = S.number /\ T.mask = S.mask
      /\ \A x \in Windows \ {w} :
             T.win[x] = S.win[x] /\ T.srv[x] = S.srv[x] /\ T.crossed[x] = S.crossed[x]
  BY <1>2, <1>3, <1>4, UpdatedSound
<1>6. \A x \in Windows : SameBooks(S, T, x)
  BY <1>5 DEF SameBooks
<1>7. \A x \in Windows : WindowInv(T, x, ask[x]) /\ Here(T, x)
  BY <1>6, SameInv DEF Going, Within, Between
<1>8. Placed(T) /\ ModeCovers(T)
  BY <1>5 DEF Going, Within, Between, Placed, ModeCovers
<1>9. Started(S, D) => Started(T, D)
  BY <1>5 DEF Started
<1>10. Within(T, ask)
  BY <1>5, <1>7, <1>8 DEF Within, Between
<1>11. QED
  BY <1>5, <1>9, <1>10 DEF Going, T

\* The record of a window that compiz knows from now on: nothing was unmapped,
\* and there is no frame.
New(r, S) ==
    /\ r \in Record
    /\ r.stage = "window" /\ ~r.frame /\ r.pendingUnmaps = 0 /\ ~r.showDesktop
    /\ r.desktop = AllDesktops \/ r.desktop < S.number

\* At the start the window is the next of those in D.
Begun(S, start, D, w) == start => w \in D /\ Started(S, D \ {w})

\* A window that is ready gets such a record.
LEMMA AdmitGoing ==
    ASSUME NEW S, NEW ask, NEW start \in BOOLEAN, NEW D, NEW w \in Windows,
           Within(S, ask), Ready(S, w), Begun(S, start, D, w),
           NEW r, New(r, S), NEW a \in Attributes,
           a.exists = S.srv[w].exists, a.mapped = S.srv[w].mapped, a.parent = S.srv[w].parent,
           NEW T, T = Updated(S, w, r, a, S.crossed[w])
    PROVE  /\ Going(T, ask, start, D) /\ T.win[w] = r /\ T.srv[w] = a
           /\ T.number = S.number
<1>1. Sound(S) /\ S \in States /\ S.crossed[w] \in BOOLEAN /\ S.queue \in Seq(Events)
  BY StateTypes DEF Within, Between, Sound
<1>2. (a.mapped => a.exists) /\ r \in Record
  BY <1>1 DEF Sound, MappedExist, New
<1>3. /\ Sound(T) /\ T.win[w] = r /\ T.srv[w] = a /\ T.crossed[w] = S.crossed[w]
      /\ T.queue = S.queue /\ T.current = S.current /\ T.number = S.number /\ T.mask = S.mask
      /\ \A x \in Windows \ {w} :
             T.win[x] = S.win[x] /\ T.srv[x] = S.srv[x] /\ T.crossed[x] = S.crossed[x]
  BY <1>1, <1>2, UpdatedSound
<1>4. \A x \in Windows \ {w} : WindowInv(T, x, ask[x]) /\ Here(T, x)
  <2>1. \A x \in Windows \ {w} : SameBooks(S, T, x)
    BY <1>3 DEF SameBooks
  <2>2. QED
    BY <2>1, SameInv DEF Within, Between
<1>5. WindowInv(S, w, ask[w])
  BY DEF Within, Between
<1>6. /\ r.stage = "window" /\ r.pendingUnmaps = 0 /\ ~r.frame
  BY DEF New
<1>7. Counted(T, w)
  <2>1. SUFFICES ASSUME ~S.crossed[w] PROVE Count(S.queue, w) = 0
    BY <1>3, <1>6 DEF Counted
  <2>2. Unmaps(S.queue, w) = {}
    BY <2>1 DEF Ready, Unmaps
  <2>3. QED
    BY <2>2, FS_EmptySet DEF Count
<1>8. Ordered(T, w) /\ CreatedFirst(T, w)
  BY <1>3 DEF Ready, Ordered, CreatedFirst
<1>9. Comes(T, w)
  BY <1>3, <1>6 DEF Ready, Comes, Coming
<1>10. ReturnsFirst(T, w) /\ LeavesFirst(T, w) /\ Here(T, w)
  BY <1>3 DEF Ready, ReturnsFirst, LeavesFirst, Here
<1>11. Framed(T, w)
  BY <1>3, <1>5, <1>6 DEF Ready, Framed, WindowInv, Uncounted
<1>12. Gone(T, w)
  BY <1>3, <1>5 DEF Gone, WindowInv, Uncounted
<1>13. LeftOrGivenBack(T, w, ask[w])
  BY <1>3, <1>5 DEF Ready, LeftOrGivenBack, WindowInv, Uncounted
<1>14. WindowInv(T, w, ask[w])
  BY <1>7, <1>8, <1>9, <1>10, <1>11, <1>12, <1>13 DEF WindowInv, Uncounted
<1>15. Placed(T) /\ ModeCovers(T)
  BY <1>3 DEF New, Within, Between, Placed, ModeCovers
<1>16. Within(T, ask)
  BY <1>3, <1>4, <1>10, <1>14, <1>15 DEF Within, Between
<1>17. start => Started(T, D)
  <2>1. SUFFICES ASSUME w \in D, Started(S, D \ {w}) PROVE Started(T, D)
    BY DEF Begun
  <2>2. ~r.showDesktop /\ a.parent # "other"
    BY <2>1 DEF New, Started
  <2>3. QED
    BY <1>3, <1>6, <2>1, <2>2 DEF Started
<1>18. QED
  BY <1>3, <1>16, <1>17 DEF Going

\* The record of an iconic window that is managed when it is found
LEMMA UnmappedRecord ==
    ASSUME NEW r \in Record, NEW b \in BOOLEAN, NEW c \in BOOLEAN,
           NEW u, u = [r EXCEPT !.managed = TRUE, !.placed = TRUE, !.shaded = b,
                                !.minimized = c]
    PROVE  /\ u \in Record /\ u.stage = r.stage /\ u.frame = r.frame
           /\ u.pendingUnmaps = r.pendingUnmaps /\ u.showDesktop = r.showDesktop
           /\ u.desktop = r.desktop
<1>1. u \in Record
  BY ZenonT(60) DEF Record
<1>2. /\ u.stage = r.stage /\ u.frame = r.frame
      /\ u.pendingUnmaps = r.pendingUnmaps /\ u.showDesktop = r.showDesktop
      /\ u.desktop = r.desktop
  BY DEF Record
<1>3. QED
  BY <1>1, <1>2

\* A window that is not mapped
LEMMA ManageUnmappedGoing ==
    ASSUME NEW S, NEW ask, NEW start \in BOOLEAN, NEW D, Going(S, ask, start, D),
           NEW w \in Windows, S.win[w].stage = "window"
    PROVE  LET T == ManageUnmapped(S, w)
           IN  Going(T, ask, start, D) /\ T.win[w].stage = "window"
<1> DEFINE T == Reparent(S, w)
           b == S.win[w].stateHidden /\ S.win[w].stateShaded
           c == S.win[w].stateHidden /\ ~S.win[w].stateShaded
           u == [T.win[w] EXCEPT !.managed = TRUE, !.placed = TRUE, !.shaded = b, !.minimized = c]
<1>1. Going(T, ask, start, D) /\ T.win[w].stage = "window"
  BY ReparentGoing
<1>2. ManageUnmapped(S, w) \in {S, [T EXCEPT !.win[w] = u]}
  BY DEF ManageUnmapped
<1> HIDE DEF T
<1>3. T.win[w] \in Record
  BY <1>1, StateTypes DEF Going, Within, Between, Sound
<1>4. b \in BOOLEAN /\ c \in BOOLEAN
  OBVIOUS
<1> HIDE DEF b, c
<1>5. /\ u \in Record /\ u.stage = T.win[w].stage /\ u.frame = T.win[w].frame
      /\ u.pendingUnmaps = T.win[w].pendingUnmaps /\ u.showDesktop = T.win[w].showDesktop
      /\ u.desktop = T.win[w].desktop
  BY ZenonT(30), <1>3, <1>4, UnmappedRecord
<1> HIDE DEF u
<1> DEFINE Y == [T EXCEPT !.win[w] = u]
<1>6. Going(Y, ask, start, D) /\ Y.win[w] = u
  BY <1>1, <1>5, RecordGoing
<1>7. Y.win[w].stage = "window"
  BY <1>1, <1>5, <1>6
<1> HIDE DEF Y
<1>8. QED
  BY <1>2, <1>6, <1>7 DEF Y

\* A window that is mapped: it is mapped for compiz too, and unmapped again
\* when it is iconic.
LEMMA ManageMappedGoing ==
    ASSUME NEW S, NEW ask, NEW start \in BOOLEAN, NEW D, Going(S, ask, start, D),
           NEW w \in Windows, S.win[w].stage = "window"
    PROVE  LET T == ManageMapped(S, w)
           IN  Going(T, ask, start, D) /\ T.win[w].stage = "window"
<1> DEFINE iconic == S.srv[w].wmState = "Iconic"
           q == [S.win[w] EXCEPT !.placed = TRUE]
           P == [S EXCEPT !.win[w].placed = TRUE]
           T == Reparent(P, w)
           b == iconic /\ T.win[w].stateShaded
           c == iconic /\ ~T.win[w].stateShaded
           d == IF iconic \/ T.win[w].desktop = AllDesktops THEN T.win[w].desktop ELSE S.current
           m == [T.win[w] EXCEPT !.managed = TRUE, !.pendingMaps = TRUE, !.shaded = b,
                                 !.minimized = c, !.desktop = d]
           M == [T EXCEPT !.win[w] = m]
           U == Map(M, w)
           N == SetDesktopProperty(U, w)
           R == IF iconic THEN U ELSE N
           V == UpdateAttributes(R, w)
           h == V.srv[w].frameMapped /\ V.win[w].shaded
           r == [V.win[w] EXCEPT !.stateHidden = TRUE]
           a == [V.srv[w] EXCEPT !.frameMapped = h]
           Y == [V EXCEPT !.win[w].stateHidden = TRUE, !.srv[w].frameMapped = @ /\ V.win[w].shaded]
           X == CountedUnmap(Y, w)
           Z == SetWindowState(X, w)
<1>1. Sound(S) /\ S \in States /\ S.win[w] \in Record /\ S.current \in 0..Largest - 1
      /\ S.current < S.number
  BY StateTypes DEF Going, Within, Between, Placed, Sound
<1>2. P = [S EXCEPT !.win[w] = q]
  BY <1>1 DEF States
<1>3. q \in Record
  BY <1>1, RecordChanges
<1>4. /\ q.stage = S.win[w].stage /\ q.frame = S.win[w].frame /\ q.desktop = S.win[w].desktop
      /\ q.pendingUnmaps = S.win[w].pendingUnmaps /\ q.showDesktop = S.win[w].showDesktop
  BY <1>1 DEF Record
<1> HIDE DEF q
<1> HIDE DEF P
<1>5. Going(P, ask, start, D) /\ P.number = S.number /\ P.win[w].stage = "window"
  BY <1>2, <1>3, <1>4, RecordGoing
<1>6. Going(T, ask, start, D) /\ T.number = S.number /\ T.win[w].stage = "window"
  BY <1>5, ReparentGoing
<1> HIDE DEF T, iconic
<1>7. T.win[w] \in Record
  BY <1>6, StateTypes DEF Going, Within, Between, Sound
<1>8. b \in BOOLEAN /\ c \in BOOLEAN
  OBVIOUS
<1>9. d \in AnyDesktop /\ (d = T.win[w].desktop \/ d < T.number)
  BY <1>1, <1>6, <1>7, LargestType DEF Record, AnyDesktop
<1> HIDE DEF b, c, d
<1>10. /\ m \in Record /\ m.stage = T.win[w].stage /\ m.frame = T.win[w].frame
       /\ m.pendingUnmaps = T.win[w].pendingUnmaps /\ m.showDesktop = T.win[w].showDesktop
       /\ m.desktop = d
  <2>1. d \in AnyDesktop
    BY <1>9
  <2>2. m \in Record
    BY <1>7, <1>8, <2>1, ZenonT(60) DEF Record
  <2>3. /\ m.stage = T.win[w].stage /\ m.frame = T.win[w].frame
        /\ m.pendingUnmaps = T.win[w].pendingUnmaps /\ m.showDesktop = T.win[w].showDesktop
        /\ m.desktop = d
    BY <1>7 DEF Record
  <2> HIDE DEF m
  <2>4. QED
    BY <2>2, <2>3
<1> HIDE DEF m
<1>11. Going(M, ask, start, D) /\ Sound(M) /\ M.win[w].stage = "window"
  <2>1. m.desktop = T.win[w].desktop \/ m.desktop < T.number
    BY <1>9, <1>10
  <2>2. Going(M, ask, start, D) /\ M.win[w] = m
    BY <1>6, <1>10, <2>1, RecordGoing
  <2> HIDE DEF M
  <2>3. QED
    BY <1>6, <1>10, <2>2 DEF Going, Within, Between
<1> HIDE DEF M
<1>12. Follows(M, U)
  BY <1>11, MapFlags, FlagsFollow
<1> HIDE DEF U
<1>13. Going(U, ask, start, D) /\ Sound(U) /\ U.win[w].stage = "window"
  BY <1>11, <1>12, FollowsGoing
<1>14. Follows(U, N)
  BY <1>13, DesktopPropertyFollows
<1> HIDE DEF N
<1>15. Going(R, ask, start, D) /\ Sound(R) /\ R.win[w].stage = "window"
  <2>1. Going(N, ask, start, D) /\ Sound(N) /\ N.win[w].stage = "window"
    BY <1>13, <1>14, FollowsGoing
  <2>2. QED
    BY <1>13, <2>1
<1> HIDE DEF R
<1>16. Follows(R, V)
  BY <1>15, UpdateAttributesFollows
<1> HIDE DEF V
<1>17. Going(V, ask, start, D) /\ Sound(V) /\ V.win[w].stage = "window"
  BY <1>15, <1>16, FollowsGoing
<1>18. /\ V \in States /\ V.win[w] \in Record /\ V.srv[w] \in Attributes /\ V.crossed[w] \in BOOLEAN
       /\ V.win \in [Windows -> Record] /\ V.srv \in [Windows -> Attributes]
       /\ V.crossed \in [Windows -> BOOLEAN]
  BY <1>17, StateTypes DEF Sound
<1>19. h \in BOOLEAN
  BY <1>18 DEF Record, Attributes
<1>20. Y = Updated(V, w, r, a, V.crossed[w])
  BY <1>18 DEF Updated, States
<1> HIDE DEF h
<1>21. r \in Record /\ a \in Attributes
  BY <1>18, <1>19, RecordChanges, AttributeChanges
<1>22. FlagsOf(r, V.win[w])
  BY <1>18 DEF FlagsOf, Record
<1>23. StaysOf(a, V.srv[w])
  BY <1>17, <1>18 DEF StaysOf, Attributes, Sound, MappedExist
<1> HIDE DEF r, a, Y
<1>24. Follows(V, Y)
  <2>1. V.crossed[w] \in BOOLEAN
    BY <1>18
  <2>2. QED
    BY <1>17, <1>20, <1>21, <1>22, <1>23, <2>1, UpdatedFlags
<1>25. Going(Y, ask, start, D) /\ Sound(Y) /\ Y.win[w].stage = "window"
  BY <1>17, <1>24, FollowsGoing
<1>26. Follows(Y, X)
  BY <1>25, CountedUnmapFollows
<1> HIDE DEF X
<1>27. Going(X, ask, start, D) /\ Sound(X) /\ X.win[w].stage = "window"
  BY <1>25, <1>26, FollowsGoing
<1>28. Follows(X, Z)
  BY <1>27, WindowStateFollows
<1> HIDE DEF Z
<1>29. Going(Z, ask, start, D) /\ Z.win[w].stage = "window"
  <2>1. Going(X, ask, start, D)
    BY <1>27
  <2>2. Going(Z, ask, start, D) /\ \A x \in Windows : Z.win[x].stage = X.win[x].stage
    BY <1>28, <2>1, FollowsGoing
  <2>3. QED
    BY <1>27, <2>2
<1>30. ManageMapped(S, w) = IF V.win[w].minimized \/ V.win[w].shaded THEN Z ELSE V
  BY Zenon DEF ManageMapped, iconic, P, T, b, c, d, m, M, U, N, R, V, Y, X, Z
<1>31. QED
  BY <1>17, <1>29, <1>30

\* CompWindow's constructor, of a window that is ready
LEMMA ManageGoing ==
    ASSUME NEW S, NEW ask, NEW start \in BOOLEAN, NEW D, NEW w \in Windows,
           Within(S, ask), Ready(S, w), Begun(S, start, D, w)
    PROVE  LET T == Manage(S, w)
           IN  Going(T, ask, start, D) /\ T.win[w].stage = "window"
<1> DEFINE d == IF S.srv[w].desktop \in 0..S.number - 1 \cup {AllDesktops}
                THEN S.srv[w].desktop ELSE S.current
           b == S.srv[w].exists /\ S.srv[w].stateShaded
           c == S.srv[w].exists /\ S.srv[w].stateHidden
           r == [NoRecord EXCEPT !.stage = "window", !.desktop = d, !.stateShaded = b,
                                 !.stateHidden = c]
           e == S.srv[w].exists
           a == [S.srv[w] EXCEPT !.selected = e]
           T == [S EXCEPT !.win[w] = r, !.srv[w].selected = e]
           M == ManageMapped(T, w)
           N == ManageUnmapped(T, w)
           U == IF ~S.srv[w].exists THEN T ELSE IF S.srv[w].mapped THEN M ELSE N
           v == U.win[w].rolled \/ U.win[w].shaded
           u == [U.win[w] EXCEPT !.rolled = v]
           Z == [U EXCEPT !.win[w] = u]
<1>1. /\ Sound(S) /\ S \in States /\ S.win[w] \in Record /\ S.srv[w] \in Attributes
      /\ S.current \in 0..Largest - 1 /\ S.current < S.number /\ S.number \in 1..Largest
      /\ S.win \in [Windows -> Record] /\ S.srv \in [Windows -> Attributes]
      /\ S.crossed \in [Windows -> BOOLEAN]
  BY StateTypes DEF Within, Between, Placed, Sound
<1>2. d \in AnyDesktop /\ (d = AllDesktops \/ d < S.number)
  <2>1. Largest \in Nat /\ AllDesktops = Largest
    BY LargestType DEF AllDesktops
  <2>2. CASE S.srv[w].desktop \in 0..S.number - 1 \cup {AllDesktops}
    BY <1>1, <2>1, <2>2 DEF AnyDesktop
  <2>3. CASE S.srv[w].desktop \notin 0..S.number - 1 \cup {AllDesktops}
    BY <1>1, <2>1, <2>3 DEF AnyDesktop
  <2>4. QED
    BY <2>2, <2>3
<1>3. b \in BOOLEAN /\ c \in BOOLEAN /\ e \in BOOLEAN
  BY <1>1 DEF Attributes
<1>4. a \in Attributes
  BY <1>1, <1>3, AttributeChanges
<1>5. a.exists = S.srv[w].exists /\ a.mapped = S.srv[w].mapped /\ a.parent = S.srv[w].parent
  BY <1>1 DEF Attributes
<1>6. T = Updated(S, w, r, a, S.crossed[w])
  BY ZenonT(30), <1>1 DEF Updated, States
<1> HIDE DEF a, d, b, c, e
<1>7. New(r, S)
  <2>1. NoRecord \in Record
    BY LargestType DEF NoRecord, Record, Stages, AnyDesktop
  <2>2. NoRecord.pendingUnmaps = 0 /\ ~NoRecord.frame /\ ~NoRecord.showDesktop
    BY DEF NoRecord
  <2>3. "window" \in Stages
    BY DEF Stages
  <2>4. r \in Record
    BY <1>2, <1>3, <2>1, <2>3, ZenonT(60) DEF Record
  <2>5. /\ r.stage = "window" /\ r.desktop = d /\ r.frame = NoRecord.frame
        /\ r.pendingUnmaps = NoRecord.pendingUnmaps /\ r.showDesktop = NoRecord.showDesktop
    BY <2>1 DEF Record
  <2> HIDE DEF r
  <2>6. QED
    BY <1>2, <2>2, <2>4, <2>5 DEF New
<1> HIDE DEF r, T
<1>8. Going(T, ask, start, D) /\ T.win[w] = r
  <2>1. a.exists = S.srv[w].exists
    BY <1>5
  <2>2. a.mapped = S.srv[w].mapped
    BY <1>5
  <2>3. a.parent = S.srv[w].parent
    BY <1>5
  <2>4. QED
    BY <1>4, <1>6, <1>7, <2>1, <2>2, <2>3, AdmitGoing
<1>9. T.win[w].stage = "window"
  BY <1>7, <1>8 DEF New
<1>10. Going(M, ask, start, D) /\ M.win[w].stage = "window"
  BY <1>8, <1>9, ManageMappedGoing
<1>11. Going(N, ask, start, D) /\ N.win[w].stage = "window"
  BY <1>8, <1>9, ManageUnmappedGoing
<1> HIDE DEF M, N
<1>12. Going(U, ask, start, D) /\ U.win[w].stage = "window"
  BY <1>8, <1>9, <1>10, <1>11
<1>13. Manage(S, w) = [U EXCEPT !.win[w].rolled = @ \/ U.win[w].shaded]
  BY Zenon DEF Manage, T, r, b, c, d, e, M, N
<1> HIDE DEF U
<1>14. /\ U \in States /\ U.win[w] \in Record /\ U.win \in [Windows -> Record]
  BY <1>12, StateTypes DEF Going, Within, Between, Sound
<1>15. Manage(S, w) = Z
  BY <1>13, <1>14 DEF States
<1>16. v \in BOOLEAN
  BY <1>14 DEF Record
<1> HIDE DEF v
<1>17. u \in Record
  BY <1>14, <1>16, RecordChanges
<1>18. /\ u.stage = U.win[w].stage /\ u.frame = U.win[w].frame /\ u.desktop = U.win[w].desktop
       /\ u.pendingUnmaps = U.win[w].pendingUnmaps /\ u.showDesktop = U.win[w].showDesktop
  BY <1>14 DEF Record
<1> HIDE DEF u
<1>19. Going(Z, ask, start, D) /\ Z.win[w] = u
  BY <1>12, <1>17, <1>18, RecordGoing
<1> HIDE DEF Z
<1>20. QED
  BY <1>12, <1>15, <1>18, <1>19

\* A window that is ready is managed at any time.
LEMMA ManageWithin ==
    ASSUME NEW S, NEW ask, NEW w \in Windows, Within(S, ask), Ready(S, w)
    PROVE  Within(Manage(S, w), ask) /\ Manage(S, w).win[w].stage = "window"
<1>1. Begun(S, FALSE, {}, w)
  BY DEF Begun
<1>2. Going(Manage(S, w), ask, FALSE, {}) /\ Manage(S, w).win[w].stage = "window"
  BY <1>1, ManageGoing
<1>3. QED
  BY <1>2 DEF Going

\* CompWindow::map of a window that show has mapped, or that the client has
LEMMA MapNotifiedWithin ==
    ASSUME NEW S, NEW ask, NEW w \in Windows, Within(S, ask), S.win[w].stage = "window"
    PROVE  Within(MapNotified(S, w), ask)
<1> DEFINE T == Reparent(S, w)
           r == [T.win[w] EXCEPT !.managed = TRUE]
           M == [T EXCEPT !.win[w] = r]
           U == IF S.win[w].pendingMaps THEN M ELSE S
<1>1. Within(T, ask)
  BY ReparentWithin
<1> HIDE DEF T
<1>2. Sound(T) /\ T \in States /\ T.win[w] \in Record /\ T.win \in [Windows -> Record]
  BY <1>1, StateTypes DEF Within, Between, Sound
<1>3. r \in Record
  BY <1>2, RecordChanges
<1>4. FlagsOf(r, T.win[w])
  BY <1>2 DEF FlagsOf, Record
<1>5. [T EXCEPT !.win[w].managed = TRUE] = M
  BY <1>2 DEF States
<1> HIDE DEF r
<1>6. Follows(T, M)
  BY <1>2, <1>3, <1>4, RecordFollows
<1> HIDE DEF M
<1>7. Within(M, ask)
  BY <1>1, <1>6, FollowsWithin
<1>8. Within(U, ask) /\ Sound(U)
  BY <1>7 DEF Within, Between
<1>9. MapNotified(S, w) = Map(U, w)
  BY <1>5 DEF MapNotified, T
<1> HIDE DEF U
<1>10. Follows(U, Map(U, w))
  BY <1>8, MapFlags, FlagsFollow
<1>11. QED
  BY <1>8, <1>9, <1>10, FollowsWithin

\* PrivateWindow::processMap
LEMMA ProcessMapWithin ==
    ASSUME NEW S, NEW ask, NEW w \in Windows, Within(S, ask), S.win[w].stage = "window",
           NEW allowFocus \in BOOLEAN
    PROVE  Within(ProcessMap(S, w, allowFocus), ask)
<1> DEFINE P == Reparent(S, w)
           r == [P.win[w] EXCEPT !.managed = TRUE, !.placed = TRUE]
           T == [P EXCEPT !.win[w] = r]
           A == UpdateAttributes(T, w)
           B == Unminimize(A, w)
           U == LeaveShowDesktopMode(B, w)
           C == SetCurrentDesktop(U, U.win[w].desktop)
           V == IF allowFocus /\ ~OnCurrentDesktop(U, w) THEN C ELSE U
           Z == Show(V, w)
<1>1. Within(P, ask)
  BY ReparentWithin
<1>2. ProcessMap(S, w, allowFocus) \in {V, Z}
  BY DEF ProcessMap
<1> HIDE DEF P
<1>3. Sound(P) /\ P \in States /\ P.win[w] \in Record
  BY <1>1, StateTypes DEF Within, Between, Sound
<1>4. r \in Record
  <2>1. TRUE \in BOOLEAN
    OBVIOUS
  <2>2. QED
    BY <1>3, <2>1, RecordChanges
<1>5. FlagsOf(r, P.win[w])
  BY <1>3 DEF FlagsOf, Record
<1> HIDE DEF r
<1>6. Follows(P, T)
  BY <1>3, <1>4, <1>5, RecordFollows
<1> HIDE DEF T
<1>7. Within(T, ask) /\ Sound(T)
  BY <1>1, <1>6, FollowsWithin DEF Follows, Keeps
<1>8. Follows(T, A)
  BY <1>7, UpdateAttributesFollows
<1> HIDE DEF A
<1>9. Within(A, ask) /\ Sound(A)
  BY <1>7, <1>8, FollowsWithin DEF Follows, Keeps
<1>10. Follows(A, B)
  BY <1>9, UnminimizeFollows
<1> HIDE DEF B
<1>11. Within(B, ask) /\ Sound(B)
  BY <1>9, <1>10, FollowsWithin DEF Follows, Keeps
<1>12. Follows(B, U)
  BY <1>11, LeaveShowDesktopModeFollows
<1> HIDE DEF U
<1>13. Within(U, ask) /\ Sound(U)
  BY <1>11, <1>12, FollowsWithin DEF Follows, Keeps
<1>14. U.win[w].desktop \in Nat
  <2>1. U.win[w] \in Record
    BY <1>13, StateTypes DEF Sound
  <2>2. QED
    BY <2>1, LargestType DEF Record, AnyDesktop
<1>15. Follows(U, C)
  BY <1>13, <1>14, SetCurrentDesktopFollows
<1> HIDE DEF C
<1>16. Within(C, ask) /\ Sound(C)
  BY <1>13, <1>15, FollowsWithin DEF Follows, Keeps
<1>17. Within(V, ask) /\ Sound(V)
  BY <1>13, <1>16
<1> HIDE DEF V
<1>18. Follows(V, Z)
  BY <1>17, ShowFollows
<1> HIDE DEF Z
<1>19. Within(Z, ask)
  BY <1>17, <1>18, FollowsWithin
<1>20. QED
  BY <1>2, <1>17, <1>19

\* The MapRequest of a window that compiz knows, or that is ready
LEMMA MapRequestedWithin ==
    ASSUME NEW S, NEW ask, NEW w \in Windows, Within(S, ask),
           S.win[w].stage = "window" \/ (S.win[w].stage = "created" /\ Ready(S, w)),
           NEW allowFocus \in BOOLEAN
    PROVE  Within(MapRequested(S, w, allowFocus), ask)
<1> DEFINE M == Manage(S, w)
           T == IF S.win[w].stage = "created" THEN M ELSE S
           P == ProcessMap(T, w, allowFocus)
           c == T.win[w].stateHidden /\ ~T.win[w].minimized /\ ~T.win[w].showDesktop
           U == IF c THEN T ELSE P
           r == [U.win[w] EXCEPT !.managed = TRUE]
           X == [U EXCEPT !.win[w] = r]
           Z == SetDesktopProperty(X, w)
<1>1. S.win[w].stage = "created" => Within(M, ask) /\ M.win[w].stage = "window"
  BY ManageWithin
<1>2. MapRequested(S, w, allowFocus) = SetDesktopProperty([U EXCEPT !.win[w].managed = TRUE], w)
  BY Zenon DEF MapRequested
<1> HIDE DEF M
<1>3. Within(T, ask) /\ T.win[w].stage = "window"
  BY <1>1
<1> HIDE DEF T
<1>4. Within(P, ask)
  BY <1>3, ProcessMapWithin
<1> HIDE DEF P, c
<1>5. Within(U, ask) /\ Sound(U)
  BY <1>3, <1>4 DEF Within, Between
<1> HIDE DEF U
<1>6. U \in States /\ U.win[w] \in Record /\ U.win \in [Windows -> Record]
  BY <1>5, StateTypes DEF Sound
<1>7. r \in Record
  BY <1>6, RecordChanges
<1>8. FlagsOf(r, U.win[w])
  BY <1>6 DEF FlagsOf, Record
<1>9. [U EXCEPT !.win[w].managed = TRUE] = X
  BY <1>6 DEF States
<1> HIDE DEF r
<1>10. Follows(U, X) /\ Sound(X)
  BY <1>5, <1>7, <1>8, RecordFollows
<1> HIDE DEF X
<1>11. Within(X, ask)
  BY <1>5, <1>10, FollowsWithin
<1>12. Follows(X, Z)
  BY <1>10, DesktopPropertyFollows
<1> HIDE DEF Z
<1>13. Within(Z, ask)
  BY <1>11, <1>12, FollowsWithin
<1>14. QED
  BY <1>2, <1>9, <1>13 DEF Z

-----------------------------------------------------------------------------
(* Start.                                                                  *)

ManageStep(p, S, w) == Manage(S, w)

ManageFold == INSTANCE DataLemmas WITH Stepped <- ManageStep

\* Before any window is managed
LEMMA BareWithin ==
    ASSUME NEW s \in [Windows -> {NotThere} \cup EarlyClients],
           NEW ask \in [Windows -> {"hidden", "shown"}]
    PROVE  LET S == [win |-> [w \in Windows |-> NoRecord], srv |-> s, queue |-> <<>>,
                     current |-> 0, number |-> Largest, mask |-> FALSE,
                     crossed |-> [w \in Windows |-> FALSE]]
           IN  S \in States /\ Going(S, ask, TRUE, {})
<1> DEFINE S == [win |-> [w \in Windows |-> NoRecord], srv |-> s, queue |-> <<>>,
                 current |-> 0, number |-> Largest, mask |-> FALSE,
                 crossed |-> [w \in Windows |-> FALSE]]
<1>1. NoRecord \in Record
  BY LargestType DEF NoRecord, Record, Stages, AnyDesktop
<1>2. NotThere \in Attributes /\ NotThere.parent = "root" /\ ~NotThere.mapped
  BY LargestType DEF NotThere, Attributes, AnyDesktop
<1>3. ASSUME NEW a \in EarlyClients
      PROVE  a \in Attributes /\ a.parent = "root" /\ (a.mapped => a.exists)
  <2>1. CASE a = NotThere
    BY <1>2, <2>1
  <2>2. CASE a # NotThere
    <3>1. PICK b \in BOOLEAN, t \in {"Withdrawn", "Normal", "Iconic"}, c \in BOOLEAN, d \in BOOLEAN :
              a = [NotThere EXCEPT !.exists = TRUE, !.mapped = b, !.wmState = t,
                                   !.stateHidden = c, !.stateShaded = d]
      <4>1. PICK u \in {<<FALSE, "Withdrawn", FALSE, FALSE>>, <<TRUE, "Normal", FALSE, FALSE>>,
                        <<FALSE, "Iconic", TRUE, FALSE>>, <<TRUE, "Iconic", TRUE, FALSE>>,
                        <<TRUE, "Iconic", TRUE, TRUE>>} :
                a = [NotThere EXCEPT !.exists = TRUE, !.mapped = u[1], !.wmState = u[2],
                                     !.stateHidden = u[3], !.stateShaded = u[4]]
        BY <2>2 DEF EarlyClients
      <4>2. /\ u[1] \in BOOLEAN /\ u[2] \in {"Withdrawn", "Normal", "Iconic"}
            /\ u[3] \in BOOLEAN /\ u[4] \in BOOLEAN
        <5>1. CASE u = <<FALSE, "Withdrawn", FALSE, FALSE>>
          BY <5>1
        <5>2. CASE u = <<TRUE, "Normal", FALSE, FALSE>>
          BY <5>2
        <5>3. CASE u = <<FALSE, "Iconic", TRUE, FALSE>>
          BY <5>3
        <5>4. CASE u = <<TRUE, "Iconic", TRUE, FALSE>>
          BY <5>4
        <5>5. CASE u = <<TRUE, "Iconic", TRUE, TRUE>>
          BY <5>5
        <5>6. QED
          BY <5>1, <5>2, <5>3, <5>4, <5>5
      <4>3. QED
        BY <4>1, <4>2
    <3>2. a \in Attributes
      BY <1>2, <3>1, ZenonT(60) DEF Attributes
    <3>3. a.exists = TRUE /\ a.parent = NotThere.parent
      BY <1>2, <3>1 DEF Attributes
    <3>4. QED
      BY <1>2, <3>2, <3>3
  <2>3. QED
    BY <2>1, <2>2
<1>4. \A x \in Windows : s[x] \in Attributes /\ s[x].parent = "root" /\ (s[x].mapped => s[x].exists)
  BY <1>2, <1>3
<1>5. /\ S.win \in [Windows -> Record] /\ S.srv \in [Windows -> Attributes]
      /\ S.crossed \in [Windows -> BOOLEAN] /\ S.queue \in Seq(Events)
      /\ S.current \in 0..Largest - 1 /\ S.number \in 1..Largest /\ S.mask \in BOOLEAN
  BY <1>1, <1>4, LargestType
<1>6. S \in States
  BY <1>5 DEF States
<1>7. \A x \in Windows : /\ S.win[x].stage = "none" /\ ~S.win[x].showDesktop
                         /\ S.srv[x].parent = "root" /\ (S.srv[x].mapped => S.srv[x].exists)
  BY <1>4 DEF NoRecord
<1>8. S.queue = <<>> /\ Len(S.queue) = 0 /\ S.number = Largest /\ S.current < S.number
  BY LargestType
<1> HIDE DEF S
<1>9. ASSUME NEW x \in Windows PROVE WindowInv(S, x, ask[x]) /\ Here(S, x)
  <2>1. ask[x] # "away"
    OBVIOUS
  <2>2. S.win[x].stage = "none" /\ S.srv[x].parent = "root" /\ 1..Len(S.queue) = {}
    BY <1>7, <1>8
  <2>3. Counted(S, x) /\ Ordered(S, x) /\ CreatedFirst(S, x) /\ Comes(S, x)
    BY <2>2 DEF Counted, Ordered, CreatedFirst, Comes, Coming
  <2>4. ReturnsFirst(S, x) /\ LeavesFirst(S, x) /\ Framed(S, x) /\ Gone(S, x) /\ Here(S, x)
    BY <2>2 DEF ReturnsFirst, LeavesFirst, Framed, Gone, Here
  <2>5. LeftOrGivenBack(S, x, ask[x])
    BY <2>1 DEF LeftOrGivenBack
  <2>6. QED
    BY <2>3, <2>4, <2>5 DEF WindowInv, Uncounted
<1>10. Sound(S) /\ Placed(S) /\ ModeCovers(S)
  BY <1>6, <1>7, <1>8 DEF Sound, MappedExist, Placed, ModeCovers
<1>11. Started(S, {})
  BY <1>7, <1>8 DEF Started
<1>12. Going(S, ask, TRUE, {})
  BY <1>9, <1>10, <1>11 DEF Going, Within, Between
<1>13. QED
  BY <1>6, <1>12 DEF S

\* The last window of those that are managed at the start
LEMMA ManageNext ==
    ASSUME NEW S, NEW ask, NEW D \in SUBSET Windows, NEW w \in D,
           Going(S, ask, TRUE, D \ {w})
    PROVE  Going(Manage(S, w), ask, TRUE, D)
<1>1. Within(S, ask) /\ Started(S, D \ {w}) /\ w \in Windows
  BY DEF Going
<1>2. Ready(S, w)
  <2>1. S.win[w].stage = "none" /\ S.srv[w].parent # "other"
    BY <1>1 DEF Started
  <2>2. ASSUME NEW i \in 1..Len(S.queue)
        PROVE  /\ ~Is(S.queue[i], "CreateNotify", w) /\ ~WmUnmap(S.queue[i], w)
               /\ ~Leaves(S.queue[i], w) /\ ~Returns(S.queue[i], w)
    BY <1>1 DEF Started, Is, WmUnmap, Leaves, Returns
  <2>3. QED
    BY <2>1, <2>2 DEF Ready
<1>3. Begun(S, TRUE, D, w)
  BY <1>1 DEF Begun
<1>4. QED
  BY <1>1, <1>2, <1>3, ManageGoing

\* The invariant holds when compiz has started.
LEMMA InitIInv == Init => IInv
<1> SUFFICES ASSUME Init PROVE IInv
  OBVIOUS
<1>1. PICK e \in [course.windows -> EarlyClients] :
          LET s == [w \in Windows |-> IF w \in course.windows THEN e[w] ELSE NotThere]
              S == [win |-> [w \in Windows |-> NoRecord], srv |-> s, queue |-> <<>>,
                    current |-> 0, number |-> Largest, mask |-> FALSE,
                    crossed |-> [w \in Windows |-> FALSE]]
              T == ForEach(Manage, S, {w \in Windows : s[w].exists})
          IN  /\ win = T.win /\ srv = T.srv /\ queue = T.queue
              /\ current = 0 /\ number = Largest /\ mask = FALSE
              /\ crossed = T.crossed
              /\ asked = [w \in Windows |-> IF s[w].wmState = "Withdrawn"
                                            THEN "hidden" ELSE "shown"]
  BY Zenon DEF Init
<1> DEFINE s == [w \in Windows |-> IF w \in course.windows THEN e[w] ELSE NotThere]
           S == [win |-> [w \in Windows |-> NoRecord], srv |-> s, queue |-> <<>>,
                 current |-> 0, number |-> Largest, mask |-> FALSE,
                 crossed |-> [w \in Windows |-> FALSE]]
           W == {w \in Windows : s[w].exists}
           T == ForEach(Manage, S, W)
           V == [D \in SUBSET W |-> {U \in States : Going(U, asked, TRUE, D)}]
<1>2. /\ win = T.win /\ srv = T.srv /\ queue = T.queue
      /\ current = 0 /\ number = Largest /\ mask = FALSE /\ crossed = T.crossed
      /\ asked = [w \in Windows |-> IF s[w].wmState = "Withdrawn" THEN "hidden" ELSE "shown"]
  BY Zenon, <1>1
<1>3. /\ course.windows \in SUBSET Windows
      /\ course \in [windows : SUBSET Windows, kinds : SUBSET AllKinds, requests : Nat]
  BY LifecycleAssumption DEF Init
<1>4. s \in [Windows -> {NotThere} \cup EarlyClients]
  BY <1>3
<1>5. asked \in [Windows -> {"hidden", "shown"}]
  BY <1>2
<1>6. W \in SUBSET Windows
  OBVIOUS
<1>7. T = ManageFold!Folded(0, W, S)
  BY DEF ForEach, FoldSet, MapThenFoldSet, ManageFold!Folded, ManageStep
<1> HIDE DEF s, W, T
<1>8. S \in States /\ Going(S, asked, TRUE, {})
  BY <1>4, <1>5, BareWithin
<1> HIDE DEF S
<1>9. IsFiniteSet(W)
  BY <1>6, FiniteWindows
<1>10. S \in V[{}]
  BY <1>8
<1>11. \A D \in SUBSET W : \A x \in D : \A v \in V[D \ {x}] : ManageStep(0, v, x) \in V[D]
  <2>1. SUFFICES ASSUME NEW D \in SUBSET W, NEW x \in D, NEW v \in V[D \ {x}]
                 PROVE  ManageStep(0, v, x) \in V[D]
    OBVIOUS
  <2>2. D \in SUBSET Windows /\ Going(v, asked, TRUE, D \ {x})
    BY <1>6
  <2>3. Going(Manage(v, x), asked, TRUE, D)
    BY <2>2, ManageNext
  <2>4. Manage(v, x) \in States
    BY <2>3 DEF Going, Within, Between, Sound
  <2>5. QED
    BY <2>3, <2>4 DEF ManageStep
<1> HIDE DEF V
<1>12. ManageFold!Folded(0, W, S) \in V[W]
  BY <1>9, <1>10, <1>11, ManageFold!FoldReaches DEF IsFiniteSet, ManageFold!IsFiniteSet
<1>13. Going(T, asked, TRUE, W) /\ T \in States
  BY <1>7, <1>12 DEF V
<1>14. Within(T, asked) /\ Started(T, W) /\ Sound(T)
  BY <1>13 DEF Going, Within, Between
<1>15. /\ S0.win = T.win /\ S0.srv = T.srv /\ S0.queue = T.queue /\ S0.crossed = T.crossed
       /\ S0.current = 0 /\ S0.number = Largest /\ S0.mask = FALSE
  BY <1>2 DEF S0
<1>16. S0 \in States
  <2>1. /\ T.win \in [Windows -> Record] /\ T.srv \in [Windows -> Attributes]
        /\ T.queue \in Seq(Events) /\ T.crossed \in [Windows -> BOOLEAN]
    BY <1>13 DEF States
  <2>2. /\ win \in [Windows -> Record] /\ srv \in [Windows -> Attributes]
        /\ queue \in Seq(Events) /\ crossed \in [Windows -> BOOLEAN]
    BY <1>2, <2>1
  <2>3. current = 0 /\ number = Largest /\ mask = FALSE
    BY <1>2
  <2>4. current \in 0..Largest - 1 /\ number \in 1..Largest /\ mask \in BOOLEAN
    <3>1. 0 \in 0..Largest - 1 /\ Largest \in 1..Largest
      BY LargestType
    <3>2. current \in 0..Largest - 1 /\ number \in 1..Largest
      BY <2>3, <3>1
    <3>3. QED
      BY <2>3, <3>2
  <2>5. QED
    BY <2>2, <2>4 DEF S0, States
<1>17. \A x \in Windows : WindowInv(S0, x, asked[x])
  <2>1. \A x \in Windows : SameBooks(T, S0, x)
    BY <1>15 DEF SameBooks
  <2>2. QED
    BY <1>14, <2>1, SameInv DEF Within, Between
<1>18. Sound(S0)
  BY <1>14, <1>15, <1>16 DEF Sound, MappedExist
<1>19. Placed(S0)
  BY <1>14, <1>15, LargestType DEF Within, Between, Placed, Started
<1>20. ModeCovers(S0)
  BY <1>14, <1>15 DEF ModeCovers, Started
<1>21. QED
  BY <1>3, <1>5, <1>17, <1>18, <1>19, <1>20 DEF IInv, Between

=============================================================================
