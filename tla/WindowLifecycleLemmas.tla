------------------------ MODULE WindowLifecycleLemmas ------------------------
(***************************************************************************)
(* The inductive invariant of the life of windows, and what the operators  *)
(* that show, hide, minimize and move windows keep of it, for every number *)
(* of windows and desktops.  WindowLifecycleProofs has the theorems.       *)
(*                                                                         *)
(* The invariant is about the record S of the handlers.  Its larger part   *)
(* says what may be in the queue, in which order and for which windows:    *)
(* that is what compiz relies on when it acts on its own flags.            *)
(***************************************************************************)
EXTENDS WindowLifecycle, DataLemmas, FiniteSetTheorems

-----------------------------------------------------------------------------
(* Types.                                                                  *)

\* The desktops a window may be on, as far as its type says
AnyDesktop == 0..Largest

Record ==
    [stage : Stages, viewable : BOOLEAN, pendingMaps : BOOLEAN,
     pendingUnmaps : Nat, managed : BOOLEAN, unmanaging : BOOLEAN,
     frame : BOOLEAN, placed : BOOLEAN, minimized : BOOLEAN,
     showDesktop : BOOLEAN, shaded : BOOLEAN, stateShaded : BOOLEAN,
     stateHidden : BOOLEAN, rolled : BOOLEAN, desktop : AnyDesktop]

Attributes ==
    [exists : BOOLEAN, mapped : BOOLEAN, parent : {"root", "wrapper", "other"},
     frameMapped : BOOLEAN, wmState : {"Withdrawn", "Normal", "Iconic"},
     selected : BOOLEAN, stateShaded : BOOLEAN, stateHidden : BOOLEAN,
     desktop : AnyDesktop]

WindowEvents ==
    [type : {"CreateNotify", "DestroyNotify", "MapNotify", "UnmapNotify",
             "MapRequest", "Iconify", "Deiconify", "Active"},
     win : Windows, arg : {"client", "wm"}]

Events ==
    WindowEvents
    \cup [type : {"SyntheticUnmap"}, win : Windows, arg : {"client"}]
    \cup [type : {"ReparentNotify"}, win : Windows, arg : {"root", "other"}]
    \cup [type : {"Shade"}, win : Windows, arg : BOOLEAN]
    \cup [type : {"WinDesktop"}, win : Windows, arg : AnyDesktop]
    \cup [type : {"CurrentDesktop"}, win : {NoWindow}, arg : 0..Largest - 1]
    \cup [type : {"NumberOfDesktops"}, win : {NoWindow}, arg : Desktops]
    \cup [type : {"ShowingDesktop"}, win : {NoWindow}, arg : BOOLEAN]

States ==
    [win : [Windows -> Record], srv : [Windows -> Attributes], queue : Seq(Events),
     current : 0..Largest - 1, number : 1..Largest, mask : BOOLEAN,
     crossed : [Windows -> BOOLEAN]]

-----------------------------------------------------------------------------
(* The parts of the inductive invariant.                                   *)

\* Only a window that exists is mapped.
MappedExist(S) == \A w \in Windows : S.srv[w].mapped => S.srv[w].exists

\* OnSomeDesktop and ModeCoversWindows, of S
Placed(S) ==
    /\ S.current < S.number
    /\ \A w \in Windows : S.win[w].stage = "window" =>
           S.win[w].desktop < S.number \/ S.win[w].desktop = AllDesktops

ModeCovers(S) ==
    ~S.mask => \A w \in Windows : S.win[w].stage = "window" => ~S.win[w].showDesktop

WmUnmap(e, w) == e.type = "UnmapNotify" /\ e.win = w /\ e.arg = "wm"

ClientUnmap(e, w) ==
    e.type \in {"UnmapNotify", "SyntheticUnmap"} /\ e.win = w /\ e.arg = "client"

Leaves(e, w) == e.type = "ReparentNotify" /\ e.win = w /\ e.arg = "other"

Returns(e, w) == e.type = "ReparentNotify" /\ e.win = w /\ e.arg = "root"

Is(e, type, w) == e.type = type /\ e.win = w

\* Where the unmaps of compiz are in the queue, and how many there are
Unmaps(q, w) == {i \in 1..Len(q) : WmUnmap(q[i], w)}

Count(q, w) == Cardinality(Unmaps(q, w))

\* UnmapsCounted, of S
Counted(S, w) ==
    S.win[w].stage = "window" /\ ~S.crossed[w] =>
        S.win[w].pendingUnmaps = Count(S.queue, w)

\* No unmap of compiz is behind one of the client.
Ordered(S, w) ==
    S.win[w].stage = "window" /\ ~S.crossed[w] =>
        \A i, j \in 1..Len(S.queue) :
            i < j /\ ClientUnmap(S.queue[i], w) => ~WmUnmap(S.queue[j], w)

\* compiz hears of the creation of a window before it hears anything else.
CreatedFirst(S, w) ==
    \A i \in 1..Len(S.queue) : Is(S.queue[i], "CreateNotify", w) =>
        /\ S.win[w].stage = "none"
        /\ \A j \in 1..i - 1 : S.queue[j].win # w

\* compiz has not made a CompWindow of it yet.
Coming(S, w) ==
    \/ S.win[w].stage = "created"
    \/ \E i \in 1..Len(S.queue) : Is(S.queue[i], "CreateNotify", w)

\* compiz has not unmapped a window it does not know; the window has not left
\* when it asks to be mapped, and is away when it has.
Comes(S, w) ==
    Coming(S, w) =>
        \A i \in 1..Len(S.queue) :
            /\ ~WmUnmap(S.queue[i], w)
            /\ ~S.crossed[w] =>
                   /\ Is(S.queue[i], "MapRequest", w) => S.srv[w].parent # "other"
                   /\ Leaves(S.queue[i], w) => S.srv[w].parent = "other"

\* A window that comes back is unknown, and compiz has no unmap of it left.
ReturnsFirst(S, w) ==
    ~S.crossed[w] =>
        \A i \in 1..Len(S.queue) : Returns(S.queue[i], w) =>
            /\ i = 1 /\ S.win[w].stage # "window" /\ S.srv[w].parent = "root"
            /\ \A j \in 1..Len(S.queue) :
                   ~WmUnmap(S.queue[j], w) /\ ~Leaves(S.queue[j], w)

\* A window that leaves was in no wrapper since, and only its own unmap is
\* handled before compiz hears of it.
LeavesFirst(S, w) ==
    S.win[w].stage = "window" /\ ~S.crossed[w] =>
        /\ S.srv[w].parent = "other" =>
               \E i \in 1..Len(S.queue) : Leaves(S.queue[i], w)
        /\ \A i \in 1..Len(S.queue) : Leaves(S.queue[i], w) =>
               /\ S.srv[w].parent # "wrapper"
               /\ i = 1 \/ (i = 2 /\ Is(S.queue[1], "UnmapNotify", w))

\* A window is in a wrapper only while compiz keeps a frame, and a frame is
\* empty only until compiz hears that the window has left.
Framed(S, w) ==
    S.srv[w].exists =>
        /\ S.srv[w].parent = "wrapper" => S.win[w].stage = "window" /\ S.win[w].frame
        /\ S.win[w].stage = "window" /\ S.win[w].frame /\ S.srv[w].parent # "wrapper" =>
               \E i \in 1..Len(S.queue) : Leaves(S.queue[i], w)

\* A window whose end is reported is gone, by its client's request.
Gone(S, w) ==
    \A i \in 1..Len(S.queue) : Is(S.queue[i], "DestroyNotify", w) =>
        ~S.srv[w].exists /\ (S.queue[i].arg = "client" \/ S.crossed[w])

\* A window that was taken away is there, or compiz will put it back when it
\* hears of it.
LeftOrGivenBack(S, w, ask) ==
    ask = "away" /\ S.srv[w].exists /\ ~S.crossed[w] =>
        \/ S.srv[w].parent = "other"
        \/ /\ S.win[w].stage = "window" /\ ~S.win[w].frame
           /\ \E i \in 1..Len(S.queue) : Leaves(S.queue[i], w)

\* All of it, for a window and what its client asked for last
Uncounted(S, w, ask) ==
    /\ Ordered(S, w) /\ CreatedFirst(S, w) /\ Comes(S, w)
    /\ ReturnsFirst(S, w) /\ LeavesFirst(S, w) /\ Framed(S, w) /\ Gone(S, w)
    /\ LeftOrGivenBack(S, w, ask)

WindowInv(S, w, ask) == Counted(S, w) /\ Uncounted(S, w, ask)

\* While compiz handles an event that tells no unmap and no reparenting, the
\* windows it knows are where it put them.
Here(S, w) ==
    S.win[w].stage = "window" /\ ~S.crossed[w] =>
        /\ S.srv[w].parent # "other"
        /\ \A i \in 1..Len(S.queue) : ~Leaves(S.queue[i], w)

Sound(S) == S \in States /\ MappedExist(S)

\* Between two events, and within the handler of one
Between(S, ask) ==
    /\ Sound(S) /\ Placed(S) /\ ModeCovers(S)
    /\ \A w \in Windows : WindowInv(S, w, ask[w])

Within(S, ask) ==
    Between(S, ask) /\ \A w \in Windows : Here(S, w)

IInv ==
    /\ Between(S0, asked)
    /\ asked \in [Windows -> {"hidden", "shown", "away"}]
    /\ course \in [windows : SUBSET Windows, kinds : SUBSET AllKinds, requests : Nat]

-----------------------------------------------------------------------------
(* What the operators that show and hide windows have in common: they      *)
(* leave stages, frames, desktops and parents alone, and their events join  *)
(* the end of the queue.                                                   *)

\* The parts of a window that showing and hiding leave alone
SameWindow(S, T, x) ==
    /\ T.win[x].stage = S.win[x].stage /\ T.win[x].frame = S.win[x].frame
    /\ T.win[x].desktop = S.win[x].desktop
    /\ T.srv[x].exists = S.srv[x].exists /\ T.srv[x].parent = S.srv[x].parent
    /\ S.crossed[x] => T.crossed[x]

\* An event that compiz' own maps and unmaps make: no unmap of a window it
\* does not know, and none behind one of the client unless requests cross.
Answers(S, T, e) ==
    /\ e.win \in Windows /\ e.arg = "wm"
    /\ \/ e.type = "MapNotify"
       \/ /\ e.type = "UnmapNotify" /\ S.win[e.win].stage = "window"
          /\ ~T.crossed[e.win] => ~ClientUnmaps(S, e.win)

Grows(S, T) ==
    /\ Len(S.queue) <= Len(T.queue)
    /\ \A i \in 1..Len(S.queue) : T.queue[i] = S.queue[i]
    /\ \A i \in Len(S.queue) + 1..Len(T.queue) : Answers(S, T, T.queue[i])

\* Unmaps are counted as they join the queue.
Counts(S, T) ==
    \A x \in Windows : ~T.crossed[x] /\ S.srv[x].parent # "other" =>
        T.win[x].pendingUnmaps + Count(S.queue, x) = S.win[x].pendingUnmaps + Count(T.queue, x)

Keeps(S, T) ==
    /\ Sound(T) /\ T.number = S.number
    /\ Placed(S) => Placed(T)
    /\ \A x \in Windows : SameWindow(S, T, x)
    /\ Grows(S, T) /\ Counts(S, T)

\* ... and no window enters show desktop mode.
Follows(S, T) ==
    /\ Keeps(S, T)
    /\ ModeCovers(S) => ModeCovers(T)
    /\ \A x \in Windows : T.win[x].showDesktop => S.win[x].showDesktop

\* Nothing but flags has changed.
FlagsOnly(S, T) ==
    /\ Sound(T) /\ T.number = S.number /\ T.current = S.current
    /\ T.mask = S.mask /\ T.queue = S.queue
    /\ \A x \in Windows : /\ SameWindow(S, T, x)
                          /\ T.win[x].pendingUnmaps = S.win[x].pendingUnmaps
                          /\ T.win[x].showDesktop => S.win[x].showDesktop

\* A finite set of naturals has a bound.
LEMMA FiniteBounded ==
    ASSUME NEW D \in SUBSET Nat, IsFiniteSet(D)
    PROVE  \E b \in Nat : \A x \in D : x <= b
<1>1. PICK n \in Nat : \E f \in Surjection(1..n, D) : TRUE
  BY FS_NatSurjection DEF ExistsSurjection
<1>2. PICK f \in Surjection(1..n, D) : TRUE
  BY <1>1
<1>3. f \in [1..n -> D] /\ \A x \in D : \E i \in 1..n : f[i] = x
  BY <1>2 DEF Surjection
<1> DEFINE Bounds(k, b) == \A i \in 1..n : i <= k => f[i] <= b
           T == {k \in Nat : \E b \in Nat : Bounds(k, b)}
<1>4. 0 \in T
  OBVIOUS
<1>5. ASSUME NEW k \in Nat, k \in T PROVE k + 1 \in T
  <2>1. PICK b \in Nat : Bounds(k, b)
    BY <1>5
  <2>2. CASE k + 1 \in 1..n
    <3>1. f[k + 1] \in Nat
      BY <1>3, <2>2
    <3>2. PICK c \in Nat : b <= c /\ f[k + 1] <= c
      BY <3>1
    <3>3. ASSUME NEW i \in 1..n, i <= k + 1 PROVE f[i] <= c
      <4>1. f[i] \in Nat
        BY <1>3
      <4>2. i <= k \/ i = k + 1
        BY <3>3
      <4>3. QED
        BY <2>1, <3>2, <4>1, <4>2
    <3>4. Bounds(k + 1, c)
      BY <3>3
    <3>5. QED
      BY SMTT(30), <3>4
  <2>3. CASE k + 1 \notin 1..n
    <3>1. Bounds(k + 1, b)
      BY <2>1, <2>3
    <3>2. QED
      BY SMTT(30), <3>1
  <2>4. QED
    BY <2>2, <2>3
<1>6. n \in T
  <2> HIDE DEF T
  <2>1. QED
    BY <1>4, <1>5, NatInduct
<1>7. PICK b \in Nat : Bounds(n, b)
  BY <1>6
<1>8. QED
  BY <1>3, <1>7

\* The largest desktop number.
LEMMA LargestType == Largest \in Nat \ {0} /\ \A d \in Desktops : d <= Largest
<1>1. PICK n \in Desktops : TRUE
  BY LifecycleAssumption
<1>2. \E x \in Desktops : \A y \in Desktops : y <= x
  <2>1. \E b \in Nat : \A x \in Desktops : x <= b
    BY LifecycleAssumption, FiniteBounded
  <2>2. QED
    BY <1>1, <2>1, GreatestInteger, LifecycleAssumption
<1>3. QED
  BY <1>2, LifecycleAssumption DEF Largest, Max

\* The unmaps of compiz in a queue are finitely many.
LEMMA CountType ==
    ASSUME NEW q \in Seq(Events), NEW w
    PROVE  IsFiniteSet(Unmaps(q, w)) /\ Count(q, w) \in Nat
<1>1. PICK n \in Nat : n = Len(q)
  OBVIOUS
<1>2. IsFiniteSet(1..n)
  BY FS_Interval
<1>3. Unmaps(q, w) \in SUBSET (1..n)
  BY <1>1 DEF Unmaps
<1>4. IsFiniteSet(Unmaps(q, w))
  BY <1>2, <1>3, FS_Subset
<1>5. QED
  BY <1>4, FS_CardinalityType DEF Count

\* An event at the end counts when it is an unmap of compiz.
LEMMA CountAppend ==
    ASSUME NEW q \in Seq(Events), NEW e \in Events, NEW w
    PROVE  Count(Append(q, e), w) = IF WmUnmap(e, w) THEN Count(q, w) + 1 ELSE Count(q, w)
<1>1. PICK n \in Nat : n = Len(q)
  OBVIOUS
<1>2. IsFiniteSet(Unmaps(q, w)) /\ n + 1 \notin Unmaps(q, w)
  <2>1. n + 1 \notin Unmaps(q, w)
    BY <1>1 DEF Unmaps
  <2>2. QED
    BY <2>1, CountType
<1>3. Len(Append(q, e)) = n + 1 /\ Append(q, e)[n + 1] = e
      /\ \A i \in 1..n : Append(q, e)[i] = q[i]
  BY <1>1
<1>4. Unmaps(Append(q, e), w) = IF WmUnmap(e, w) THEN Unmaps(q, w) \cup {n + 1} ELSE Unmaps(q, w)
  BY <1>1, <1>3 DEF Unmaps
<1>5. QED
  BY <1>2, <1>4, FS_AddElement DEF Count

\* The first event counts when it is an unmap of compiz.
LEMMA CountTail ==
    ASSUME NEW q \in Seq(Events), q # <<>>, NEW w
    PROVE  Count(q, w) = IF WmUnmap(q[1], w) THEN Count(Tail(q), w) + 1 ELSE Count(Tail(q), w)
<1>1. PICK n \in Nat : n = Len(q) /\ n > 0
  OBVIOUS
<1>2. Len(Tail(q)) = n - 1 /\ \A i \in 1..n - 1 : Tail(q)[i] = q[i + 1]
  BY <1>1
<1> DEFINE A == Unmaps(Tail(q), w)
           B == Unmaps(q, w) \ {1}
           f == [i \in A |-> i + 1]
<1>3. f \in Bijection(A, B)
  <2>1. f \in [A -> B]
    BY <1>1, <1>2 DEF Unmaps
  <2>2. \A i, j \in A : f[i] = f[j] => i = j
    BY <1>1, <1>2 DEF Unmaps
  <2>3. \A k \in B : \E i \in A : f[i] = k
    <3>1. SUFFICES ASSUME NEW k \in B PROVE k - 1 \in A /\ k - 1 + 1 = k
      OBVIOUS
    <3>2. k \in 1..n /\ k # 1 /\ WmUnmap(q[k], w)
      BY <1>1 DEF Unmaps
    <3>3. k - 1 \in 1..n - 1 /\ Tail(q)[k - 1] = q[k]
      BY <1>2, <3>2
    <3>4. QED
      BY <1>2, <3>2, <3>3 DEF Unmaps
  <2>4. QED
    BY <2>1, <2>2, <2>3 DEF Bijection, Injection, Surjection, IsInjective
<1>4. IsFiniteSet(A) /\ IsFiniteSet(Unmaps(q, w))
  <2>1. Tail(q) \in Seq(Events)
    OBVIOUS
  <2>2. QED
    BY <2>1, CountType
<1>5. Cardinality(B) = Cardinality(A)
  BY <1>3, <1>4, FS_Bijection DEF ExistsBijection
<1>6. (1 \in Unmaps(q, w)) <=> WmUnmap(q[1], w)
  BY <1>1 DEF Unmaps
<1>7. Cardinality(B) = IF 1 \in Unmaps(q, w) THEN Count(q, w) - 1 ELSE Count(q, w)
  BY <1>4, FS_RemoveElement DEF Count
<1>8. Cardinality(A) = Count(Tail(q), w) /\ Count(q, w) \in Nat /\ Count(Tail(q), w) \in Nat
  <2>1. Tail(q) \in Seq(Events)
    OBVIOUS
  <2>2. Cardinality(A) = Count(Tail(q), w)
    BY DEF Count
  <2>3. QED
    BY <2>1, <2>2, CountType
<1>9. QED
  BY <1>5, <1>6, <1>7, <1>8

\* Nothing and no part of what shows windows is left out by a sequence of
\* steps: Follows is a preorder.
LEMMA FollowsRefl ==
    ASSUME NEW S, Sound(S)
    PROVE  Follows(S, S)
BY DEF Follows, Keeps, SameWindow, Grows, Counts, Sound, States

\* What Keeps allows, after what it allows.
LEMMA KeepsTrans ==
    ASSUME NEW S, NEW T, NEW U, Sound(S), Keeps(S, T), Keeps(T, U)
    PROVE  Keeps(S, U)
<1>1. Sound(T) /\ Sound(U)
  BY DEF Keeps
<1>2. \A x \in Windows : SameWindow(S, T, x) /\ SameWindow(T, U, x)
  BY DEF Keeps
<1>3. \A x \in Windows : SameWindow(S, U, x)
  BY <1>2 DEF SameWindow
<1>4. PICK m, n, k \in Nat : m = Len(S.queue) /\ n = Len(T.queue) /\ k = Len(U.queue)
  <2>1. S.queue \in Seq(Events) /\ T.queue \in Seq(Events) /\ U.queue \in Seq(Events)
    BY <1>1 DEF Sound, States
  <2>2. QED
    BY <2>1
<1>5. /\ m <= n /\ \A i \in 1..m : T.queue[i] = S.queue[i]
      /\ \A i \in m + 1..n : Answers(S, T, T.queue[i])
  BY <1>4 DEF Keeps, Grows
<1>6. /\ n <= k /\ \A i \in 1..n : U.queue[i] = T.queue[i]
      /\ \A i \in n + 1..k : Answers(T, U, U.queue[i])
  BY <1>4 DEF Keeps, Grows
<1>7. \A x \in Windows : U.crossed[x] \in BOOLEAN /\ (T.crossed[x] => U.crossed[x])
                         /\ S.win[x].stage = T.win[x].stage
  BY <1>1, <1>2 DEF Sound, States, SameWindow
<1>8. \A w : ClientUnmaps(S, w) => ClientUnmaps(T, w)
  <2>1. SUFFICES ASSUME NEW w, ClientUnmaps(S, w) PROVE ClientUnmaps(T, w)
    OBVIOUS
  <2>2. PICK i \in 1..m : ClientUnmap(S.queue[i], w)
    BY <1>4, <2>1 DEF ClientUnmaps, ClientUnmap
  <2>3. i \in 1..n /\ ClientUnmap(T.queue[i], w)
    BY <1>5, <2>2
  <2>4. QED
    BY <1>4, <2>3 DEF ClientUnmaps, ClientUnmap
<1>9. ASSUME NEW i \in m + 1..k PROVE Answers(S, U, U.queue[i])
  <2>1. CASE i <= n
    <3>1. U.queue[i] = T.queue[i] /\ Answers(S, T, T.queue[i])
      BY <1>5, <1>6, <2>1
    <3>2. QED
      BY <1>7, <3>1 DEF Answers
  <2>2. CASE i > n
    <3>1. Answers(T, U, U.queue[i])
      BY <1>6, <2>2
    <3>2. QED
      BY <1>7, <1>8, <3>1 DEF Answers
  <2>3. QED
    BY <2>1, <2>2
<1>10. Grows(S, U)
  BY <1>4, <1>5, <1>6, <1>9 DEF Grows
<1>11. Counts(S, U)
  <2>1. SUFFICES ASSUME NEW x \in Windows, ~U.crossed[x], S.srv[x].parent # "other"
                 PROVE  U.win[x].pendingUnmaps + Count(S.queue, x)
                          = S.win[x].pendingUnmaps + Count(U.queue, x)
    BY DEF Counts
  <2>2. ~T.crossed[x] /\ T.srv[x].parent # "other"
    BY <1>2, <2>1 DEF SameWindow
  <2>3. /\ T.win[x].pendingUnmaps + Count(S.queue, x) = S.win[x].pendingUnmaps + Count(T.queue, x)
        /\ U.win[x].pendingUnmaps + Count(T.queue, x) = T.win[x].pendingUnmaps + Count(U.queue, x)
    BY <2>1, <2>2 DEF Keeps, Counts
  <2>4. S.queue \in Seq(Events) /\ T.queue \in Seq(Events) /\ U.queue \in Seq(Events)
    BY <1>1 DEF Sound, States
  <2>5. Count(S.queue, x) \in Nat /\ Count(T.queue, x) \in Nat /\ Count(U.queue, x) \in Nat
    BY <2>4, CountType
  <2>6. S.win[x].pendingUnmaps \in Nat /\ T.win[x].pendingUnmaps \in Nat /\ U.win[x].pendingUnmaps \in Nat
    BY <1>1, <2>1 DEF Sound, States, Record
  <2>7. QED
    BY <2>3, <2>5, <2>6
<1>12. QED
  BY <1>1, <1>3, <1>10, <1>11 DEF Keeps

\* What Follows allows, after what it allows.
LEMMA FollowsTrans ==
    ASSUME NEW S, NEW T, NEW U, Sound(S), Follows(S, T), Follows(T, U)
    PROVE  Follows(S, U)
<1>1. Keeps(S, T) /\ Keeps(T, U)
  BY DEF Follows
<1>2. Keeps(S, U)
  BY <1>1, KeepsTrans
<1>3. QED
  BY <1>2 DEF Follows

\* A change of flags is one that Follows allows.
LEMMA FlagsFollow ==
    ASSUME NEW S, NEW T, Sound(S), FlagsOnly(S, T)
    PROVE  Follows(S, T)
<1>1. \A x \in Windows : SameWindow(S, T, x)
  BY DEF FlagsOnly
<1>2. Placed(S) => Placed(T)
  BY <1>1 DEF FlagsOnly, Placed, SameWindow
<1>3. ModeCovers(S) => ModeCovers(T)
  BY <1>1 DEF FlagsOnly, ModeCovers, SameWindow
<1>4. Grows(S, T)
  <2>1. S.queue \in Seq(Events) /\ T.queue = S.queue
    BY DEF FlagsOnly, Sound, States
  <2>2. PICK n \in Nat : n = Len(S.queue)
    BY <2>1
  <2>3. QED
    BY <2>1, <2>2 DEF Grows
<1>5. Counts(S, T)
  BY DEF FlagsOnly, Counts
<1>6. QED
  BY <1>1, <1>2, <1>3, <1>4, <1>5 DEF Follows, Keeps, FlagsOnly

-----------------------------------------------------------------------------
(* Changes of one window.                                                  *)

\* S with the records of w replaced
Updated(S, w, r, a, c) == [S EXCEPT !.win[w] = r, !.srv[w] = a, !.crossed[w] = c]

\* What a replacement changes and what it leaves.
LEMMA UpdatedFacts ==
    ASSUME NEW S \in States, NEW w \in Windows,
           NEW r \in Record, NEW a \in Attributes, NEW c \in BOOLEAN
    PROVE  /\ Updated(S, w, r, a, c) \in States
           /\ Updated(S, w, r, a, c).win[w] = r
           /\ Updated(S, w, r, a, c).srv[w] = a
           /\ Updated(S, w, r, a, c).crossed[w] = c
           /\ \A x \in Windows \ {w} :
                  /\ Updated(S, w, r, a, c).win[x] = S.win[x]
                  /\ Updated(S, w, r, a, c).srv[x] = S.srv[x]
                  /\ Updated(S, w, r, a, c).crossed[x] = S.crossed[x]
           /\ Updated(S, w, r, a, c).queue = S.queue
           /\ Updated(S, w, r, a, c).current = S.current
           /\ Updated(S, w, r, a, c).number = S.number
           /\ Updated(S, w, r, a, c).mask = S.mask
BY DEF States, Updated

\* What is in a state.
LEMMA StateTypes ==
    ASSUME NEW S \in States, NEW w \in Windows
    PROVE  /\ S.win[w] \in Record /\ S.srv[w] \in Attributes /\ S.crossed[w] \in BOOLEAN
           /\ S.win \in [Windows -> Record] /\ S.srv \in [Windows -> Attributes]
           /\ S.crossed \in [Windows -> BOOLEAN]
           /\ S.queue \in Seq(Events) /\ S.current \in 0..Largest - 1
           /\ S.number \in 1..Largest /\ S.mask \in BOOLEAN
BY DEF States

\* What is in a window's record.
LEMMA RecordTypes ==
    ASSUME NEW r \in Record
    PROVE  /\ r.stage \in Stages /\ r.viewable \in BOOLEAN /\ r.pendingMaps \in BOOLEAN
           /\ r.pendingUnmaps \in Nat /\ r.managed \in BOOLEAN /\ r.unmanaging \in BOOLEAN
           /\ r.frame \in BOOLEAN /\ r.placed \in BOOLEAN /\ r.minimized \in BOOLEAN
           /\ r.showDesktop \in BOOLEAN /\ r.shaded \in BOOLEAN /\ r.stateShaded \in BOOLEAN
           /\ r.stateHidden \in BOOLEAN /\ r.rolled \in BOOLEAN /\ r.desktop \in AnyDesktop
BY DEF Record

\* What the server says of a window.
LEMMA AttributeTypes ==
    ASSUME NEW a \in Attributes
    PROVE  /\ a.exists \in BOOLEAN /\ a.mapped \in BOOLEAN
           /\ a.parent \in {"root", "wrapper", "other"} /\ a.frameMapped \in BOOLEAN
           /\ a.wmState \in {"Withdrawn", "Normal", "Iconic"} /\ a.selected \in BOOLEAN
           /\ a.stateShaded \in BOOLEAN /\ a.stateHidden \in BOOLEAN
           /\ a.desktop \in AnyDesktop
BY DEF Attributes

\* The changes of a window's record that compiz makes keep its type.
LEMMA RecordChanges ==
    ASSUME NEW r \in Record
    PROVE  /\ \A n \in Nat : [r EXCEPT !.pendingUnmaps = n] \in Record
           /\ \A d \in AnyDesktop : [r EXCEPT !.desktop = d] \in Record
           /\ \A c \in BOOLEAN :
                  /\ [r EXCEPT !.shaded = c] \in Record
                  /\ [r EXCEPT !.frame = c] \in Record
                  /\ [r EXCEPT !.minimized = c] \in Record
                  /\ [r EXCEPT !.showDesktop = c] \in Record
                  /\ [r EXCEPT !.managed = c] \in Record
                  /\ [r EXCEPT !.stateShaded = c] \in Record
                  /\ [r EXCEPT !.stateHidden = c] \in Record
                  /\ [r EXCEPT !.placed = c] \in Record
                  /\ [r EXCEPT !.rolled = c] \in Record
           /\ \A c, d \in BOOLEAN :
                  /\ [r EXCEPT !.stateShaded = c, !.stateHidden = d] \in Record
                  /\ [r EXCEPT !.shaded = c, !.pendingMaps = d] \in Record
                  /\ [r EXCEPT !.shaded = c, !.rolled = d] \in Record
                  /\ [r EXCEPT !.managed = c, !.placed = d] \in Record
           /\ \A c, d, e \in BOOLEAN :
                  /\ [r EXCEPT !.viewable = c, !.pendingMaps = d, !.rolled = e] \in Record
                  /\ [r EXCEPT !.unmanaging = c, !.viewable = d, !.rolled = e] \in Record
                  /\ [r EXCEPT !.placed = c, !.unmanaging = d, !.managed = e] \in Record
<1>1. \A n \in Nat : [r EXCEPT !.pendingUnmaps = n] \in Record
  BY ZenonT(60) DEF Record
<1>2. \A d \in AnyDesktop : [r EXCEPT !.desktop = d] \in Record
  BY ZenonT(60) DEF Record
<1>3. \A c \in BOOLEAN :
         /\ [r EXCEPT !.shaded = c] \in Record
         /\ [r EXCEPT !.frame = c] \in Record
         /\ [r EXCEPT !.minimized = c] \in Record
         /\ [r EXCEPT !.showDesktop = c] \in Record
         /\ [r EXCEPT !.managed = c] \in Record
         /\ [r EXCEPT !.stateShaded = c] \in Record
         /\ [r EXCEPT !.stateHidden = c] \in Record
         /\ [r EXCEPT !.placed = c] \in Record
         /\ [r EXCEPT !.rolled = c] \in Record
  BY ZenonT(60) DEF Record
<1>4. \A c, d \in BOOLEAN :
         /\ [r EXCEPT !.stateShaded = c, !.stateHidden = d] \in Record
         /\ [r EXCEPT !.shaded = c, !.pendingMaps = d] \in Record
         /\ [r EXCEPT !.shaded = c, !.rolled = d] \in Record
         /\ [r EXCEPT !.managed = c, !.placed = d] \in Record
  BY ZenonT(60) DEF Record
<1>5. \A c, d, e \in BOOLEAN :
         /\ [r EXCEPT !.viewable = c, !.pendingMaps = d, !.rolled = e] \in Record
         /\ [r EXCEPT !.unmanaging = c, !.viewable = d, !.rolled = e] \in Record
         /\ [r EXCEPT !.placed = c, !.unmanaging = d, !.managed = e] \in Record
  <2> SUFFICES ASSUME NEW c \in BOOLEAN, NEW d \in BOOLEAN, NEW e \in BOOLEAN
               PROVE  /\ [r EXCEPT !.viewable = c, !.pendingMaps = d, !.rolled = e] \in Record
                      /\ [r EXCEPT !.unmanaging = c, !.viewable = d, !.rolled = e] \in Record
                      /\ [r EXCEPT !.placed = c, !.unmanaging = d, !.managed = e] \in Record
    OBVIOUS
  <2>1. [r EXCEPT !.viewable = c, !.pendingMaps = d, !.rolled = e] \in Record
    BY ZenonT(60) DEF Record
  <2>2. [r EXCEPT !.unmanaging = c, !.viewable = d, !.rolled = e] \in Record
    BY ZenonT(60) DEF Record
  <2>3. [r EXCEPT !.placed = c, !.unmanaging = d, !.managed = e] \in Record
    BY ZenonT(60) DEF Record
  <2>4. QED
    BY <2>1, <2>2, <2>3
<1>6. QED
  BY <1>1, <1>2, <1>3, <1>4, <1>5

\* The changes of what the server says of a window keep its type.
LEMMA AttributeChanges ==
    ASSUME NEW a \in Attributes
    PROVE  /\ \A s \in {"Withdrawn", "Normal", "Iconic"} : [a EXCEPT !.wmState = s] \in Attributes
           /\ \A k \in AnyDesktop : [a EXCEPT !.desktop = k] \in Attributes
           /\ \A c \in BOOLEAN :
                  /\ [a EXCEPT !.frameMapped = c] \in Attributes
                  /\ [a EXCEPT !.mapped = c] \in Attributes
                  /\ [a EXCEPT !.exists = c] \in Attributes
                  /\ [a EXCEPT !.selected = c] \in Attributes
           /\ \A c, d \in BOOLEAN :
                  /\ [a EXCEPT !.stateShaded = c, !.stateHidden = d] \in Attributes
                  /\ [a EXCEPT !.exists = c, !.mapped = d] \in Attributes
           /\ \A p \in {"root", "wrapper", "other"} : \A c, d \in BOOLEAN :
                  /\ [a EXCEPT !.parent = p] \in Attributes
                  /\ [a EXCEPT !.parent = p, !.mapped = c] \in Attributes
                  /\ [a EXCEPT !.parent = p, !.selected = c, !.frameMapped = d] \in Attributes
                  /\ [a EXCEPT !.frameMapped = c, !.parent = p, !.selected = d] \in Attributes
BY ZenonT(60) DEF Attributes

\* A window's record is a change of flags when it keeps stage, frame, desktop
\* and count, enters no mode, and the window itself stays where it is.
FlagsOf(r, q) ==
    /\ r.stage = q.stage /\ r.frame = q.frame /\ r.desktop = q.desktop
    /\ r.pendingUnmaps = q.pendingUnmaps /\ (r.showDesktop => q.showDesktop)

StaysOf(a, b) ==
    a.exists = b.exists /\ a.parent = b.parent /\ (a.mapped => a.exists)

\* Nothing is changed.
LEMMA FlagsRefl ==
    ASSUME NEW S, Sound(S), NEW w \in Windows
    PROVE  FlagsOf(S.win[w], S.win[w]) /\ StaysOf(S.srv[w], S.srv[w])
BY DEF FlagsOf, StaysOf, Sound, MappedExist

\* A replacement that changes flags alone.
LEMMA UpdatedFlags ==
    ASSUME NEW S, Sound(S), NEW w \in Windows,
           NEW r \in Record, NEW a \in Attributes, NEW c \in BOOLEAN,
           FlagsOf(r, S.win[w]), StaysOf(a, S.srv[w]), S.crossed[w] => c
    PROVE  FlagsOnly(S, Updated(S, w, r, a, c)) /\ Follows(S, Updated(S, w, r, a, c))
<1> DEFINE T == Updated(S, w, r, a, c)
<1>1. S \in States /\ MappedExist(S)
  BY DEF Sound
<1>2. /\ T \in States /\ T.win[w] = r /\ T.srv[w] = a /\ T.crossed[w] = c
      /\ \A x \in Windows \ {w} :
            T.win[x] = S.win[x] /\ T.srv[x] = S.srv[x] /\ T.crossed[x] = S.crossed[x]
      /\ T.queue = S.queue /\ T.current = S.current /\ T.number = S.number /\ T.mask = S.mask
  BY <1>1, UpdatedFacts
<1> HIDE DEF T
<1>3. \A x \in Windows : /\ SameWindow(S, T, x)
                         /\ T.win[x].pendingUnmaps = S.win[x].pendingUnmaps
                         /\ (T.win[x].showDesktop => S.win[x].showDesktop)
                         /\ (T.srv[x].mapped => T.srv[x].exists)
  BY <1>1, <1>2 DEF SameWindow, FlagsOf, StaysOf, MappedExist
<1>4. FlagsOnly(S, T)
  BY <1>2, <1>3 DEF FlagsOnly, Sound, MappedExist
<1>5. Follows(S, T)
  BY <1>4, FlagsFollow
<1>6. QED
  BY <1>4, <1>5 DEF T

\* Properties of a window are changed without events.
LEMMA WmStateFollows ==
    ASSUME NEW S, Sound(S), NEW w \in Windows, NEW s \in {"Withdrawn", "Normal", "Iconic"}
    PROVE  FlagsOnly(S, SetWmState(S, w, s)) /\ Follows(S, SetWmState(S, w, s))
<1> DEFINE a == [S.srv[w] EXCEPT !.wmState = s]
<1>1. S \in States /\ S.win[w] \in Record /\ S.srv[w] \in Attributes /\ S.crossed[w] \in BOOLEAN
  BY StateTypes DEF Sound
<1>2. a \in Attributes /\ StaysOf(a, S.srv[w]) /\ FlagsOf(S.win[w], S.win[w])
  <2>1. a \in Attributes
    BY <1>1, AttributeChanges
  <2>2. StaysOf(a, S.srv[w])
    BY <1>1, FlagsRefl DEF StaysOf, Attributes
  <2>3. QED
    BY <2>1, <2>2, FlagsRefl
<1>3. S.srv[w].exists => SetWmState(S, w, s) = Updated(S, w, S.win[w], a, S.crossed[w])
  BY <1>1 DEF States, SetWmState, Updated
<1>4. ~S.srv[w].exists => SetWmState(S, w, s) = S
  BY DEF SetWmState
<1>5. FlagsOnly(S, S)
  BY DEF FlagsOnly, SameWindow
<1> HIDE DEF a
<1>6. QED
  BY <1>1, <1>2, <1>3, <1>4, <1>5, UpdatedFlags, FollowsRefl

\* _NET_WM_DESKTOP is set.
LEMMA DesktopPropertyFollows ==
    ASSUME NEW S, Sound(S), NEW w \in Windows
    PROVE  FlagsOnly(S, SetDesktopProperty(S, w)) /\ Follows(S, SetDesktopProperty(S, w))
<1> DEFINE a == [S.srv[w] EXCEPT !.desktop = S.win[w].desktop]
<1>1. S \in States /\ S.win[w] \in Record /\ S.srv[w] \in Attributes /\ S.crossed[w] \in BOOLEAN
  BY StateTypes DEF Sound
<1>2. S.win[w].desktop \in AnyDesktop
  BY <1>1, RecordTypes
<1>3. a \in Attributes /\ StaysOf(a, S.srv[w]) /\ FlagsOf(S.win[w], S.win[w])
  <2>1. a \in Attributes
    BY <1>1, <1>2, AttributeChanges
  <2>2. StaysOf(a, S.srv[w])
    BY <1>1, FlagsRefl DEF StaysOf, Attributes
  <2>3. QED
    BY <2>1, <2>2, FlagsRefl
<1>4. SetDesktopProperty(S, w) = Updated(S, w, S.win[w], a, S.crossed[w])
  BY <1>1 DEF States, SetDesktopProperty, Updated
<1> HIDE DEF a
<1>5. QED
  BY <1>1, <1>3, <1>4, UpdatedFlags

\* _NET_WM_STATE is set.
LEMMA WindowStateFollows ==
    ASSUME NEW S, Sound(S), NEW w \in Windows
    PROVE  FlagsOnly(S, SetWindowState(S, w)) /\ Follows(S, SetWindowState(S, w))
<1> DEFINE a == [S.srv[w] EXCEPT !.stateShaded = S.win[w].stateShaded,
                                 !.stateHidden = S.win[w].stateHidden]
<1>1. S \in States /\ S.win[w] \in Record /\ S.srv[w] \in Attributes /\ S.crossed[w] \in BOOLEAN
  BY StateTypes DEF Sound
<1>2. S.win[w].stateShaded \in BOOLEAN /\ S.win[w].stateHidden \in BOOLEAN
  BY <1>1, RecordTypes
<1>3. a \in Attributes /\ StaysOf(a, S.srv[w]) /\ FlagsOf(S.win[w], S.win[w])
  <2>1. a \in Attributes
    BY <1>1, <1>2, AttributeChanges
  <2>2. StaysOf(a, S.srv[w])
    BY <1>1, FlagsRefl DEF StaysOf, Attributes
  <2>3. QED
    BY <2>1, <2>2, FlagsRefl
<1>4. SetWindowState(S, w) = Updated(S, w, S.win[w], a, S.crossed[w])
  BY <1>1 DEF States, SetWindowState, Updated
<1> HIDE DEF a
<1>5. QED
  BY <1>1, <1>3, <1>4, UpdatedFlags

\* CompWindow::changeState
LEMMA ChangeStateFollows ==
    ASSUME NEW S, Sound(S), NEW w \in Windows, NEW c \in BOOLEAN, NEW d \in BOOLEAN
    PROVE  Sound(ChangeState(S, w, c, d)) /\ Follows(S, ChangeState(S, w, c, d))
<1> DEFINE r == [S.win[w] EXCEPT !.stateShaded = c, !.stateHidden = d]
           T == Updated(S, w, r, S.srv[w], S.crossed[w])
<1>1. S \in States /\ S.win[w] \in Record /\ S.srv[w] \in Attributes /\ S.crossed[w] \in BOOLEAN
  BY StateTypes DEF Sound
<1>2. r \in Record /\ FlagsOf(r, S.win[w]) /\ StaysOf(S.srv[w], S.srv[w])
  <2>1. r \in Record
    BY <1>1, RecordChanges
  <2>2. FlagsOf(r, S.win[w])
    BY <1>1 DEF FlagsOf, Record
  <2>3. QED
    BY <2>1, <2>2, FlagsRefl
<1>3. [S EXCEPT !.win[w].stateShaded = c, !.win[w].stateHidden = d] = T
  BY <1>1 DEF States, Updated
<1> HIDE DEF r
<1>4. Follows(S, T) /\ Sound(T)
  BY <1>1, <1>2, UpdatedFlags DEF FlagsOnly
<1>5. ChangeState(S, w, c, d) = T \/ ChangeState(S, w, c, d) = SetWindowState(T, w)
  BY <1>3 DEF ChangeState
<1> HIDE DEF T
<1>6. Follows(T, SetWindowState(T, w))
  BY <1>4, WindowStateFollows
<1>7. Follows(S, SetWindowState(T, w))
  BY <1>4, <1>6, FollowsTrans
<1>8. QED
  BY <1>4, <1>5, <1>7 DEF Follows, Keeps

-----------------------------------------------------------------------------
(* Events of the server.                                                   *)

\* The events the server sends.
LEMMA EventTypes ==
    ASSUME NEW w \in Windows, NEW by \in {"client", "wm"},
           NEW type \in {"CreateNotify", "DestroyNotify", "MapNotify", "UnmapNotify",
                         "MapRequest", "Iconify", "Deiconify", "Active"}
    PROVE  /\ Event(type, w, by) \in Events
           /\ Event(type, w, by).type = type /\ Event(type, w, by).win = w
           /\ Event(type, w, by).arg = by
BY DEF Event, Events, WindowEvents

\* What an event that joins the queue changes.
LEMMA SendFacts ==
    ASSUME NEW S \in States, NEW e \in Events
    PROVE  /\ Send(S, e) \in States
           /\ Send(S, e).win = S.win /\ Send(S, e).srv = S.srv
           /\ Send(S, e).crossed = S.crossed /\ Send(S, e).current = S.current
           /\ Send(S, e).number = S.number /\ Send(S, e).mask = S.mask
           /\ Send(S, e).queue = Append(S.queue, e)
           /\ Len(Send(S, e).queue) = Len(S.queue) + 1
           /\ Send(S, e).queue[Len(S.queue) + 1] = e
           /\ \A i \in 1..Len(S.queue) : Send(S, e).queue[i] = S.queue[i]
<1>1. S.queue \in Seq(Events)
  BY DEF States
<1>2. PICK n \in Nat : n = Len(S.queue)
  BY <1>1
<1>3. Append(S.queue, e) \in Seq(Events)
  BY <1>1
<1>4. Send(S, e) \in States /\ Send(S, e).queue = Append(S.queue, e)
  BY <1>1, <1>3 DEF States, Send
<1>5. /\ Send(S, e).win = S.win /\ Send(S, e).srv = S.srv
      /\ Send(S, e).crossed = S.crossed /\ Send(S, e).current = S.current
      /\ Send(S, e).number = S.number /\ Send(S, e).mask = S.mask
  BY DEF States, Send
<1>6. Len(Append(S.queue, e)) = n + 1 /\ Append(S.queue, e)[n + 1] = e
      /\ \A i \in 1..n : Append(S.queue, e)[i] = S.queue[i]
  BY <1>1, <1>2
<1>7. QED
  BY <1>2, <1>4, <1>5, <1>6

\* An event that answers a request of compiz, where the change before it and
\* the count agree.
LEMMA SendFollows ==
    ASSUME NEW S, Sound(S), NEW F, Sound(F), F.number = S.number, F.current = S.current,
           F.mask = S.mask, F.queue = S.queue, \A x \in Windows : SameWindow(S, F, x),
           \A x \in Windows : F.win[x].showDesktop => S.win[x].showDesktop,
           NEW e \in Events, Answers(S, F, e),
           \A x \in Windows : ~F.crossed[x] /\ S.srv[x].parent # "other" =>
               F.win[x].pendingUnmaps =
                   IF WmUnmap(e, x) THEN S.win[x].pendingUnmaps + 1 ELSE S.win[x].pendingUnmaps
    PROVE  Follows(S, Send(F, e))
<1> DEFINE T == Send(F, e)
<1>1. S \in States /\ F \in States /\ MappedExist(F)
  BY DEF Sound
<1>2. /\ T \in States /\ T.win = F.win /\ T.srv = F.srv /\ T.crossed = F.crossed
      /\ T.current = S.current /\ T.number = S.number /\ T.mask = S.mask
      /\ T.queue = Append(S.queue, e)
      /\ Len(T.queue) = Len(S.queue) + 1 /\ T.queue[Len(S.queue) + 1] = e
      /\ \A i \in 1..Len(S.queue) : T.queue[i] = S.queue[i]
  <2>1. /\ T \in States /\ T.win = F.win /\ T.srv = F.srv /\ T.crossed = F.crossed
        /\ T.current = F.current /\ T.number = F.number /\ T.mask = F.mask
        /\ T.queue = Append(F.queue, e)
        /\ Len(T.queue) = Len(F.queue) + 1 /\ T.queue[Len(F.queue) + 1] = e
        /\ \A i \in 1..Len(F.queue) : T.queue[i] = F.queue[i]
    BY <1>1, SendFacts
  <2> HIDE DEF T
  <2>2. QED
    BY <2>1
<1> HIDE DEF T
<1>3. S.queue \in Seq(Events)
  BY <1>1 DEF States
<1>4. PICK n \in Nat : n = Len(S.queue)
  BY <1>3
<1>5. Answers(S, T, e)
  BY <1>2 DEF Answers
<1>6. Grows(S, T)
  BY <1>2, <1>4, <1>5 DEF Grows
<1>7. Sound(T)
  BY <1>1, <1>2 DEF Sound, MappedExist
<1>8. \A x \in Windows : SameWindow(S, T, x)
  BY <1>2 DEF SameWindow
<1>9. (Placed(S) => Placed(T)) /\ (ModeCovers(S) => ModeCovers(T))
  BY <1>2, <1>8 DEF Placed, ModeCovers, SameWindow
<1>10. Counts(S, T)
  <2>1. SUFFICES ASSUME NEW x \in Windows, ~T.crossed[x], S.srv[x].parent # "other"
                 PROVE  T.win[x].pendingUnmaps + Count(S.queue, x)
                          = S.win[x].pendingUnmaps + Count(T.queue, x)
    BY DEF Counts
  <2>2. Count(T.queue, x) = IF WmUnmap(e, x) THEN Count(S.queue, x) + 1 ELSE Count(S.queue, x)
    BY <1>2, <1>3, CountAppend
  <2>3. T.win[x].pendingUnmaps =
            IF WmUnmap(e, x) THEN S.win[x].pendingUnmaps + 1 ELSE S.win[x].pendingUnmaps
    BY <1>2, <2>1
  <2>4. S.win[x].pendingUnmaps \in Nat /\ Count(S.queue, x) \in Nat
    BY <1>1, <1>3, CountType, StateTypes, RecordTypes
  <2>5. QED
    BY <2>2, <2>3, <2>4
<1>11. T.number = S.number
  BY <1>2
<1>12. Follows(S, T)
  BY <1>2, <1>6, <1>7, <1>8, <1>9, <1>10, <1>11 DEF Follows, Keeps
<1>13. QED
  BY <1>12 DEF T

\* A window is mapped: its event joins the queue.
LEMMA XMapFollows ==
    ASSUME NEW S, Sound(S), NEW w \in Windows
    PROVE  Follows(S, XMap(S, w))
<1> DEFINE a == [S.srv[w] EXCEPT !.mapped = TRUE]
           F == Updated(S, w, S.win[w], a, S.crossed[w])
           e == Event("MapNotify", w, "wm")
<1>1. S \in States /\ S.win[w] \in Record /\ S.srv[w] \in Attributes /\ S.crossed[w] \in BOOLEAN
  BY StateTypes DEF Sound
<1>2. CASE S.srv[w].exists
  <2>1. a \in Attributes
    BY <1>1, AttributeChanges
  <2>2. StaysOf(a, S.srv[w])
    BY <1>1, <1>2 DEF StaysOf, Attributes
  <2>3. [S EXCEPT !.srv[w].mapped = TRUE] = F
    BY <1>1 DEF States, Updated
  <2> HIDE DEF a
  <2>4. FlagsOnly(S, F) /\ Follows(S, F)
    BY <1>1, <2>1, <2>2, UpdatedFlags, FlagsRefl
  <2> HIDE DEF F
  <2>5. e \in Events /\ e.type = "MapNotify" /\ e.win = w /\ e.arg = "wm"
    BY EventTypes
  <2> HIDE DEF e
  <2>6. Answers(S, F, e) /\ \A x \in Windows : ~WmUnmap(e, x)
    BY <2>5 DEF Answers, WmUnmap
  <2>7. Follows(S, Send(F, e))
    BY <2>4, <2>5, <2>6, SendFollows DEF FlagsOnly
  <2>8. XMap(S, w) \in {S, F, Send(F, e)}
    BY <2>3 DEF XMap, Report, e
  <2>9. QED
    BY <2>4, <2>7, <2>8, FollowsRefl
<1>3. CASE ~S.srv[w].exists
  BY <1>3, FollowsRefl DEF XMap
<1>4. QED
  BY <1>2, <1>3

\* A change without events, where the counts agree.
LEMMA StaysFollows ==
    ASSUME NEW S, Sound(S), NEW F, Sound(F), F.number = S.number, F.current = S.current,
           F.mask = S.mask, F.queue = S.queue, \A x \in Windows : SameWindow(S, F, x),
           \A x \in Windows : F.win[x].showDesktop => S.win[x].showDesktop,
           Counts(S, F)
    PROVE  Follows(S, F)
<1>1. (Placed(S) => Placed(F)) /\ (ModeCovers(S) => ModeCovers(F))
  BY DEF Placed, ModeCovers, SameWindow
<1>2. S.queue \in Seq(Events)
  BY DEF Sound, States
<1>3. PICK n \in Nat : n = Len(S.queue)
  BY <1>2
<1>4. Grows(S, F)
  BY <1>3 DEF Grows
<1>5. QED
  BY <1>1, <1>4 DEF Follows, Keeps

\* An unmap that compiz counts is reported, or requests have crossed, or the
\* window has left.
LEMMA CountedUnmapFollows ==
    ASSUME NEW S, Sound(S), NEW w \in Windows, S.win[w].stage = "window"
    PROVE  Follows(S, CountedUnmap(S, w))
<1> DEFINE r == [S.win[w] EXCEPT !.pendingUnmaps = @ + 1]
           c == S.crossed[w] \/ ~S.srv[w].mapped \/ ClientUnmaps(S, w)
           a == [S.srv[w] EXCEPT !.mapped = FALSE]
           F == Updated(S, w, r, S.srv[w], c)
           G == Updated(S, w, r, a, c)
           e == Event("UnmapNotify", w, "wm")
<1>1. S \in States /\ MappedExist(S)
      /\ S.win[w] \in Record /\ S.srv[w] \in Attributes /\ S.crossed[w] \in BOOLEAN
  BY StateTypes DEF Sound
<1>2. S.win[w].pendingUnmaps + 1 \in Nat
  BY <1>1, RecordTypes
<1>3. r \in Record /\ a \in Attributes /\ c \in BOOLEAN
  <2>1. r \in Record
    BY <1>1, <1>2, RecordChanges
  <2>2. a \in Attributes
    BY <1>1, AttributeChanges
  <2>3. c \in BOOLEAN
    OBVIOUS
  <2>4. QED
    BY <2>1, <2>2, <2>3
<1>4. [S EXCEPT !.win[w].pendingUnmaps = @ + 1,
                !.crossed[w] = @ \/ ~S.srv[w].mapped \/ ClientUnmaps(S, w)] = F
  BY <1>1 DEF States, Updated
<1>5. [F EXCEPT !.srv[w].mapped = FALSE] = G
  BY ZenonT(30), <1>1, <1>3 DEF States, Updated
<1>6. /\ r.stage = S.win[w].stage /\ r.frame = S.win[w].frame /\ r.desktop = S.win[w].desktop
      /\ r.pendingUnmaps = S.win[w].pendingUnmaps + 1 /\ r.showDesktop = S.win[w].showDesktop
  BY <1>1 DEF Record
<1>7. a.exists = S.srv[w].exists /\ a.parent = S.srv[w].parent /\ a.mapped = FALSE
  BY <1>1 DEF Attributes
<1>8. (S.crossed[w] => c) /\ (~c => S.srv[w].mapped /\ ~ClientUnmaps(S, w))
  OBVIOUS
<1> HIDE DEF r, c, a
<1>9. ASSUME NEW b \in {S.srv[w], a}, NEW H, H = Updated(S, w, r, b, c)
      PROVE  /\ Sound(H) /\ H.number = S.number /\ H.current = S.current /\ H.mask = S.mask
             /\ H.queue = S.queue /\ \A x \in Windows : SameWindow(S, H, x)
             /\ H.win[w] = r /\ H.srv[w] = b /\ H.crossed[w] = c
             /\ \A x \in Windows \ {w} : H.win[x] = S.win[x]
             /\ \A x \in Windows : H.win[x].showDesktop => S.win[x].showDesktop
  <2>1. /\ H \in States /\ H.win[w] = r /\ H.srv[w] = b /\ H.crossed[w] = c
        /\ \A x \in Windows \ {w} :
              H.win[x] = S.win[x] /\ H.srv[x] = S.srv[x] /\ H.crossed[x] = S.crossed[x]
        /\ H.queue = S.queue /\ H.current = S.current /\ H.number = S.number /\ H.mask = S.mask
    BY SMTT(30), <1>1, <1>3, <1>9, UpdatedFacts
  <2>2. b.exists = S.srv[w].exists /\ b.parent = S.srv[w].parent /\ (b.mapped => b.exists)
    BY <1>1, <1>7 DEF MappedExist
  <2>3. \A x \in Windows : SameWindow(S, H, x)
    BY <1>6, <1>8, <2>1, <2>2 DEF SameWindow
  <2>4. MappedExist(H)
    BY <1>1, <2>1, <2>2 DEF MappedExist
  <2>5. \A x \in Windows : H.win[x].showDesktop => S.win[x].showDesktop
    BY <1>6, <2>1
  <2>6. QED
    BY <2>1, <2>3, <2>4, <2>5 DEF Sound
<1> HIDE DEF F, G
<1>10. CASE S.srv[w].mapped
  <2>1. CountedUnmap(S, w) = IF Heard(G, w) THEN Send(G, e) ELSE G
    <3>1. CountedUnmap(S, w) = XUnmap(F, w, "wm")
      BY <1>4 DEF CountedUnmap
    <3>2. F.srv[w].exists /\ F.srv[w].mapped
      BY <1>1, <1>9, <1>10 DEF MappedExist, F
    <3>3. QED
      BY <1>5, <3>1, <3>2 DEF XUnmap, Report
  <2>2. e \in Events /\ e.type = "UnmapNotify" /\ e.win = w /\ e.arg = "wm"
    BY EventTypes
  <2> HIDE DEF e
  <2>3. Answers(S, G, e)
    BY <1>3, <1>8, <1>9, <2>2 DEF Answers, G
  <2>4. \A x \in Windows : G.win[x].pendingUnmaps =
            IF WmUnmap(e, x) THEN S.win[x].pendingUnmaps + 1 ELSE S.win[x].pendingUnmaps
    BY <1>3, <1>6, <1>9, <2>2 DEF WmUnmap, G
  <2>5. Follows(S, Send(G, e))
    BY <1>3, <1>9, <2>2, <2>3, <2>4, SendFollows DEF G
  <2>6. CASE Heard(G, w)
    BY <2>1, <2>5, <2>6
  <2>7. CASE ~Heard(G, w)
    <3>1. S.srv[w].parent = "other"
      BY <1>1, <1>3, <1>7, <1>9, <2>7, AttributeTypes DEF Heard, G
    <3>2. Counts(S, G)
      BY <1>3, <1>9, <3>1 DEF Counts, G
    <3>3. QED
      BY <1>3, <1>9, <2>1, <2>7, <3>2, StaysFollows DEF G
  <2>8. QED
    BY <2>6, <2>7
<1>11. CASE ~S.srv[w].mapped
  <2>1. CountedUnmap(S, w) = F
    <3>1. CountedUnmap(S, w) = XUnmap(F, w, "wm")
      BY <1>4 DEF CountedUnmap
    <3>2. ~F.srv[w].mapped
      BY <1>9, <1>11 DEF F
    <3>3. QED
      BY <3>1, <3>2 DEF XUnmap
  <2>2. Counts(S, F)
    BY <1>8, <1>9, <1>11 DEF Counts, F
  <2>3. QED
    BY <1>9, <2>1, <2>2, StaysFollows DEF F
<1>12. QED
  BY <1>10, <1>11

-----------------------------------------------------------------------------
(* Hiding and showing.                                                     *)

\* The frame is mapped or unmapped; requests cross.
LEMMA FrameMappedFollows ==
    ASSUME NEW S, Sound(S), NEW w \in Windows, NEW c \in BOOLEAN
    PROVE  LET T == [S EXCEPT !.srv[w].frameMapped = c]
           IN  Follows(S, T) /\ Sound(T) /\ T.win = S.win /\ T.crossed = S.crossed
<1> DEFINE a == [S.srv[w] EXCEPT !.frameMapped = c]
           T == [S EXCEPT !.srv[w].frameMapped = c]
<1>1. S \in States /\ S.win[w] \in Record /\ S.srv[w] \in Attributes /\ S.crossed[w] \in BOOLEAN
  BY StateTypes DEF Sound
<1>2. a \in Attributes
  BY <1>1, AttributeChanges
<1>3. StaysOf(a, S.srv[w]) /\ FlagsOf(S.win[w], S.win[w])
  BY <1>1, FlagsRefl DEF StaysOf, Attributes
<1>4. T = Updated(S, w, S.win[w], a, S.crossed[w]) /\ T.win = S.win /\ T.crossed = S.crossed
  BY <1>1 DEF States, Updated
<1> HIDE DEF a
<1>5. QED
  BY <1>1, <1>2, <1>3, <1>4, UpdatedFlags DEF FlagsOnly

\* Requests cross.
LEMMA CrossedFollows ==
    ASSUME NEW S, Sound(S), NEW w \in Windows, NEW c \in BOOLEAN, S.crossed[w] => c
    PROVE  Follows(S, [S EXCEPT !.crossed[w] = c])
<1> DEFINE T == [S EXCEPT !.crossed[w] = c]
<1>1. S \in States /\ S.win[w] \in Record /\ S.srv[w] \in Attributes
  BY StateTypes DEF Sound
<1>2. T = Updated(S, w, S.win[w], S.srv[w], c)
  BY <1>1 DEF States, Updated
<1>3. QED
  BY <1>1, <1>2, UpdatedFlags, FlagsRefl

\* A change of the window's record alone.
LEMMA RecordFollows ==
    ASSUME NEW S, Sound(S), NEW w \in Windows, NEW r \in Record, FlagsOf(r, S.win[w])
    PROVE  LET T == [S EXCEPT !.win[w] = r]
           IN  FlagsOnly(S, T) /\ Follows(S, T) /\ Sound(T) /\ T.win[w] = r
<1> DEFINE T == [S EXCEPT !.win[w] = r]
<1>1. S \in States /\ S.srv[w] \in Attributes /\ S.crossed[w] \in BOOLEAN
  BY StateTypes DEF Sound
<1>2. T = Updated(S, w, r, S.srv[w], S.crossed[w])
  BY <1>1 DEF States, Updated
<1>3. T.win[w] = r
  BY <1>1 DEF States
<1> HIDE DEF T
<1>4. FlagsOnly(S, T) /\ Follows(S, T)
  BY <1>1, <1>2, UpdatedFlags, FlagsRefl
<1>5. Sound(T)
  BY <1>4 DEF FlagsOnly
<1>6. QED
  BY <1>3, <1>4, <1>5 DEF T

\* PrivateWindow::hide
LEMMA HideFollows ==
    ASSUME NEW S, Sound(S), NEW w \in Windows
    PROVE  Follows(S, Hide(S, w))
<1> DEFINE c == S.win[w]
           roll == ~Away(S, w)
           shown == S.srv[w].frameMapped /\ (roll \/ ~c.stateShaded)
           r == [c EXCEPT !.shaded = roll]
           a == [S.srv[w] EXCEPT !.frameMapped = shown]
           T == [S EXCEPT !.win[w].shaded = roll,
                          !.srv[w].frameMapped = @ /\ (roll \/ ~c.stateShaded)]
           T2 == [T EXCEPT !.srv[w].frameMapped = @ /\ roll]
           U == CountedUnmap(T2, w)
<1>1. S \in States /\ c \in Record /\ S.srv[w] \in Attributes /\ S.crossed[w] \in BOOLEAN
  BY StateTypes DEF Sound
<1>2. CASE ~Managed(S, w) \/ (~Away(S, w) /\ ~S.win[w].stateShaded)
  BY <1>2, FollowsRefl DEF Hide
<1>3. CASE ~(~Managed(S, w) \/ (~Away(S, w) /\ ~S.win[w].stateShaded))
  <2>1. c.stage = "window"
    BY <1>3 DEF Managed
  <2>2. Hide(S, w) \in {[T EXCEPT !.crossed[w] = @ \/ S.srv[w].mapped],
                        ChangeState(U, w, c.stateShaded, TRUE), U}
    BY <1>3 DEF Hide
  <2>3. r \in Record
    <3>1. roll \in BOOLEAN
      OBVIOUS
    <3>2. QED
      BY <1>1, <3>1, RecordChanges
  <2>4. a \in Attributes
    <3>1. shown \in BOOLEAN
      OBVIOUS
    <3>2. QED
      BY <1>1, <3>1, AttributeChanges
  <2>5. FlagsOf(r, c)
    BY <1>1 DEF FlagsOf, Record
  <2>6. StaysOf(a, S.srv[w])
    BY <1>1, FlagsRefl DEF StaysOf, Attributes
  <2>7. T = Updated(S, w, r, a, S.crossed[w])
    BY <1>1 DEF States, Updated
  <2> HIDE DEF r, a, T
  <2>8. Follows(S, T) /\ Sound(T) /\ T.win[w].stage = "window"
    BY <1>1, <2>1, <2>3, <2>4, <2>5, <2>6, <2>7, UpdatedFlags DEF FlagsOnly, SameWindow
  <2>9. Follows(S, [T EXCEPT !.crossed[w] = @ \/ S.srv[w].mapped])
    <3>1. T.crossed[w] => T.crossed[w] \/ S.srv[w].mapped
      OBVIOUS
    <3>2. (T.crossed[w] \/ S.srv[w].mapped) \in BOOLEAN
      OBVIOUS
    <3>3. Follows(T, [T EXCEPT !.crossed[w] = T.crossed[w] \/ S.srv[w].mapped])
      BY <2>8, <3>1, <3>2, CrossedFollows
    <3>4. QED
      BY <2>8, <3>3, FollowsTrans
  <2>10. Follows(T, T2) /\ Sound(T2) /\ T2.win[w].stage = "window"
    <3>1. (T.srv[w].frameMapped /\ roll) \in BOOLEAN
      OBVIOUS
    <3>2. QED
      BY <2>8, <3>1, FrameMappedFollows
  <2> HIDE DEF T2
  <2>11. Follows(T2, U) /\ Sound(U)
    BY <2>10, CountedUnmapFollows DEF Follows, Keeps
  <2> HIDE DEF U
  <2>12. Follows(S, U)
    BY <2>8, <2>10, <2>11, FollowsTrans
  <2>13. Follows(S, ChangeState(U, w, c.stateShaded, TRUE))
    <3>1. c.stateShaded \in BOOLEAN /\ TRUE \in BOOLEAN
      BY <1>1, RecordTypes
    <3>2. Follows(U, ChangeState(U, w, c.stateShaded, TRUE))
      BY <2>11, <3>1, ChangeStateFollows
    <3>3. QED
      BY <2>12, <3>2, FollowsTrans
  <2>14. QED
    BY <2>2, <2>9, <2>12, <2>13
<1>4. QED
  BY <1>2, <1>3

\* The end of show
LEMMA ShowMappedFollows ==
    ASSUME NEW S, Sound(S), NEW w \in Windows
    PROVE  Follows(S, ShowMapped(S, w))
<1> DEFINE c == S.crossed[w] \/ ClientUnmaps(S, w)
           shown == S.srv[w].frameMapped \/ S.win[w].frame
           r == [S.win[w] EXCEPT !.shaded = FALSE, !.pendingMaps = TRUE]
           a == [S.srv[w] EXCEPT !.frameMapped = shown]
           T == [S EXCEPT !.win[w].shaded = FALSE, !.win[w].pendingMaps = TRUE,
                          !.srv[w].frameMapped = @ \/ S.win[w].frame,
                          !.crossed[w] = @ \/ ClientUnmaps(S, w)]
           U == XMap(T, w)
           V == ChangeState(U, w, S.win[w].stateShaded, FALSE)
<1>1. S \in States /\ S.win[w] \in Record /\ S.srv[w] \in Attributes /\ S.crossed[w] \in BOOLEAN
  BY StateTypes DEF Sound
<1>2. r \in Record
  BY <1>1, RecordChanges
<1>3. a \in Attributes
  <2>1. shown \in BOOLEAN
    OBVIOUS
  <2>2. QED
    BY <1>1, <2>1, AttributeChanges
<1>4. FlagsOf(r, S.win[w])
  BY <1>1 DEF FlagsOf, Record
<1>5. StaysOf(a, S.srv[w])
  BY <1>1, FlagsRefl DEF StaysOf, Attributes
<1>6. T = Updated(S, w, r, a, c)
  BY ZenonT(30), <1>1 DEF States, Updated
<1>7. c \in BOOLEAN /\ (S.crossed[w] => c)
  OBVIOUS
<1> HIDE DEF r, a, c, T
<1>8. Follows(S, T) /\ Sound(T)
  BY <1>2, <1>3, <1>4, <1>5, <1>6, <1>7, UpdatedFlags DEF FlagsOnly
<1>9. Follows(T, U) /\ Sound(U)
  BY <1>8, XMapFollows DEF Follows, Keeps
<1> HIDE DEF U
<1>10. Follows(U, V) /\ Sound(V)
  <2>1. S.win[w].stateShaded \in BOOLEAN
    BY <1>1, RecordTypes
  <2>2. QED
    BY <1>9, <2>1, ChangeStateFollows
<1>11. ShowMapped(S, w) = SetWindowState(V, w)
  BY DEF ShowMapped, T, U
<1> HIDE DEF V
<1>12. Follows(V, SetWindowState(V, w))
  BY <1>10, WindowStateFollows
<1>13. QED
  BY <1>8, <1>9, <1>10, <1>11, <1>12, FollowsTrans

\* PrivateWindow::show
LEMMA ShowFollows ==
    ASSUME NEW S, Sound(S), NEW w \in Windows
    PROVE  Follows(S, Show(S, w))
<1> DEFINE shown == S.srv[w].frameMapped \/ S.win[w].frame
           r == [S.win[w] EXCEPT !.shaded = TRUE, !.rolled = TRUE]
           a == [S.srv[w] EXCEPT !.frameMapped = shown]
           T == [S EXCEPT !.win[w].shaded = TRUE, !.win[w].rolled = TRUE,
                          !.srv[w].frameMapped = @ \/ S.win[w].frame]
<1>1. S \in States /\ S.win[w] \in Record /\ S.srv[w] \in Attributes /\ S.crossed[w] \in BOOLEAN
  BY StateTypes DEF Sound
<1>2. Show(S, w) \in {S, ChangeState(S, w, S.win[w].stateShaded, FALSE), T, ShowMapped(S, w)}
  BY DEF Show
<1>3. Follows(S, ChangeState(S, w, S.win[w].stateShaded, FALSE))
  BY <1>1, ChangeStateFollows, RecordTypes
<1>4. Follows(S, T)
  <2>1. r \in Record
    BY <1>1, RecordChanges
  <2>2. a \in Attributes
    <3>1. shown \in BOOLEAN
      OBVIOUS
    <3>2. QED
      BY <1>1, <3>1, AttributeChanges
  <2>3. FlagsOf(r, S.win[w])
    BY <1>1 DEF FlagsOf, Record
  <2>4. StaysOf(a, S.srv[w])
    BY <1>1, FlagsRefl DEF StaysOf, Attributes
  <2>5. T = Updated(S, w, r, a, S.crossed[w])
    BY <1>1 DEF States, Updated
  <2> HIDE DEF r, a, T
  <2>6. QED
    BY <1>1, <2>1, <2>2, <2>3, <2>4, <2>5, UpdatedFlags
<1>5. QED
  BY <1>2, <1>3, <1>4, ShowMappedFollows, FollowsRefl

\* A change of the window's flags before a step that follows it.
LEMMA ThenFollows ==
    ASSUME NEW S, Sound(S), NEW w \in Windows, NEW r \in Record, FlagsOf(r, S.win[w]),
           NEW U, Follows([S EXCEPT !.win[w] = r], U)
    PROVE  Follows(S, U)
BY RecordFollows, FollowsTrans

\* One window is minimized.
LEMMA MinimizeOneFollows ==
    ASSUME NEW S, Sound(S), NEW w \in Windows
    PROVE  Follows(S, MinimizeOne(S, w))
<1> DEFINE r == [S.win[w] EXCEPT !.minimized = TRUE]
<1>1. S \in States /\ S.win[w] \in Record
  BY StateTypes DEF Sound
<1>2. r \in Record
  BY <1>1, RecordChanges
<1>3. FlagsOf(r, S.win[w])
  BY <1>1 DEF FlagsOf, Record
<1>4. [S EXCEPT !.win[w].minimized = TRUE] = [S EXCEPT !.win[w] = r]
  BY <1>1 DEF States
<1> HIDE DEF r
<1>5. Sound([S EXCEPT !.win[w] = r])
  BY <1>2, <1>3, RecordFollows
<1>6. Follows([S EXCEPT !.win[w] = r], MinimizeOne(S, w))
  BY <1>4, <1>5, HideFollows DEF MinimizeOne
<1>7. QED
  BY <1>2, <1>3, <1>6, ThenFollows

\* One window is unminimized.
LEMMA UnminimizeOneFollows ==
    ASSUME NEW S, Sound(S), NEW w \in Windows
    PROVE  Follows(S, UnminimizeOne(S, w))
<1> DEFINE r == [S.win[w] EXCEPT !.minimized = FALSE]
<1>1. S \in States /\ S.win[w] \in Record
  BY StateTypes DEF Sound
<1>2. r \in Record
  BY <1>1, RecordChanges
<1>3. FlagsOf(r, S.win[w])
  BY <1>1 DEF FlagsOf, Record
<1>4. [S EXCEPT !.win[w].minimized = FALSE] = [S EXCEPT !.win[w] = r]
  BY <1>1 DEF States
<1> HIDE DEF r
<1>5. Sound([S EXCEPT !.win[w] = r])
  BY <1>2, <1>3, RecordFollows
<1>6. Follows([S EXCEPT !.win[w] = r], Show([S EXCEPT !.win[w].minimized = FALSE], w))
  BY <1>4, <1>5, ShowFollows
<1>7. Follows(S, Show([S EXCEPT !.win[w].minimized = FALSE], w))
  BY <1>2, <1>3, <1>6, ThenFollows
<1>8. QED
  BY <1>7, FollowsRefl DEF UnminimizeOne

\* One window leaves show desktop mode.
LEMMA LeaveOneFollows ==
    ASSUME NEW S, Sound(S), NEW w \in Windows
    PROVE  Follows(S, LeaveOne(S, w)) /\ ~LeaveOne(S, w).win[w].showDesktop
<1> DEFINE r == [S.win[w] EXCEPT !.showDesktop = FALSE]
           T == [S EXCEPT !.win[w] = r]
<1>1. S \in States /\ S.win[w] \in Record
  BY StateTypes DEF Sound
<1>2. r \in Record
  BY <1>1, RecordChanges
<1>3. FlagsOf(r, S.win[w]) /\ r.showDesktop = FALSE
  BY <1>1 DEF FlagsOf, Record
<1>4. [S EXCEPT !.win[w].showDesktop = FALSE] = T
  BY <1>1 DEF States
<1> HIDE DEF r
<1>5. Sound(T) /\ T.win[w] = r
  BY <1>2, <1>3, RecordFollows
<1> HIDE DEF T
<1>6. Follows(T, Show(T, w))
  BY <1>5, ShowFollows
<1>7. ~Show(T, w).win[w].showDesktop
  BY <1>3, <1>5, <1>6 DEF Follows, Keeps, SameWindow
<1>8. Follows(S, Show(T, w))
  BY <1>2, <1>3, <1>6, ThenFollows DEF T
<1>9. QED
  BY <1>4, <1>7, <1>8, FollowsRefl DEF LeaveOne

\* CompWindow::updateAttributes
LEMMA UpdateAttributesFollows ==
    ASSUME NEW S, Sound(S), NEW w \in Windows
    PROVE  Follows(S, UpdateAttributes(S, w))
BY HideFollows, ShowFollows, FollowsRefl DEF UpdateAttributes

\* The fold over the windows, with each operator that compiz applies to all.
MinimizeStep(p, S, w) == MinimizeTransient(S, w)
MinimizeFold == INSTANCE DataLemmas WITH Stepped <- MinimizeStep

UnminimizeStep(p, S, w) == UnminimizeOne(S, w)
UnminimizeFold == INSTANCE DataLemmas WITH Stepped <- UnminimizeStep

LeaveStep(p, S, w) == LeaveOne(S, w)
LeaveFold == INSTANCE DataLemmas WITH Stepped <- LeaveStep

\* The windows are finitely many.
LEMMA FiniteWindows ==
    ASSUME NEW W \in SUBSET Windows
    PROVE  IsFiniteSet(W)
BY LifecycleAssumption, FS_Subset

\* CompWindow::minimize, of a window and its transients
LEMMA MinimizeFollows ==
    ASSUME NEW S, Sound(S), NEW w \in Windows
    PROVE  Follows(S, Minimize(S, w))
<1> DEFINE r == [S.win[w] EXCEPT !.minimized = TRUE]
           T == [S EXCEPT !.win[w] = r]
           V == {U \in States : Follows(T, U)}
           X == ForEach(MinimizeTransient, T, Transients(w))
<1>1. S \in States /\ S.win[w] \in Record
  BY StateTypes DEF Sound
<1>2. r \in Record
  BY <1>1, RecordChanges
<1>3. FlagsOf(r, S.win[w])
  BY <1>1 DEF FlagsOf, Record
<1>4. [S EXCEPT !.win[w].minimized = TRUE] = T
  BY <1>1 DEF States
<1> HIDE DEF r
<1>5. Sound(T) /\ T \in States
  BY <1>2, <1>3, RecordFollows DEF Sound
<1> HIDE DEF T
<1>6. T \in V
  BY <1>5, FollowsRefl
<1>7. \A x \in Transients(w) : \A U \in V : MinimizeStep(0, U, x) \in V
  <2>1. SUFFICES ASSUME NEW x \in Transients(w), NEW U \in V PROVE MinimizeStep(0, U, x) \in V
    OBVIOUS
  <2>2. x \in Windows /\ Sound(U)
    BY DEF Transients, Follows, Keeps
  <2>3. Follows(U, MinimizeStep(0, U, x))
    BY <2>2, MinimizeOneFollows, FollowsRefl DEF MinimizeStep, MinimizeTransient
  <2>4. Follows(T, MinimizeStep(0, U, x))
    BY <1>5, <2>3, FollowsTrans
  <2>5. QED
    BY <2>4 DEF Follows, Keeps, Sound
<1>8. X = MinimizeFold!Folded(0, Transients(w), T)
  BY DEF ForEach, FoldSet, MapThenFoldSet, MinimizeFold!Folded, MinimizeStep
<1>9. IsFiniteSet(Transients(w))
  BY FiniteWindows DEF Transients
<1> HIDE DEF V
<1> HIDE DEF X
<1>10. X \in V
  <2>1. MinimizeFold!Folded(0, Transients(w), T) \in V
    BY <1>6, <1>7, <1>9, MinimizeFold!FoldStays DEF IsFiniteSet, MinimizeFold!IsFiniteSet
  <2>2. QED
    BY <1>8, <2>1
<1>11. Follows(T, X) /\ Sound(X)
  BY <1>10 DEF V, Follows, Keeps
<1>12. Follows(X, MinimizeOne(X, w))
  BY <1>11, MinimizeOneFollows
<1>13. Follows(T, MinimizeOne(X, w))
  BY <1>5, <1>11, <1>12, FollowsTrans
<1>14. Follows(S, MinimizeOne(X, w))
  BY <1>2, <1>3, <1>13, ThenFollows DEF T
<1>15. QED
  BY <1>4, <1>14, FollowsRefl DEF Minimize, X

\* CompWindow::unminimize, of a window and its transients
LEMMA UnminimizeFollows ==
    ASSUME NEW S, Sound(S), NEW w \in Windows
    PROVE  Follows(S, Unminimize(S, w))
<1> DEFINE T == UnminimizeOne(S, w)
           V == {U \in States : Follows(T, U)}
           X == ForEach(UnminimizeOne, T, Transients(w))
<1>1. Follows(S, T) /\ Sound(T) /\ T \in States
  BY UnminimizeOneFollows DEF Follows, Keeps, Sound
<1>2. Unminimize(S, w) \in {S, X}
  BY DEF Unminimize
<1> HIDE DEF T
<1>3. T \in V
  BY <1>1, FollowsRefl
<1>4. \A x \in Transients(w) : \A U \in V : UnminimizeStep(0, U, x) \in V
  <2>1. SUFFICES ASSUME NEW x \in Transients(w), NEW U \in V PROVE UnminimizeStep(0, U, x) \in V
    OBVIOUS
  <2>2. x \in Windows /\ Sound(U)
    BY DEF Transients, Follows, Keeps
  <2>3. Follows(U, UnminimizeStep(0, U, x))
    BY <2>2, UnminimizeOneFollows DEF UnminimizeStep
  <2>4. Follows(T, UnminimizeStep(0, U, x))
    BY <1>1, <2>3, FollowsTrans
  <2>5. QED
    BY <2>4 DEF Follows, Keeps, Sound
<1>5. X = UnminimizeFold!Folded(0, Transients(w), T)
  BY DEF ForEach, FoldSet, MapThenFoldSet, UnminimizeFold!Folded, UnminimizeStep
<1>6. IsFiniteSet(Transients(w))
  BY FiniteWindows DEF Transients
<1> HIDE DEF V
<1> HIDE DEF X
<1>7. X \in V
  <2>1. UnminimizeFold!Folded(0, Transients(w), T) \in V
    BY <1>3, <1>4, <1>6, UnminimizeFold!FoldStays DEF IsFiniteSet, UnminimizeFold!IsFiniteSet
  <2>2. QED
    BY <1>5, <2>1
<1>8. Follows(T, X)
  BY <1>7 DEF V
<1>9. QED
  BY <1>1, <1>2, <1>8, FollowsTrans, FollowsRefl

\* A fold of LeaveOne ends the mode of all the windows it goes through.
LEMMA LeaveFollows ==
    ASSUME NEW S, Sound(S), NEW W \in SUBSET Windows
    PROVE  /\ Follows(S, ForEach(LeaveOne, S, W))
           /\ \A w \in W : ~ForEach(LeaveOne, S, W).win[w].showDesktop
<1> DEFINE V == [s \in SUBSET W |->
                   {U \in States : Follows(S, U) /\ \A x \in s : ~U.win[x].showDesktop}]
           X == ForEach(LeaveOne, S, W)
<1>1. S \in V[{}]
  BY FollowsRefl DEF Sound
<1>2. \A s \in SUBSET W : \A x \in s : \A U \in V[s \ {x}] : LeaveStep(0, U, x) \in V[s]
  <2>1. SUFFICES ASSUME NEW s \in SUBSET W, NEW x \in s, NEW U \in V[s \ {x}]
                 PROVE  LeaveStep(0, U, x) \in V[s]
    OBVIOUS
  <2>2. x \in Windows /\ Sound(U) /\ Follows(S, U) /\ \A y \in s \ {x} : ~U.win[y].showDesktop
    BY DEF Follows, Keeps
  <2>3. Follows(U, LeaveStep(0, U, x)) /\ ~LeaveStep(0, U, x).win[x].showDesktop
    BY <2>2, LeaveOneFollows DEF LeaveStep
  <2>4. Follows(S, LeaveStep(0, U, x))
    BY <2>2, <2>3, FollowsTrans
  <2>5. \A y \in s : ~LeaveStep(0, U, x).win[y].showDesktop
    BY <2>2, <2>3 DEF Follows, Keeps, SameWindow
  <2>6. QED
    BY <2>4, <2>5 DEF Follows, Keeps, Sound
<1>3. X = LeaveFold!Folded(0, W, S)
  BY DEF ForEach, FoldSet, MapThenFoldSet, LeaveFold!Folded, LeaveStep
<1>4. IsFiniteSet(W)
  BY FiniteWindows
<1> HIDE DEF V
<1> HIDE DEF X
<1>5. X \in V[W]
  <2>1. LeaveFold!Folded(0, W, S) \in V[W]
    BY <1>1, <1>2, <1>4, LeaveFold!FoldReaches DEF IsFiniteSet, LeaveFold!IsFiniteSet
  <2>2. QED
    BY <1>3, <2>1
<1>6. Follows(S, X) /\ \A w \in W : ~X.win[w].showDesktop
  BY <1>5 DEF V
<1>7. QED
  BY <1>6 DEF X

-----------------------------------------------------------------------------
(* Desktops and show desktop mode.                                         *)

ShowOrHideStep(d, S, w) == IF S.win[w].desktop = d THEN Show(S, w) ELSE Hide(S, w)
ShowOrHideFold == INSTANCE DataLemmas WITH Stepped <- ShowOrHideStep

MoveStep(k, S, w) == SetDesktop(S, w, k - 1)
MoveFold == INSTANCE DataLemmas WITH Stepped <- MoveStep

EnterStep(p, S, w) ==
    IF S.win[w].showDesktop \/ ~MayFocus(S, w) THEN S
    ELSE Hide([S EXCEPT !.win[w].showDesktop = TRUE], w)
EnterFold == INSTANCE DataLemmas WITH Stepped <- EnterStep

RevealStep(p, S, w) == Reveal(S, w)
RevealFold == INSTANCE DataLemmas WITH Stepped <- RevealStep

\* The current desktop changes to one that exists.
LEMMA CurrentFollows ==
    ASSUME NEW S, Sound(S), NEW d \in Nat, d < S.number
    PROVE  LET T == [S EXCEPT !.current = d] IN Follows(S, T) /\ Sound(T) /\ T.current = d
<1> DEFINE T == [S EXCEPT !.current = d]
<1>1. S \in States /\ S.number \in 1..Largest /\ S.queue \in Seq(Events)
  BY DEF Sound, States
<1>2. d \in 0..Largest - 1
  BY <1>1, LargestType
<1>3. T \in States /\ T.current = d
  BY <1>1, <1>2 DEF States
<1>4. /\ T.win = S.win /\ T.srv = S.srv /\ T.queue = S.queue
      /\ T.number = S.number /\ T.mask = S.mask /\ T.crossed = S.crossed
  BY <1>1 DEF States
<1> HIDE DEF T
<1>5. Sound(T)
  BY <1>3, <1>4 DEF Sound, MappedExist
<1>6. Placed(S) => Placed(T)
  BY <1>3, <1>4 DEF Placed
<1>7. ModeCovers(S) => ModeCovers(T)
  BY <1>4 DEF ModeCovers
<1>8. PICK n \in Nat : n = Len(S.queue)
  BY <1>1
<1>9. Grows(S, T)
  BY <1>4, <1>8 DEF Grows
<1>10. Counts(S, T) /\ \A x \in Windows : SameWindow(S, T, x)
  BY <1>4 DEF Counts, SameWindow
<1>11. QED
  BY <1>3, <1>4, <1>5, <1>6, <1>7, <1>9, <1>10 DEF Follows, Keeps, T

\* The mode changes and still covers the windows.
LEMMA MaskFollows ==
    ASSUME NEW S, Sound(S), NEW c \in BOOLEAN,
           ModeCovers(S) => ModeCovers([S EXCEPT !.mask = c])
    PROVE  Follows(S, [S EXCEPT !.mask = c])
<1> DEFINE T == [S EXCEPT !.mask = c]
<1>1. S \in States /\ S.queue \in Seq(Events)
  BY DEF Sound, States
<1>2. T \in States
  BY <1>1 DEF States
<1>3. /\ T.win = S.win /\ T.srv = S.srv /\ T.queue = S.queue
      /\ T.number = S.number /\ T.current = S.current /\ T.crossed = S.crossed
  BY <1>1 DEF States
<1> HIDE DEF T
<1>4. Sound(T)
  BY <1>2, <1>3 DEF Sound, MappedExist
<1>5. Placed(S) => Placed(T)
  BY <1>3 DEF Placed
<1>6. PICK n \in Nat : n = Len(S.queue)
  BY <1>1
<1>7. Grows(S, T)
  BY <1>3, <1>6 DEF Grows
<1>8. Counts(S, T) /\ \A x \in Windows : SameWindow(S, T, x)
  BY <1>3 DEF Counts, SameWindow
<1>9. ModeCovers(S) => ModeCovers(T)
  BY DEF T
<1>10. Follows(S, T)
  BY <1>3, <1>4, <1>5, <1>7, <1>8, <1>9 DEF Follows, Keeps
<1>11. QED
  BY <1>10 DEF T

\* PrivateScreen::setCurrentDesktop, whatever desktop is asked for
LEMMA SetCurrentDesktopFollows ==
    ASSUME NEW S, Sound(S), NEW d \in Nat
    PROVE  Follows(S, SetCurrentDesktop(S, d))
<1>1. S.number \in Nat
  BY DEF Sound, States
<1>2. CASE d >= S.number \/ d = S.current
  BY <1>2, FollowsRefl DEF SetCurrentDesktop
<1>3. CASE ~(d >= S.number \/ d = S.current)
  <2> DEFINE T == [S EXCEPT !.current = d]
             W == {w \in Listed(T) : T.win[w].desktop # AllDesktops}
             V == {U \in States : Follows(T, U)}
             X == SetCurrentDesktop(S, d)
  <2>1. Follows(S, T) /\ Sound(T) /\ T \in States
    BY <1>1, <1>3, CurrentFollows DEF Sound
  <2>2. X = ShowOrHideFold!Folded(d, W, T)
    BY <1>3 DEF SetCurrentDesktop, ForEach, FoldSet, MapThenFoldSet, ShowOrHideFold!Folded,
                ShowOrHideStep
  <2>3. W \in SUBSET Windows
    BY DEF Listed
  <2> HIDE DEF T, W, X
  <2>4. T \in V
    BY <2>1, FollowsRefl
  <2>5. \A x \in W : \A U \in V : ShowOrHideStep(d, U, x) \in V
    <3>1. SUFFICES ASSUME NEW x \in W, NEW U \in V PROVE ShowOrHideStep(d, U, x) \in V
      OBVIOUS
    <3>2. x \in Windows /\ Sound(U)
      BY <2>3 DEF Follows, Keeps
    <3>3. Follows(U, ShowOrHideStep(d, U, x))
      BY <3>2, ShowFollows, HideFollows DEF ShowOrHideStep
    <3>4. Follows(T, ShowOrHideStep(d, U, x))
      BY <2>1, <3>3, FollowsTrans
    <3>5. QED
      BY <3>4 DEF Follows, Keeps, Sound
  <2>6. IsFiniteSet(W)
    BY <2>3, FiniteWindows
  <2> HIDE DEF V
  <2>7. ShowOrHideFold!Folded(d, W, T) \in V
    BY <2>4, <2>5, <2>6, ShowOrHideFold!FoldStays DEF IsFiniteSet, ShowOrHideFold!IsFiniteSet
  <2>8. Follows(T, X)
    BY <2>2, <2>7 DEF V
  <2>9. QED
    BY <2>1, <2>8, FollowsTrans DEF X
<1>4. QED
  BY <1>2, <1>3

\* A window leaves show desktop mode, which ends with the last one in it.
LEMMA LeaveShowDesktopModeFollows ==
    ASSUME NEW S, Sound(S), NEW w \in Windows
    PROVE  Follows(S, LeaveShowDesktopMode(S, w))
<1> DEFINE T == LeaveOne(S, w)
           some == \E x \in Listed(T) : T.win[x].showDesktop
           c == T.mask /\ some
<1>1. Follows(S, T) /\ Sound(T)
  BY LeaveOneFollows DEF Follows, Keeps
<1>2. LeaveShowDesktopMode(S, w) \in {S, [T EXCEPT !.mask = c]}
  BY DEF LeaveShowDesktopMode
<1> HIDE DEF T
<1>3. c \in BOOLEAN
  OBVIOUS
<1>4. ModeCovers(T) => ModeCovers([T EXCEPT !.mask = c])
  <2>1. [T EXCEPT !.mask = c].mask = c /\ [T EXCEPT !.mask = c].win = T.win
    BY <1>1 DEF Sound, States
  <2>2. QED
    BY <2>1 DEF ModeCovers, Listed
<1>5. Follows(T, [T EXCEPT !.mask = c])
  BY <1>1, <1>3, <1>4, MaskFollows
<1>6. QED
  BY <1>1, <1>2, <1>5, FollowsTrans, FollowsRefl

\* PrivateWindow::reveal
LEMMA RevealFollows ==
    ASSUME NEW S, Sound(S), NEW w \in Windows
    PROVE  Follows(S, Reveal(S, w))
<1> DEFINE T == Unminimize(S, w)
<1>1. Follows(S, T) /\ Sound(T)
  BY UnminimizeFollows DEF Follows, Keeps
<1>2. Reveal(S, w) = LeaveShowDesktopMode(T, w)
  BY DEF Reveal
<1> HIDE DEF T
<1>3. QED
  BY <1>1, <1>2, LeaveShowDesktopModeFollows, FollowsTrans

\* CompWindow::activate
LEMMA ActivateFollows ==
    ASSUME NEW S, Sound(S), NEW w \in Windows
    PROVE  Follows(S, Activate(S, w))
<1> DEFINE T == SetCurrentDesktop(S, S.win[w].desktop)
           W == {x \in Listed(T) : TransientFor[w] = x}
           R == ForEach(Reveal, T, W)
           U == Reveal(R, w)
           r == [U.win[w] EXCEPT !.stateShaded = FALSE]
           X == [U EXCEPT !.win[w].stateShaded = FALSE]
           V == IF ~U.win[w].stateHidden THEN U
                ELSE IF X.win[w].shaded THEN Show(X, w) ELSE X
           K == {Y \in States : Follows(S, Y)}
<1>1. S.win[w].desktop \in Nat
  BY StateTypes, RecordTypes, LargestType DEF Sound, AnyDesktop
<1>2. Follows(S, T) /\ Sound(T) /\ T \in States
  BY <1>1, SetCurrentDesktopFollows DEF Follows, Keeps, Sound
<1>3. Activate(S, w) \in {V, UpdateAttributes(V, w)}
  BY DEF Activate
<1>4. W \in SUBSET Windows
  BY DEF Listed
<1>5. R = RevealFold!Folded(0, W, T)
  BY DEF ForEach, FoldSet, MapThenFoldSet, RevealFold!Folded, RevealStep
<1> HIDE DEF T, W, R
<1>6. T \in K
  BY <1>2
<1>7. \A x \in W : \A Y \in K : RevealStep(0, Y, x) \in K
  <2>1. SUFFICES ASSUME NEW x \in W, NEW Y \in K PROVE RevealStep(0, Y, x) \in K
    OBVIOUS
  <2>2. x \in Windows /\ Sound(Y)
    BY <1>4 DEF Follows, Keeps
  <2>3. Follows(Y, RevealStep(0, Y, x))
    BY <2>2, RevealFollows DEF RevealStep
  <2>4. Follows(S, RevealStep(0, Y, x))
    BY <2>3, FollowsTrans
  <2>5. QED
    BY <2>4 DEF Follows, Keeps, Sound
<1>8. IsFiniteSet(W)
  BY <1>4, FiniteWindows
<1> HIDE DEF K
<1>9. RevealFold!Folded(0, W, T) \in K
  BY <1>6, <1>7, <1>8, RevealFold!FoldStays DEF IsFiniteSet, RevealFold!IsFiniteSet
<1>10. Follows(S, R) /\ Sound(R)
  BY <1>5, <1>9 DEF K, Follows, Keeps
<1>11. Follows(R, U)
  BY <1>10, RevealFollows
<1>12. Follows(S, U) /\ Sound(U)
  BY <1>10, <1>11, FollowsTrans DEF Follows, Keeps
<1> HIDE DEF U
<1>13. U \in States /\ U.win[w] \in Record
  BY <1>12, StateTypes DEF Sound
<1>14. r \in Record /\ X = [U EXCEPT !.win[w] = r]
  <2>1. r \in Record
    BY <1>13, RecordChanges
  <2>2. X = [U EXCEPT !.win[w] = r]
    BY <1>13 DEF States
  <2>3. QED
    BY <2>1, <2>2
<1>15. FlagsOf(r, U.win[w])
  BY <1>13 DEF FlagsOf, Record
<1> HIDE DEF r, X
<1>16. Follows(U, X) /\ Sound(X)
  BY <1>12, <1>14, <1>15, RecordFollows
<1>17. Follows(U, Show(X, w))
  BY <1>12, <1>16, ShowFollows, FollowsTrans
<1>18. Follows(U, V)
  BY <1>12, <1>16, <1>17, FollowsRefl
<1> HIDE DEF V
<1>19. Follows(S, V) /\ Sound(V)
  BY <1>12, <1>18, FollowsTrans DEF Follows, Keeps
<1>20. Follows(S, UpdateAttributes(V, w))
  BY <1>19, UpdateAttributesFollows, FollowsTrans
<1>21. QED
  BY <1>3, <1>19, <1>20

-----------------------------------------------------------------------------
(* The parts of the invariant about one window, through the operators.     *)

\* What the invariant says of a window depends on
SameBooks(S, T, x) ==
    /\ T.queue = S.queue /\ T.win[x].stage = S.win[x].stage
    /\ T.win[x].frame = S.win[x].frame
    /\ T.win[x].pendingUnmaps = S.win[x].pendingUnmaps
    /\ T.srv[x].exists = S.srv[x].exists /\ T.srv[x].parent = S.srv[x].parent
    /\ S.crossed[x] => T.crossed[x]

\* Other changes of a window do not matter to the invariant.
LEMMA SameUncounted ==
    ASSUME NEW S, NEW T, NEW x, NEW ask, Uncounted(S, x, ask),
           T.queue = S.queue, T.win[x].stage = S.win[x].stage,
           T.win[x].frame = S.win[x].frame,
           T.srv[x].exists = S.srv[x].exists, T.srv[x].parent = S.srv[x].parent,
           S.crossed[x] => T.crossed[x]
    PROVE  Uncounted(T, x, ask)
<1>1. Ordered(T, x)
  BY DEF Uncounted, Ordered
<1>2. CreatedFirst(T, x)
  BY DEF Uncounted, CreatedFirst
<1>3. Comes(T, x)
  BY DEF Uncounted, Comes, Coming
<1>4. ReturnsFirst(T, x)
  BY DEF Uncounted, ReturnsFirst
<1>5. LeavesFirst(T, x)
  BY DEF Uncounted, LeavesFirst
<1>6. Framed(T, x)
  BY DEF Uncounted, Framed
<1>7. Gone(T, x)
  BY DEF Uncounted, Gone
<1>8. LeftOrGivenBack(T, x, ask)
  BY DEF Uncounted, LeftOrGivenBack
<1>9. QED
  BY <1>1, <1>2, <1>3, <1>4, <1>5, <1>6, <1>7, <1>8 DEF Uncounted

\* A window of which the invariant says the same
LEMMA SameInv ==
    ASSUME NEW S, NEW T, NEW x, NEW ask, SameBooks(S, T, x)
    PROVE  /\ WindowInv(S, x, ask) => WindowInv(T, x, ask)
           /\ Here(S, x) => Here(T, x)
<1>1. Counted(S, x) => Counted(T, x)
  BY DEF SameBooks, Counted
<1>2. Uncounted(S, x, ask) => Uncounted(T, x, ask)
  BY SameUncounted DEF SameBooks
<1>3. Here(S, x) => Here(T, x)
  BY DEF SameBooks, Here
<1>4. QED
  BY <1>1, <1>2, <1>3 DEF WindowInv

\* The operators that show and hide windows keep the invariant of each.
LEMMA KeepsInv ==
    ASSUME NEW S, Sound(S), NEW T, Keeps(S, T), NEW x \in Windows, NEW ask,
           WindowInv(S, x, ask), Here(S, x)
    PROVE  WindowInv(T, x, ask) /\ Here(T, x)
<1>1. SameWindow(S, T, x) /\ Sound(T) /\ Counts(S, T)
  BY DEF Keeps
<1>2. /\ T.win[x].stage = S.win[x].stage /\ T.win[x].frame = S.win[x].frame
      /\ T.srv[x].exists = S.srv[x].exists /\ T.srv[x].parent = S.srv[x].parent
      /\ ~T.crossed[x] => ~S.crossed[x]
  BY <1>1 DEF SameWindow
<1>3. PICK m, n \in Nat : m = Len(S.queue) /\ n = Len(T.queue)
  <2>1. S.queue \in Seq(Events) /\ T.queue \in Seq(Events)
    BY <1>1 DEF Sound, States
  <2>2. QED
    BY <2>1
<1>4. m <= n /\ \A i \in 1..m : i \in 1..n /\ T.queue[i] = S.queue[i]
  BY <1>3 DEF Keeps, Grows
<1>5. ASSUME NEW i \in 1..n, i > m
      PROVE  /\ ~Is(T.queue[i], "CreateNotify", x) /\ ~Is(T.queue[i], "MapRequest", x)
             /\ ~Is(T.queue[i], "DestroyNotify", x) /\ ~Leaves(T.queue[i], x)
             /\ ~Returns(T.queue[i], x) /\ ~ClientUnmap(T.queue[i], x)
             /\ WmUnmap(T.queue[i], x) =>
                    S.win[x].stage = "window" /\ (~T.crossed[x] => ~ClientUnmaps(S, x))
  <2>1. Answers(S, T, T.queue[i])
    BY <1>3, <1>5 DEF Keeps, Grows
  <2>2. QED
    BY <2>1 DEF Answers, Is, Leaves, Returns, ClientUnmap, WmUnmap
<1>6. ASSUME NEW i \in 1..n PROVE i \in 1..m \/ i > m
  BY <1>3
<1>7. (\E i \in 1..n : Leaves(T.queue[i], x)) <=> \E i \in 1..m : Leaves(S.queue[i], x)
  BY <1>4, <1>5, <1>6
<1>8. Counted(T, x)
  <2>1. SUFFICES ASSUME T.win[x].stage = "window", ~T.crossed[x]
                 PROVE  T.win[x].pendingUnmaps = Count(T.queue, x)
    BY DEF Counted
  <2>2. S.win[x].pendingUnmaps = Count(S.queue, x) /\ S.srv[x].parent # "other"
    BY <1>2, <2>1 DEF WindowInv, Uncounted, Counted, Here
  <2>3. T.win[x].pendingUnmaps + Count(S.queue, x) = S.win[x].pendingUnmaps + Count(T.queue, x)
    BY <1>1, <2>1, <2>2 DEF Counts
  <2>4. Count(S.queue, x) \in Nat /\ Count(T.queue, x) \in Nat /\ T.win[x].pendingUnmaps \in Nat
    BY <1>1, CountType DEF Sound, States, Record
  <2>5. QED
    BY <2>2, <2>3, <2>4
<1>9. Ordered(T, x)
  <2>1. SUFFICES ASSUME T.win[x].stage = "window", ~T.crossed[x],
                        NEW i \in 1..n, NEW j \in 1..n, i < j, ClientUnmap(T.queue[i], x)
                 PROVE  ~WmUnmap(T.queue[j], x)
    BY <1>3 DEF Ordered
  <2>2. i \in 1..m /\ ClientUnmap(S.queue[i], x)
    BY <1>4, <1>5, <1>6, <2>1
  <2>3. CASE j \in 1..m
    BY <1>2, <1>3, <1>4, <2>1, <2>2, <2>3 DEF WindowInv, Uncounted, Ordered
  <2>4. CASE j > m
    <3>1. ClientUnmaps(S, x)
      BY <1>3, <2>2 DEF ClientUnmaps, ClientUnmap
    <3>2. QED
      BY <1>5, <2>1, <2>4, <3>1
  <2>5. QED
    BY <1>6, <2>3, <2>4
<1>10. CreatedFirst(T, x)
  <2>1. SUFFICES ASSUME NEW i \in 1..n, Is(T.queue[i], "CreateNotify", x)
                 PROVE  /\ T.win[x].stage = "none"
                        /\ \A j \in 1..i - 1 : T.queue[j].win # x
    BY <1>3 DEF CreatedFirst
  <2>2. i \in 1..m /\ Is(S.queue[i], "CreateNotify", x)
    BY <1>4, <1>5, <1>6, <2>1
  <2>3. S.win[x].stage = "none" /\ \A j \in 1..i - 1 : S.queue[j].win # x
    BY <1>3, <2>2 DEF WindowInv, Uncounted, CreatedFirst
  <2>4. \A j \in 1..i - 1 : T.queue[j] = S.queue[j]
    BY <1>4, <2>2
  <2>5. QED
    BY <1>2, <2>3, <2>4
<1>11. Comes(T, x)
  <2>1. SUFFICES ASSUME Coming(T, x), NEW i \in 1..n
                 PROVE  /\ ~WmUnmap(T.queue[i], x)
                        /\ ~T.crossed[x] =>
                              /\ Is(T.queue[i], "MapRequest", x) => T.srv[x].parent # "other"
                              /\ Leaves(T.queue[i], x) => T.srv[x].parent = "other"
    BY <1>3 DEF Comes
  <2>2. Coming(S, x)
    BY <1>2, <1>3, <1>4, <1>5, <1>6, <2>1 DEF Coming
  <2>3. S.win[x].stage # "window"
    BY <2>2 DEF Coming, WindowInv, Uncounted, CreatedFirst
  <2>4. CASE i \in 1..m
    BY <1>2, <1>3, <1>4, <2>2, <2>4 DEF WindowInv, Uncounted, Comes
  <2>5. CASE i > m
    BY <1>5, <2>3, <2>5
  <2>6. QED
    BY <1>6, <2>4, <2>5
<1>12. ReturnsFirst(T, x)
  <2>1. SUFFICES ASSUME ~T.crossed[x], NEW i \in 1..n, Returns(T.queue[i], x)
                 PROVE  /\ i = 1 /\ T.win[x].stage # "window" /\ T.srv[x].parent = "root"
                        /\ \A j \in 1..n : ~WmUnmap(T.queue[j], x) /\ ~Leaves(T.queue[j], x)
    BY <1>3 DEF ReturnsFirst
  <2>2. i \in 1..m /\ Returns(S.queue[i], x)
    BY <1>4, <1>5, <1>6, <2>1
  <2>3. /\ i = 1 /\ S.win[x].stage # "window" /\ S.srv[x].parent = "root"
        /\ \A j \in 1..m : ~WmUnmap(S.queue[j], x) /\ ~Leaves(S.queue[j], x)
    BY <1>2, <1>3, <2>1, <2>2 DEF WindowInv, Uncounted, ReturnsFirst
  <2>4. ASSUME NEW j \in 1..n PROVE ~WmUnmap(T.queue[j], x) /\ ~Leaves(T.queue[j], x)
    BY <1>4, <1>5, <1>6, <2>3
  <2>5. QED
    BY <1>2, <2>3, <2>4
<1>13. Here(T, x)
  BY <1>2, <1>3, <1>7 DEF Here
<1>14. LeavesFirst(T, x)
  BY <1>13 DEF LeavesFirst, Here
<1>15. Framed(T, x)
  BY <1>2, <1>3, <1>7 DEF WindowInv, Uncounted, Framed
<1>16. Gone(T, x)
  <2>1. SUFFICES ASSUME NEW i \in 1..n, Is(T.queue[i], "DestroyNotify", x)
                 PROVE  ~T.srv[x].exists /\ (T.queue[i].arg = "client" \/ T.crossed[x])
    BY <1>3 DEF Gone
  <2>2. i \in 1..m /\ S.queue[i] = T.queue[i]
    BY <1>4, <1>5, <1>6, <2>1
  <2>3. QED
    BY <1>2, <1>3, <2>1, <2>2 DEF WindowInv, Uncounted, Gone
<1>17. LeftOrGivenBack(T, x, ask)
  BY <1>2, <1>3, <1>7 DEF WindowInv, Uncounted, LeftOrGivenBack
<1>18. QED
  BY <1>8, <1>9, <1>10, <1>11, <1>12, <1>13, <1>14, <1>15, <1>16, <1>17 DEF WindowInv, Uncounted

-----------------------------------------------------------------------------
(* The invariant through the operators within a handler.                   *)

\* Within a handler, apart from show desktop mode
Steady(S, ask) ==
    Sound(S) /\ Placed(S) /\ \A x \in Windows : WindowInv(S, x, ask[x]) /\ Here(S, x)

\* Within is Steady and the mode.
LEMMA SteadyWithin ==
    ASSUME NEW S, NEW ask
    PROVE  Within(S, ask) <=> Steady(S, ask) /\ ModeCovers(S)
BY DEF Within, Between, Steady

\* Showing and hiding windows keeps the invariant.
LEMMA KeepsSteady ==
    ASSUME NEW S, NEW ask, Steady(S, ask), NEW T, Keeps(S, T)
    PROVE  Steady(T, ask)
<1>1. Sound(S) /\ Sound(T) /\ Placed(T)
  BY DEF Steady, Keeps
<1>2. \A x \in Windows : WindowInv(T, x, ask[x]) /\ Here(T, x)
  BY <1>1, KeepsInv DEF Steady
<1>3. QED
  BY <1>1, <1>2 DEF Steady

\* Showing and hiding windows keeps the mode too.
LEMMA FollowsWithin ==
    ASSUME NEW S, NEW ask, Within(S, ask), NEW T, Follows(S, T)
    PROVE  Within(T, ask)
BY SteadyWithin, KeepsSteady DEF Follows

\* So does a change of flags between two events.
LEMMA FlagsBetween ==
    ASSUME NEW S, NEW ask, Between(S, ask), NEW T, FlagsOnly(S, T)
    PROVE  Between(T, ask)
<1>1. Follows(S, T)
  BY FlagsFollow DEF Between
<1>2. Sound(T) /\ Placed(T) /\ ModeCovers(T)
  BY <1>1 DEF Between, Follows, Keeps
<1>3. \A x \in Windows : SameBooks(S, T, x)
  BY DEF FlagsOnly, SameWindow, SameBooks
<1>4. \A x \in Windows : WindowInv(T, x, ask[x])
  BY <1>3, SameInv DEF Between
<1>5. QED
  BY <1>2, <1>4 DEF Between

\* A window's record and attributes are replaced.
LEMMA UpdatedSound ==
    ASSUME NEW S, Sound(S), NEW w \in Windows,
           NEW r \in Record, NEW a \in Attributes, NEW c \in BOOLEAN,
           a.mapped => a.exists,
           NEW T, T = Updated(S, w, r, a, c)
    PROVE  /\ Sound(T) /\ T.win[w] = r /\ T.srv[w] = a /\ T.crossed[w] = c
           /\ T.queue = S.queue /\ T.current = S.current
           /\ T.number = S.number /\ T.mask = S.mask
           /\ \A x \in Windows \ {w} :
                  T.win[x] = S.win[x] /\ T.srv[x] = S.srv[x] /\ T.crossed[x] = S.crossed[x]
<1>1. S \in States /\ MappedExist(S)
  BY DEF Sound
<1>2. /\ T \in States /\ T.win[w] = r /\ T.srv[w] = a /\ T.crossed[w] = c
      /\ \A x \in Windows \ {w} :
             /\ T.win[x] = S.win[x] /\ T.srv[x] = S.srv[x] /\ T.crossed[x] = S.crossed[x]
      /\ T.queue = S.queue /\ T.current = S.current /\ T.number = S.number /\ T.mask = S.mask
  BY <1>1, UpdatedFacts
<1>3. MappedExist(T)
  BY <1>1, <1>2 DEF MappedExist
<1>4. QED
  BY <1>2, <1>3 DEF Sound

-----------------------------------------------------------------------------
(* The desktop of a window, and the number of desktops.                    *)

\* The current desktop of T is that of S.
SameCurrent(S, T) == "current" \in DOMAIN T /\ T.current = S.current

\* Showing and hiding leave the current desktop as it is.
LEMMA ShowHideCurrent ==
    ASSUME NEW S \in States, NEW w \in Windows
    PROVE  Show(S, w).current = S.current /\ Hide(S, w).current = S.current
<1>1. SameCurrent(S, S)
  BY DEF SameCurrent, States
<1>2. ASSUME NEW T, SameCurrent(S, T), NEW type, NEW arg
      PROVE  SameCurrent(S, Report(T, w, type, arg))
  BY <1>2 DEF SameCurrent, Report, Send
<1>3. ASSUME NEW T, SameCurrent(S, T)
      PROVE  /\ SameCurrent(S, SetWindowState(T, w)) /\ SameCurrent(S, XMap(T, w))
             /\ SameCurrent(S, CountedUnmap(T, w))
  <2>1. SameCurrent(S, SetWindowState(T, w))
    BY <1>3 DEF SameCurrent, SetWindowState
  <2>2. ASSUME NEW U, SameCurrent(S, U), NEW b PROVE SameCurrent(S, [U EXCEPT !.srv[w].mapped = b])
    BY <2>2 DEF SameCurrent
  <2>3. SameCurrent(S, XMap(T, w))
    BY <1>2, <1>3, <2>2 DEF XMap
  <2>4. ASSUME NEW U, SameCurrent(S, U) PROVE SameCurrent(S, XUnmap(U, w, "wm"))
    BY <1>2, <2>2, <2>4 DEF XUnmap
  <2>5. SameCurrent(S, [T EXCEPT !.win[w].pendingUnmaps = @ + 1,
                     !.crossed[w] = @ \/ ~T.srv[w].mapped \/ ClientUnmaps(T, w)])
    BY <1>3 DEF SameCurrent
  <2>6. QED
    BY <2>1, <2>3, <2>4, <2>5 DEF CountedUnmap
<1>4. ASSUME NEW T, SameCurrent(S, T), NEW c, NEW d
      PROVE  SameCurrent(S, ChangeState(T, w, c, d))
  <2>1. SameCurrent(S, [T EXCEPT !.win[w].stateShaded = c, !.win[w].stateHidden = d])
    BY <1>4 DEF SameCurrent
  <2>2. QED
    BY <1>3, <2>1 DEF ChangeState
<1>5. SameCurrent(S, ShowMapped(S, w))
  <2> DEFINE T == [S EXCEPT !.win[w].shaded = FALSE, !.win[w].pendingMaps = TRUE,
                            !.srv[w].frameMapped = @ \/ S.win[w].frame,
                            !.crossed[w] = @ \/ ClientUnmaps(S, w)]
             U == XMap(T, w)
             V == ChangeState(U, w, S.win[w].stateShaded, FALSE)
  <2>1. SameCurrent(S, T)
    BY <1>1 DEF SameCurrent
  <2> HIDE DEF T
  <2>2. SameCurrent(S, U)
    BY <1>3, <2>1
  <2> HIDE DEF U
  <2>3. SameCurrent(S, V)
    BY <1>4, <2>2
  <2> HIDE DEF V
  <2>4. SameCurrent(S, SetWindowState(V, w))
    BY <1>3, <2>3
  <2>5. QED
    BY <2>4 DEF ShowMapped, T, U, V
<1>6. SameCurrent(S, Show(S, w))
  <2>1. SameCurrent(S, [S EXCEPT !.win[w].shaded = TRUE, !.win[w].rolled = TRUE,
                                 !.srv[w].frameMapped = @ \/ S.win[w].frame])
    BY <1>1 DEF SameCurrent
  <2>2. QED
    BY <1>1, <1>4, <1>5, <2>1 DEF Show
<1>7. SameCurrent(S, Hide(S, w))
  <2> DEFINE roll == ~Away(S, w)
             T == [S EXCEPT !.win[w].shaded = roll,
                            !.srv[w].frameMapped = @ /\ (roll \/ ~S.win[w].stateShaded)]
             T2 == [T EXCEPT !.srv[w].frameMapped = @ /\ roll]
             T3 == [T EXCEPT !.crossed[w] = @ \/ S.srv[w].mapped]
             U == CountedUnmap(T2, w)
  <2>1. SameCurrent(S, T)
    BY <1>1 DEF SameCurrent
  <2> HIDE DEF T
  <2>2. SameCurrent(S, T2) /\ SameCurrent(S, T3)
    BY <2>1 DEF SameCurrent
  <2> HIDE DEF T2, T3
  <2>3. SameCurrent(S, U)
    BY <1>3, <2>2
  <2> HIDE DEF U
  <2>4. SameCurrent(S, ChangeState(U, w, S.win[w].stateShaded, TRUE))
    BY <1>4, <2>3
  <2>5. Hide(S, w) \in {S, T3, ChangeState(U, w, S.win[w].stateShaded, TRUE), U}
    BY DEF Hide, T, T2, T3, U
  <2>6. QED
    BY <1>1, <2>2, <2>3, <2>4, <2>5
<1>8. QED
  BY <1>6, <1>7 DEF SameCurrent

\* A window moves to a desktop that exists.
LEMMA DesktopMoves ==
    ASSUME NEW S, NEW ask, Within(S, ask), NEW w \in Windows, NEW d \in AnyDesktop,
           d = AllDesktops \/ d < S.number
    PROVE  LET T == [S EXCEPT !.win[w].desktop = d]
           IN  /\ Within(T, ask) /\ T.number = S.number /\ T.current = S.current
               /\ T.win[w].desktop = d
               /\ \A x \in Windows : T.win[x].stage = S.win[x].stage
               /\ \A x \in Windows \ {w} : T.win[x] = S.win[x]
<1> DEFINE T == [S EXCEPT !.win[w].desktop = d]
           r == [S.win[w] EXCEPT !.desktop = d]
<1>1. Sound(S) /\ S \in States /\ S.win[w] \in Record /\ S.srv[w] \in Attributes
      /\ S.crossed[w] \in BOOLEAN
  BY StateTypes DEF Within, Between, Sound
<1>2. r \in Record
  BY <1>1, RecordChanges
<1>3. /\ r.desktop = d /\ r.stage = S.win[w].stage /\ r.frame = S.win[w].frame
      /\ r.pendingUnmaps = S.win[w].pendingUnmaps /\ r.showDesktop = S.win[w].showDesktop
  BY <1>1 DEF Record
<1>4. T = Updated(S, w, r, S.srv[w], S.crossed[w])
  BY <1>1 DEF States, Updated
<1>5. S.srv[w].mapped => S.srv[w].exists
  BY <1>1 DEF Sound, MappedExist
<1> HIDE DEF T, r
<1>6. /\ Sound(T) /\ T.win[w] = r /\ T.srv[w] = S.srv[w] /\ T.crossed[w] = S.crossed[w]
      /\ T.queue = S.queue /\ T.current = S.current
      /\ T.number = S.number /\ T.mask = S.mask
      /\ \A x \in Windows \ {w} :
             T.win[x] = S.win[x] /\ T.srv[x] = S.srv[x] /\ T.crossed[x] = S.crossed[x]
  BY <1>1, <1>2, <1>4, <1>5, UpdatedSound
<1>7. \A x \in Windows : SameBooks(S, T, x)
  BY <1>3, <1>6 DEF SameBooks
<1>8. \A x \in Windows : WindowInv(T, x, ask[x]) /\ Here(T, x)
  BY <1>7, SameInv DEF Within, Between
<1>9. Placed(T) /\ ModeCovers(T)
  BY <1>3, <1>6 DEF Within, Between, Placed, ModeCovers
<1>10. Within(T, ask)
  BY <1>6, <1>8, <1>9 DEF Within, Between
<1>11. \A x \in Windows : T.win[x].stage = S.win[x].stage
  BY <1>3, <1>6
<1>12. QED
  BY <1>3, <1>6, <1>10, <1>11 DEF T

\* CompWindow::setDesktop, whatever desktop is asked for
LEMMA SetDesktopWithin ==
    ASSUME NEW S, NEW ask, Within(S, ask), NEW w \in Windows, NEW d \in AnyDesktop
    PROVE  LET T == SetDesktop(S, w, d)
           IN  /\ Within(T, ask) /\ T.number = S.number /\ T.current = S.current
               /\ d < S.number => T.win[w].desktop = d
               /\ \A x \in Windows : T.win[x].stage = S.win[x].stage
               /\ \A x \in Windows \ {w} : T.win[x].desktop = S.win[x].desktop
<1> DEFINE T == [S EXCEPT !.win[w].desktop = d]
           U == IF d \in {AllDesktops, S.current} THEN Show(T, w) ELSE Hide(T, w)
           V == SetDesktopProperty(U, w)
<1>1. S \in States /\ S.number \in Nat /\ S.number <= Largest /\ Largest \in Nat
  BY StateTypes, LargestType DEF Within, Between, Sound, States
<1>2. CASE (d # AllDesktops /\ d >= S.number) \/ d = S.win[w].desktop
  BY <1>1, <1>2 DEF SetDesktop, AnyDesktop
<1>3. CASE ~((d # AllDesktops /\ d >= S.number) \/ d = S.win[w].desktop)
  <2>1. SetDesktop(S, w, d) = V
    BY <1>3 DEF SetDesktop
  <2>2. /\ Within(T, ask) /\ T.number = S.number /\ T.current = S.current
        /\ T.win[w].desktop = d
        /\ \A x \in Windows : T.win[x].stage = S.win[x].stage
        /\ \A x \in Windows \ {w} : T.win[x] = S.win[x]
    BY <1>1, <1>3, DesktopMoves DEF AnyDesktop
  <2> HIDE DEF T
  <2>3. Sound(T) /\ T \in States
    BY <2>2 DEF Within, Between, Sound
  <2>4. Follows(T, U) /\ U.current = T.current
    BY <2>3, ShowFollows, HideFollows, ShowHideCurrent
  <2> HIDE DEF U
  <2>5. Sound(U)
    BY <2>4 DEF Follows, Keeps
  <2>6. FlagsOnly(U, V) /\ Follows(U, V)
    BY <2>5, DesktopPropertyFollows
  <2> HIDE DEF V
  <2>7. Follows(T, V) /\ V.current = T.current
    BY <2>3, <2>4, <2>6, FollowsTrans DEF FlagsOnly
  <2>8. Within(V, ask) /\ V.number = T.number /\ \A x \in Windows : SameWindow(T, V, x)
    BY <2>2, <2>7, FollowsWithin DEF Follows, Keeps
  <2>9. QED
    BY <2>1, <2>2, <2>7, <2>8 DEF SameWindow
<1>4. QED
  BY <1>2, <1>3

\* The number of desktops changes: the windows of the desktops that are
\* removed have moved to the last one before it does.
LEMMA SetNumberWithin ==
    ASSUME NEW S, NEW ask, Within(S, ask), NEW k \in Desktops
    PROVE  Within(SetNumberOfDesktops(S, k), ask)
<1> DEFINE c == [w \in Windows |-> S.crossed[w] \/ S.current >= k]
           n == IF S.current >= k THEN k - 1 ELSE S.current
           T == [S EXCEPT !.current = IF @ >= k THEN k - 1 ELSE @,
                          !.crossed = [w \in Windows |-> @[w] \/ S.current >= k]]
           W == {w \in Listed(T) : T.win[w].desktop # AllDesktops /\ T.win[w].desktop >= k}
           Moved(s, x, U) == /\ U.win[x].stage = T.win[x].stage
                             /\ x \in s /\ k - 1 < T.number => U.win[x].desktop = k - 1
                             /\ x \notin s => U.win[x].desktop = T.win[x].desktop
           V == [s \in SUBSET W |->
                   {U \in States : /\ Within(U, ask) /\ U.number = T.number
                                   /\ U.current = T.current
                                   /\ \A x \in Windows : Moved(s, x, U)}]
           U == ForEach(LAMBDA X, w : SetDesktop(X, w, k - 1), T, W)
           Z == [U EXCEPT !.number = k]
<1>1. Sound(S) /\ S \in States /\ MappedExist(S)
  BY DEF Within, Between, Sound
<1>2. k \in 1..Largest /\ k \in Nat /\ k - 1 \in AnyDesktop
  BY LargestType, LifecycleAssumption DEF AnyDesktop
<1>3. S.number \in 1..Largest /\ S.current \in 0..Largest - 1
  BY <1>1 DEF States
<1>4. CASE k < 1 \/ k = S.number
  BY <1>4 DEF SetNumberOfDesktops
<1>5. CASE ~(k < 1 \/ k = S.number)
  <2>1. SetNumberOfDesktops(S, k) = Z
    BY <1>5 DEF SetNumberOfDesktops
  <2>2. n \in 0..Largest - 1 /\ n < k /\ n <= S.current
    BY <1>2, <1>3, LargestType
  <2>3. /\ T \in States /\ T.win = S.win /\ T.srv = S.srv /\ T.queue = S.queue
        /\ T.number = S.number /\ T.mask = S.mask /\ T.current = n /\ T.crossed = c
    <3>1. T = [S EXCEPT !.current = n, !.crossed = c]
      BY <1>1
    <3>2. c \in [Windows -> BOOLEAN]
      OBVIOUS
    <3> HIDE DEF c, n, T
    <3>3. QED
      BY <1>1, <2>2, <3>1, <3>2 DEF States
  <2>4. \A x \in Windows : S.crossed[x] => c[x]
    BY <1>1 DEF States
  <2>5. W \in SUBSET Windows
    BY DEF Listed
  <2>6. U = MoveFold!Folded(k, W, T)
    BY DEF ForEach, FoldSet, MapThenFoldSet, MoveFold!Folded, MoveStep
  <2>7. \A x \in W : T.win[x].desktop \in AnyDesktop /\ T.win[x].desktop >= k
    BY <1>1, <2>3, <2>5, StateTypes, RecordTypes
  <2>8. \A x \in Windows : T.win[x].stage = "window" /\ x \notin W =>
            T.win[x].desktop = AllDesktops \/ ~(T.win[x].desktop >= k)
    BY DEF Listed
  <2> HIDE DEF c, n, T, W, U
  <2>9. Within(T, ask)
    <3>1. \A x \in Windows : SameBooks(S, T, x)
      BY <2>3, <2>4 DEF SameBooks
    <3>2. \A x \in Windows : WindowInv(T, x, ask[x]) /\ Here(T, x)
      BY <3>1, SameInv DEF Within, Between
    <3>3. Placed(T) /\ ModeCovers(T) /\ Sound(T)
      BY <1>1, <1>3, <2>2, <2>3 DEF Within, Between, Placed, ModeCovers, Sound, MappedExist
    <3>4. QED
      BY <3>2, <3>3 DEF Within, Between
  <2>10. T \in V[{}]
    BY <2>3, <2>9
  <2>11. \A s \in SUBSET W : \A x \in s : \A X \in V[s \ {x}] : MoveStep(k, X, x) \in V[s]
    <3>1. SUFFICES ASSUME NEW s \in SUBSET W, NEW x \in s, NEW X \in V[s \ {x}]
                   PROVE  MoveStep(k, X, x) \in V[s]
      OBVIOUS
    <3>2. /\ Within(X, ask) /\ X.number = T.number /\ X.current = T.current
          /\ \A y \in Windows : Moved(s \ {x}, y, X)
      OBVIOUS
    <3>3. x \in Windows
      BY <2>5
    <3> DEFINE Y == MoveStep(k, X, x)
    <3>4. /\ Within(Y, ask) /\ Y.number = X.number /\ Y.current = X.current
          /\ k - 1 < X.number => Y.win[x].desktop = k - 1
          /\ \A y \in Windows : Y.win[y].stage = X.win[y].stage
          /\ \A y \in Windows \ {x} : Y.win[y].desktop = X.win[y].desktop
      BY <1>2, <3>2, <3>3, SetDesktopWithin DEF MoveStep
    <3> HIDE DEF Y
    <3>5. \A y \in Windows : Moved(s, y, Y)
      BY <3>2, <3>4
    <3>6. Y \in States
      BY <3>4 DEF Within, Between, Sound
    <3>7. QED
      BY <3>2, <3>4, <3>5, <3>6 DEF Y
  <2>12. IsFiniteSet(W)
    BY <2>5, FiniteWindows
  <2> HIDE DEF V
  <2>13. MoveFold!Folded(k, W, T) \in V[W]
    BY <2>10, <2>11, <2>12, MoveFold!FoldReaches DEF IsFiniteSet, MoveFold!IsFiniteSet
  <2>14. /\ Within(U, ask) /\ U.number = T.number /\ U.current = T.current
         /\ \A x \in Windows : Moved(W, x, U)
    BY <2>6, <2>13 DEF V
  <2>15. Sound(U) /\ U \in States
    BY <2>14 DEF Within, Between, Sound
  <2>16. /\ Z \in States /\ Z.win = U.win /\ Z.srv = U.srv /\ Z.queue = U.queue
         /\ Z.crossed = U.crossed /\ Z.mask = U.mask /\ Z.current = U.current /\ Z.number = k
    BY <1>2, <2>15 DEF States
  <2> HIDE DEF Z
  <2>17. ASSUME NEW x \in Windows, Z.win[x].stage = "window"
         PROVE  Z.win[x].desktop < k \/ Z.win[x].desktop = AllDesktops
    <3>1. /\ U.win[x].stage = "window" /\ T.win[x].stage = "window" /\ Moved(W, x, U)
          /\ U.win[x].desktop \in AnyDesktop /\ T.win[x].desktop \in AnyDesktop
      BY <2>3, <2>14, <2>15, <2>16, <2>17, StateTypes, RecordTypes
    <3>2. CASE x \in W
      <4>1. T.win[x].desktop >= k /\ (T.win[x].desktop < T.number \/ T.win[x].desktop = AllDesktops)
        BY <2>7, <2>9, <3>1, <3>2 DEF Within, Between, Placed
      <4>2. CASE k - 1 < T.number
        BY <1>2, <2>16, <3>1, <3>2, <4>2
      <4>3. CASE ~(k - 1 < T.number)
        <5>1. T.win[x].desktop # AllDesktops
          BY <3>2 DEF W
        <5>2. QED
          BY <1>2, <1>3, <2>3, <3>1, <4>1, <4>3, <5>1 DEF AnyDesktop
      <4>4. QED
        BY <4>2, <4>3
    <3>3. CASE x \notin W
      BY <1>2, <2>8, <2>16, <3>1, <3>3 DEF AnyDesktop
    <3>4. QED
      BY <3>2, <3>3
  <2>18. Placed(Z)
    BY <2>2, <2>3, <2>14, <2>16, <2>17 DEF Placed
  <2>19. \A x \in Windows : WindowInv(Z, x, ask[x]) /\ Here(Z, x)
    <3>1. \A x \in Windows : SameBooks(U, Z, x)
      BY <2>16 DEF SameBooks
    <3>2. QED
      BY <2>14, <3>1, SameInv DEF Within, Between
  <2>20. Sound(Z) /\ ModeCovers(Z)
    BY <2>14, <2>15, <2>16 DEF Within, Between, Sound, MappedExist, ModeCovers
  <2>21. Within(Z, ask)
    BY <2>18, <2>19, <2>20 DEF Within, Between
  <2>22. QED
    BY <2>1, <2>21 DEF Z
<1>6. QED
  BY <1>4, <1>5

\* Entering show desktop mode: the mode covers the windows that are in it.
LEMMA EnterWithin ==
    ASSUME NEW S, NEW ask, Within(S, ask)
    PROVE  Within(EnterShowDesktopMode(S), ask)
<1> DEFINE W == Listed(S)
           V == {U \in States : Steady(U, ask)}
           U == ForEach(LAMBDA T, w : IF T.win[w].showDesktop \/ ~MayFocus(T, w) THEN T
                                      ELSE Hide([T EXCEPT !.win[w].showDesktop = TRUE], w),
                        S, W)
           c == \E w \in Listed(U) : U.win[w].showDesktop
           Z == [U EXCEPT !.mask = \E w \in Listed(U) : U.win[w].showDesktop]
<1>1. EnterShowDesktopMode(S) = Z
  BY DEF EnterShowDesktopMode
<1>2. U = EnterFold!Folded(0, W, S)
  BY DEF ForEach, FoldSet, MapThenFoldSet, EnterFold!Folded, EnterStep
<1>3. W \in SUBSET Windows /\ IsFiniteSet(W)
  BY FiniteWindows DEF Listed
<1>4. S \in V
  BY SteadyWithin DEF Steady, Sound
<1> HIDE DEF W, U
<1>5. \A x \in W : \A T \in V : EnterStep(0, T, x) \in V
  <2>1. SUFFICES ASSUME NEW x \in W, NEW T \in V PROVE EnterStep(0, T, x) \in V
    OBVIOUS
  <2>2. x \in Windows /\ Sound(T) /\ T \in States /\ Steady(T, ask) /\ T.win[x] \in Record
    BY <1>3, StateTypes DEF Steady
  <2> DEFINE r == [T.win[x] EXCEPT !.showDesktop = TRUE]
             X == [T EXCEPT !.win[x] = r]
  <2>3. r \in Record
    BY <2>2, RecordChanges
  <2>4. /\ r.desktop = T.win[x].desktop /\ r.stage = T.win[x].stage
        /\ r.frame = T.win[x].frame /\ r.pendingUnmaps = T.win[x].pendingUnmaps
    BY <2>2 DEF Record
  <2>5. EnterStep(0, T, x) = T \/ EnterStep(0, T, x) = Hide(X, x)
    <3>1. [T EXCEPT !.win[x].showDesktop = TRUE] = X
      BY <2>2 DEF States
    <3>2. QED
      BY <3>1 DEF EnterStep
  <2>6. X = Updated(T, x, r, T.srv[x], T.crossed[x])
    BY <2>2 DEF States, Updated
  <2>7. T.srv[x].mapped => T.srv[x].exists
    BY <2>2 DEF Sound, MappedExist
  <2>8. T.srv[x] \in Attributes /\ T.crossed[x] \in BOOLEAN
    BY <2>2, StateTypes
  <2> HIDE DEF r, X
  <2>9. /\ Sound(X) /\ X.win[x] = r /\ X.srv[x] = T.srv[x] /\ X.crossed[x] = T.crossed[x]
        /\ X.queue = T.queue /\ X.current = T.current /\ X.number = T.number
        /\ \A y \in Windows \ {x} :
               X.win[y] = T.win[y] /\ X.srv[y] = T.srv[y] /\ X.crossed[y] = T.crossed[y]
    BY <2>2, <2>3, <2>6, <2>7, <2>8, UpdatedSound
  <2>10. \A y \in Windows : SameBooks(T, X, y)
    BY <2>4, <2>9 DEF SameBooks
  <2>11. \A y \in Windows : WindowInv(X, y, ask[y]) /\ Here(X, y)
    BY <2>2, <2>10, SameInv DEF Steady
  <2>12. Placed(X)
    BY <2>2, <2>4, <2>9 DEF Steady, Placed
  <2>13. Steady(X, ask)
    BY <2>9, <2>11, <2>12 DEF Steady
  <2>14. Keeps(X, Hide(X, x))
    BY <2>2, <2>9, HideFollows DEF Follows
  <2>15. Steady(Hide(X, x), ask)
    BY <2>13, <2>14, KeepsSteady
  <2>16. QED
    BY <2>2, <2>5, <2>15 DEF Steady, Sound
<1> HIDE DEF V
<1>6. EnterFold!Folded(0, W, S) \in V
  BY <1>3, <1>4, <1>5, EnterFold!FoldStays DEF IsFiniteSet, EnterFold!IsFiniteSet
<1>7. Steady(U, ask) /\ Sound(U) /\ U \in States
  BY <1>2, <1>6 DEF V, Steady
<1>8. c \in BOOLEAN
  OBVIOUS
<1>9. Z \in States /\ Z.mask = c
  <2>1. Z = [U EXCEPT !.mask = c]
    OBVIOUS
  <2> HIDE DEF c, Z
  <2>2. QED
    BY <1>7, <1>8, <2>1 DEF States
<1>10. /\ Z.win = U.win /\ Z.srv = U.srv /\ Z.queue = U.queue /\ Z.crossed = U.crossed
       /\ Z.number = U.number /\ Z.current = U.current
  BY <1>7 DEF States
<1>11. ModeCovers(Z)
  BY <1>9, <1>10 DEF ModeCovers, Listed
<1> HIDE DEF Z
<1>12. Sound(Z) /\ Placed(Z)
  BY <1>7, <1>9, <1>10 DEF Steady, Sound, MappedExist, Placed
<1>13. \A x \in Windows : SameBooks(U, Z, x)
  BY <1>10 DEF SameBooks
<1>14. \A x \in Windows : WindowInv(Z, x, ask[x]) /\ Here(Z, x)
  BY <1>7, <1>13, SameInv DEF Steady
<1>15. QED
  BY <1>1, <1>11, <1>12, <1>14 DEF Within, Between

\* Leaving it, all windows leave.
LEMMA LeaveAllFollows ==
    ASSUME NEW S, Sound(S)
    PROVE  Keeps(S, LeaveShowDesktopModeAll(S)) /\ ModeCovers(LeaveShowDesktopModeAll(S))
<1> DEFINE T == [S EXCEPT !.mask = FALSE]
           U == ForEach(LeaveOne, T, Listed(S))
<1>1. S \in States /\ S.queue \in Seq(Events)
  BY DEF Sound, States
<1>2. /\ T.win = S.win /\ T.srv = S.srv /\ T.queue = S.queue /\ T.crossed = S.crossed
      /\ T.number = S.number /\ T.current = S.current /\ T \in States
  BY <1>1 DEF States
<1> HIDE DEF T
<1>3. Sound(T)
  BY <1>1, <1>2 DEF Sound, MappedExist
<1>4. PICK n \in Nat : n = Len(S.queue)
  BY <1>1
<1>5. Keeps(S, T)
  <2>1. Grows(S, T)
    BY <1>2, <1>4 DEF Grows
  <2>2. Counts(S, T) /\ \A x \in Windows : SameWindow(S, T, x)
    BY <1>2 DEF Counts, SameWindow
  <2>3. Placed(S) => Placed(T)
    BY <1>2 DEF Placed
  <2>4. QED
    BY <1>2, <1>3, <2>1, <2>2, <2>3 DEF Keeps
<1>6. Follows(T, U) /\ \A x \in Listed(S) : ~U.win[x].showDesktop
  <2>1. Listed(S) \in SUBSET Windows
    BY DEF Listed
  <2>2. QED
    BY <1>3, <2>1, LeaveFollows
<1>7. LeaveShowDesktopModeAll(S) = U
  BY DEF LeaveShowDesktopModeAll, T
<1> HIDE DEF U
<1>8. Keeps(S, U)
  BY <1>1, <1>3, <1>5, <1>6, KeepsTrans DEF Follows, Sound
<1>9. ModeCovers(U)
  <2>1. ASSUME NEW x \in Windows, U.win[x].stage = "window" PROVE ~U.win[x].showDesktop
    <3>1. x \in Listed(S)
      BY <1>8, <2>1 DEF Keeps, SameWindow, Listed
    <3>2. QED
      BY <1>6, <3>1
  <2>2. QED
    BY <2>1 DEF ModeCovers
<1>10. QED
  BY <1>7, <1>8, <1>9

-----------------------------------------------------------------------------
(* Maps, withdrawals and unmaps.                                           *)

\* A change of flags after another is one.
LEMMA FlagsTrans ==
    ASSUME NEW S, NEW T, NEW U, FlagsOnly(S, T), FlagsOnly(T, U)
    PROVE  FlagsOnly(S, U)
BY DEF FlagsOnly, SameWindow

\* The states of a window are flags.
LEMMA ChangeStateFlags ==
    ASSUME NEW S, Sound(S), NEW w \in Windows, NEW c \in BOOLEAN, NEW d \in BOOLEAN
    PROVE  FlagsOnly(S, ChangeState(S, w, c, d))
<1> DEFINE r == [S.win[w] EXCEPT !.stateShaded = c, !.stateHidden = d]
           T == [S EXCEPT !.win[w] = r]
<1>1. S \in States /\ S.win[w] \in Record
  BY StateTypes DEF Sound
<1>2. r \in Record
  BY <1>1, RecordChanges
<1>3. FlagsOf(r, S.win[w])
  BY <1>1 DEF FlagsOf, Record
<1>4. [S EXCEPT !.win[w].stateShaded = c, !.win[w].stateHidden = d] = T
  BY <1>1 DEF States
<1> HIDE DEF r
<1>5. FlagsOnly(S, T) /\ Sound(T)
  BY <1>2, <1>3, RecordFollows
<1>6. ChangeState(S, w, c, d) = T \/ ChangeState(S, w, c, d) = SetWindowState(T, w)
  BY <1>4 DEF ChangeState
<1> HIDE DEF T
<1>7. FlagsOnly(T, SetWindowState(T, w))
  BY <1>5, WindowStateFollows
<1>8. FlagsOnly(S, SetWindowState(T, w))
  BY <1>5, <1>7, FlagsTrans
<1>9. QED
  BY <1>5, <1>6, <1>8

\* A window is mapped for compiz.
LEMMA MapFlags ==
    ASSUME NEW S, Sound(S), NEW w \in Windows
    PROVE  FlagsOnly(S, Map(S, w))
<1> DEFINE c == S.win[w].rolled /\ S.win[w].shaded
           r == [S.win[w] EXCEPT !.viewable = TRUE, !.pendingMaps = FALSE, !.rolled = c]
           T == [S EXCEPT !.win[w] = r]
<1>1. S \in States /\ S.win[w] \in Record
  BY StateTypes DEF Sound
<1>2. c \in BOOLEAN
  OBVIOUS
<1>3. Map(S, w) = S \/ Map(S, w) = SetWmState(T, w, "Normal")
  BY DEF Map
<1> HIDE DEF c
<1>4. r \in Record
  BY <1>1, <1>2, RecordChanges
<1>5. FlagsOf(r, S.win[w])
  BY <1>1 DEF FlagsOf, Record
<1> HIDE DEF r
<1>6. FlagsOnly(S, T) /\ Sound(T)
  BY <1>4, <1>5, RecordFollows
<1> HIDE DEF T
<1>7. FlagsOnly(T, SetWmState(T, w, "Normal"))
  BY <1>6, WmStateFollows
<1>8. FlagsOnly(S, S)
  BY DEF FlagsOnly, SameWindow
<1>9. QED
  BY <1>3, <1>6, <1>7, <1>8, FlagsTrans

\* A client withdraws its window.
LEMMA WithdrawFlags ==
    ASSUME NEW S, Sound(S), NEW w \in Windows
    PROVE  FlagsOnly(S, Withdraw(S, w))
<1> DEFINE c == S.win[w].managed
           r == [S.win[w] EXCEPT !.placed = FALSE, !.unmanaging = c, !.managed = FALSE]
           T == [S EXCEPT !.win[w] = r]
<1>1. S \in States /\ S.win[w] \in Record /\ c \in BOOLEAN
  BY StateTypes, RecordTypes DEF Sound
<1>2. Withdraw(S, w) = SetWmState(T, w, "Withdrawn")
  BY DEF Withdraw
<1> HIDE DEF c
<1>3. r \in Record
  BY <1>1, RecordChanges
<1>4. FlagsOf(r, S.win[w])
  BY <1>1 DEF FlagsOf, Record
<1> HIDE DEF r
<1>5. FlagsOnly(S, T) /\ Sound(T)
  BY <1>3, <1>4, RecordFollows
<1> HIDE DEF T
<1>6. FlagsOnly(T, SetWmState(T, w, "Withdrawn"))
  BY <1>5, WmStateFollows
<1>7. QED
  BY <1>2, <1>5, <1>6, FlagsTrans

\* A withdrawn window's flags
LEMMA WithdrawnFlags ==
    ASSUME NEW S, Sound(S), NEW w \in Windows, NEW synthetic \in BOOLEAN
    PROVE  FlagsOnly(S, Withdrawn(S, w, synthetic))
<1> DEFINE r == [S.win[w] EXCEPT !.minimized = FALSE]
           T == [S EXCEPT !.win[w] = r]
           U == ChangeState(T, w, S.win[w].stateShaded, FALSE)
<1>1. S \in States /\ S.win[w] \in Record /\ S.win[w].stateShaded \in BOOLEAN
  BY StateTypes, RecordTypes DEF Sound
<1>2. [S EXCEPT !.win[w].minimized = FALSE] = T
  BY <1>1 DEF States
<1>3. Withdrawn(S, w, synthetic) \in {Withdraw(U, w), Withdraw(S, w), S}
  BY <1>2 DEF Withdrawn
<1>4. r \in Record
  BY <1>1, RecordChanges
<1>5. FlagsOf(r, S.win[w])
  BY <1>1 DEF FlagsOf, Record
<1> HIDE DEF r
<1>6. FlagsOnly(S, T) /\ Sound(T)
  BY <1>4, <1>5, RecordFollows
<1> HIDE DEF T
<1>7. FlagsOnly(T, U) /\ Sound(U)
  <2>1. FALSE \in BOOLEAN
    OBVIOUS
  <2>2. FlagsOnly(T, U)
    BY <1>1, <1>6, <2>1, ChangeStateFlags
  <2> HIDE DEF U
  <2>3. QED
    BY <2>2 DEF FlagsOnly
<1> HIDE DEF U
<1>8. FlagsOnly(U, Withdraw(U, w)) /\ FlagsOnly(S, Withdraw(S, w))
  BY <1>7, WithdrawFlags
<1>9. FlagsOnly(S, S)
  BY DEF FlagsOnly, SameWindow
<1>10. QED
  BY <1>3, <1>6, <1>7, <1>8, <1>9, FlagsTrans

-----------------------------------------------------------------------------
(* Frames.                                                                 *)

\* A window that compiz knows, and that has not left, gets a frame.
LEMMA ReparentWithin ==
    ASSUME NEW S, NEW ask, Within(S, ask), NEW w \in Windows, S.win[w].stage = "window"
    PROVE  LET T == Reparent(S, w)
           IN  /\ Within(T, ask) /\ T.number = S.number /\ T.queue = S.queue
               /\ \A x \in Windows : /\ T.win[x].stage = S.win[x].stage
                                     /\ T.win[x].showDesktop = S.win[x].showDesktop
                                     /\ T.srv[x].parent \in {S.srv[x].parent, "wrapper"}
<1> DEFINE c == S.srv[w].mapped \/ S.win[w].shaded
           r == [S.win[w] EXCEPT !.frame = TRUE]
           a == [S.srv[w] EXCEPT !.parent = "wrapper", !.selected = TRUE, !.frameMapped = c]
           T == Updated(S, w, r, a, S.crossed[w])
<1>1. Sound(S) /\ S \in States /\ S.win[w] \in Record /\ S.srv[w] \in Attributes
      /\ S.crossed[w] \in BOOLEAN /\ S.queue \in Seq(Events)
      /\ (S.srv[w].mapped => S.srv[w].exists)
  BY StateTypes DEF Within, Between, Sound, MappedExist
<1>2. r \in Record
  BY <1>1, RecordChanges
<1>3. a \in Attributes
  <2>1. c \in BOOLEAN
    OBVIOUS
  <2> HIDE DEF c
  <2>2. QED
    BY <1>1, <2>1, AttributeChanges
<1>4. /\ r.stage = S.win[w].stage /\ r.frame = TRUE /\ r.desktop = S.win[w].desktop
      /\ r.pendingUnmaps = S.win[w].pendingUnmaps /\ r.showDesktop = S.win[w].showDesktop
  BY <1>1 DEF Record
<1>5. a.parent = "wrapper" /\ a.exists = S.srv[w].exists /\ a.mapped = S.srv[w].mapped
  BY <1>1 DEF Attributes
<1>6. CASE S.win[w].frame \/ ~S.srv[w].exists
  BY <1>1, <1>6, StateTypes DEF Reparent
<1>7. CASE ~(S.win[w].frame \/ ~S.srv[w].exists)
  <2>1. Reparent(S, w) = T
    BY <1>1, <1>7 DEF Reparent, Updated, States
  <2> HIDE DEF c, r, a
  <2>2. S.crossed[w] \in BOOLEAN /\ (a.mapped => a.exists)
    BY <1>1, <1>5
  <2>3. T = Updated(S, w, r, a, S.crossed[w])
    OBVIOUS
  <2> HIDE DEF T
  <2>4. /\ Sound(T) /\ T.win[w] = r /\ T.srv[w] = a /\ T.crossed[w] = S.crossed[w]
        /\ T.queue = S.queue /\ T.current = S.current /\ T.number = S.number /\ T.mask = S.mask
        /\ \A x \in Windows \ {w} :
               T.win[x] = S.win[x] /\ T.srv[x] = S.srv[x] /\ T.crossed[x] = S.crossed[x]
    BY SMTT(30), <1>1, <1>2, <1>3, <2>2, <2>3, UpdatedSound
  <2>5. \A x \in Windows \ {w} : WindowInv(T, x, ask[x]) /\ Here(T, x)
    <3>1. \A x \in Windows \ {w} : SameBooks(S, T, x)
      BY <2>4 DEF SameBooks
    <3>2. QED
      BY <3>1, SameInv DEF Within, Between
  <2>6. /\ Sound(T) /\ T.win[w] = r /\ T.srv[w] = a /\ T.crossed[w] = S.crossed[w]
        /\ T.queue = S.queue /\ T.current = S.current /\ T.number = S.number /\ T.mask = S.mask
        /\ \A x \in Windows \ {w} :
               /\ T.win[x] = S.win[x] /\ T.srv[x] = S.srv[x] /\ T.crossed[x] = S.crossed[x]
               /\ WindowInv(T, x, ask[x]) /\ Here(T, x)
    BY <2>4, <2>5
  <2>7. WindowInv(S, w, ask[w]) /\ Here(S, w)
    BY DEF Within, Between
  <2>8. ~\E i \in 1..Len(S.queue) : Is(S.queue[i], "CreateNotify", w)
    BY <2>7 DEF WindowInv, Uncounted, CreatedFirst
  <2>9. ~S.crossed[w] => S.srv[w].parent # "other"
                         /\ \A i \in 1..Len(S.queue) : ~Leaves(S.queue[i], w) /\ ~Returns(S.queue[i], w)
    BY <2>7 DEF WindowInv, Uncounted, ReturnsFirst, Here
  <2>10. T.win[w].stage = "window"
    BY <1>4, <2>6
  <2>11. Counted(T, w) /\ Ordered(T, w) /\ CreatedFirst(T, w)
    <3>1. Counted(T, w)
      BY <1>4, <2>6, <2>7 DEF WindowInv, Uncounted, Counted
    <3>2. Ordered(T, w)
      BY <1>4, <2>6, <2>7 DEF WindowInv, Uncounted, Ordered
    <3>3. CreatedFirst(T, w)
      BY <2>6, <2>8 DEF CreatedFirst
    <3>4. QED
      BY <3>1, <3>2, <3>3
  <2>12. Comes(T, w) /\ ReturnsFirst(T, w) /\ LeavesFirst(T, w) /\ Here(T, w)
    BY <1>5, <2>6, <2>8, <2>9, <2>10 DEF Comes, Coming, ReturnsFirst, LeavesFirst, Here
  <2>13. Framed(T, w) /\ Gone(T, w) /\ LeftOrGivenBack(T, w, ask[w])
    <3>1. Framed(T, w)
      BY <1>4, <1>5, <2>6, <2>10 DEF Framed
    <3>2. Gone(T, w)
      BY <1>5, <2>6, <2>7 DEF WindowInv, Uncounted, Gone
    <3>3. LeftOrGivenBack(T, w, ask[w])
      BY <1>5, <2>6, <2>7, <2>9 DEF WindowInv, Uncounted, LeftOrGivenBack
    <3>4. QED
      BY <3>1, <3>2, <3>3
  <2>14. WindowInv(T, w, ask[w]) /\ Here(T, w)
    BY <2>11, <2>12, <2>13 DEF WindowInv, Uncounted
  <2>15. Placed(T) /\ ModeCovers(T)
    BY <1>4, <2>6 DEF Within, Between, Placed, ModeCovers
  <2>16. Within(T, ask)
    <3>1. \A x \in Windows : WindowInv(T, x, ask[x]) /\ Here(T, x)
      BY <2>6, <2>14
    <3>2. QED
      BY <2>6, <2>15, <3>1 DEF Within, Between
  <2>17. \A x \in Windows : /\ T.win[x].stage = S.win[x].stage
                            /\ T.win[x].showDesktop = S.win[x].showDesktop
                            /\ T.srv[x].parent \in {S.srv[x].parent, "wrapper"}
    BY <1>4, <1>5, <2>6
  <2>18. QED
    BY <2>1, <2>6, <2>16, <2>17
<1>8. QED
  BY <1>6, <1>7

-----------------------------------------------------------------------------
(* The next event is taken from the queue.                                 *)

Pop(S) == [S EXCEPT !.queue = Tail(@)]

\* What taking an event changes.
LEMMA PopFacts ==
    ASSUME NEW S, Sound(S), S.queue # <<>>
    PROVE  /\ Sound(Pop(S)) /\ Pop(S) \in States
           /\ Pop(S).win = S.win /\ Pop(S).srv = S.srv /\ Pop(S).crossed = S.crossed
           /\ Pop(S).current = S.current /\ Pop(S).number = S.number /\ Pop(S).mask = S.mask
           /\ Pop(S).queue = Tail(S.queue) /\ Len(Pop(S).queue) = Len(S.queue) - 1
           /\ Len(S.queue) \in Nat /\ Len(S.queue) > 0
           /\ \A i \in 1..Len(S.queue) - 1 : Pop(S).queue[i] = S.queue[i + 1]
<1>1. S \in States /\ S.queue \in Seq(Events) /\ MappedExist(S)
  BY DEF Sound, States
<1>2. PICK n \in Nat : n = Len(S.queue) /\ n > 0
  BY <1>1
<1>3. /\ Tail(S.queue) \in Seq(Events) /\ Len(Tail(S.queue)) = n - 1
      /\ \A i \in 1..n - 1 : Tail(S.queue)[i] = S.queue[i + 1]
  BY <1>1, <1>2
<1>4. /\ Pop(S) \in States /\ Pop(S).queue = Tail(S.queue)
      /\ Pop(S).win = S.win /\ Pop(S).srv = S.srv /\ Pop(S).crossed = S.crossed
      /\ Pop(S).current = S.current /\ Pop(S).number = S.number /\ Pop(S).mask = S.mask
  <2> DEFINE t == Tail(S.queue)
  <2>1. Pop(S) = [S EXCEPT !.queue = t]
    BY DEF Pop
  <2>2. t \in Seq(Events)
    BY <1>3
  <2> HIDE DEF t
  <2>3. QED
    BY <1>1, <2>1, <2>2 DEF States, t
<1>5. Sound(Pop(S))
  BY <1>1, <1>4 DEF Sound, MappedExist
<1>6. QED
  BY <1>2, <1>3, <1>4, <1>5

\* The invariant of a window that compiz does not know, or of which the event
\* tells no leaving: the count needs that it tells no unmap of compiz.
LEMMA PopInv ==
    ASSUME NEW S, Sound(S), S.queue # <<>>, NEW x \in Windows, NEW ask,
           WindowInv(S, x, ask),
           S.win[x].stage = "window" => ~Leaves(S.queue[1], x)
    PROVE  /\ Uncounted(Pop(S), x, ask)
           /\ S.win[x].stage # "window" \/ S.crossed[x] \/ ~WmUnmap(S.queue[1], x) =>
                  WindowInv(Pop(S), x, ask)
           /\ ~S.crossed[x] => \A i \in 1..Len(Pop(S).queue) : ~Returns(Pop(S).queue[i], x)
<1> DEFINE P == Pop(S)
<1>1. /\ P.win = S.win /\ P.srv = S.srv /\ P.crossed = S.crossed /\ P.queue = Tail(S.queue)
      /\ Sound(P)
  BY PopFacts
<1>2. PICK n \in Nat : n = Len(S.queue) /\ n > 0 /\ n - 1 = Len(P.queue)
                       /\ \A i \in 1..n - 1 : P.queue[i] = S.queue[i + 1]
  BY PopFacts
<1> HIDE DEF P
<1>3. /\ Counted(S, x) /\ Ordered(S, x) /\ CreatedFirst(S, x) /\ Comes(S, x)
      /\ ReturnsFirst(S, x) /\ LeavesFirst(S, x) /\ Framed(S, x) /\ Gone(S, x)
      /\ LeftOrGivenBack(S, x, ask)
  BY DEF WindowInv, Uncounted
<1>4. \A i \in 1..n - 1 : i + 1 \in 1..n /\ i + 1 # 1 /\ P.queue[i] = S.queue[i + 1]
  BY <1>2
<1>5. ASSUME S.win[x].stage = "window", \E i \in 1..n : Leaves(S.queue[i], x)
      PROVE  \E i \in 1..n - 1 : Leaves(P.queue[i], x)
  <2>1. PICK i \in 1..n : Leaves(S.queue[i], x)
    BY <1>5
  <2>2. i # 1
    BY <1>5, <2>1
  <2>3. i - 1 \in 1..n - 1 /\ P.queue[i - 1] = S.queue[i]
    BY <1>2, <2>2
  <2>4. QED
    BY <2>1, <2>3
<1>6. S.win[x].stage # "window" \/ S.crossed[x] \/ ~WmUnmap(S.queue[1], x) => Counted(P, x)
  <2>1. SUFFICES ASSUME S.win[x].stage = "window", ~S.crossed[x], ~WmUnmap(S.queue[1], x)
                 PROVE  S.win[x].pendingUnmaps = Count(P.queue, x)
    BY <1>1 DEF Counted
  <2>2. S.queue \in Seq(Events)
    BY DEF Sound, States
  <2>3. Count(S.queue, x) = Count(Tail(S.queue), x)
    BY <2>1, <2>2, CountTail
  <2>4. QED
    BY <1>1, <1>3, <2>1, <2>3 DEF Counted
<1>7. Ordered(P, x)
  <2>1. SUFFICES ASSUME S.win[x].stage = "window", ~S.crossed[x],
                        NEW i \in 1..n - 1, NEW j \in 1..n - 1, i < j, ClientUnmap(P.queue[i], x)
                 PROVE  ~WmUnmap(P.queue[j], x)
    BY <1>1, <1>2 DEF Ordered
  <2>2. i + 1 < j + 1
    BY <2>1
  <2>3. QED
    BY <1>2, <1>3, <1>4, <2>1, <2>2 DEF Ordered
<1>8. CreatedFirst(P, x)
  <2>1. SUFFICES ASSUME NEW i \in 1..n - 1, Is(P.queue[i], "CreateNotify", x)
                 PROVE  S.win[x].stage = "none" /\ \A j \in 1..i - 1 : P.queue[j].win # x
    BY <1>1, <1>2 DEF CreatedFirst
  <2>2. S.win[x].stage = "none" /\ \A j \in 1..(i + 1) - 1 : S.queue[j].win # x
    BY <1>2, <1>3, <1>4, <2>1 DEF CreatedFirst
  <2>3. \A j \in 1..i - 1 : j + 1 \in 1..(i + 1) - 1 /\ P.queue[j] = S.queue[j + 1]
    BY <1>4
  <2>4. QED
    BY <2>2, <2>3
<1>9. Comes(P, x)
  BY <1>1, <1>2, <1>3, <1>4 DEF Comes, Coming
<1>10. ~S.crossed[x] => \A i \in 1..n - 1 : ~Returns(P.queue[i], x)
  BY <1>2, <1>3, <1>4 DEF ReturnsFirst
<1>11. ReturnsFirst(P, x)
  BY <1>1, <1>2, <1>10 DEF ReturnsFirst
<1>12. LeavesFirst(P, x)
  <2>1. SUFFICES ASSUME S.win[x].stage = "window", ~S.crossed[x]
                 PROVE  /\ S.srv[x].parent = "other" => \E i \in 1..n - 1 : Leaves(P.queue[i], x)
                        /\ \A i \in 1..n - 1 : Leaves(P.queue[i], x) =>
                              S.srv[x].parent # "wrapper" /\ i = 1
    BY <1>1, <1>2 DEF LeavesFirst
  <2>2. S.srv[x].parent = "other" => \E i \in 1..n - 1 : Leaves(P.queue[i], x)
    BY <1>2, <1>3, <1>5, <2>1 DEF LeavesFirst
  <2>3. ASSUME NEW i \in 1..n - 1, Leaves(P.queue[i], x)
        PROVE  S.srv[x].parent # "wrapper" /\ i = 1
    <3>1. S.srv[x].parent # "wrapper" /\ i + 1 = 2
      BY <1>2, <1>3, <1>4, <2>1, <2>3 DEF LeavesFirst
    <3>2. QED
      BY <3>1
  <2>4. QED
    BY <2>2, <2>3
<1>13. Framed(P, x)
  BY <1>1, <1>2, <1>3, <1>5 DEF Framed
<1>14. Gone(P, x)
  BY <1>1, <1>2, <1>3, <1>4 DEF Gone
<1>15. LeftOrGivenBack(P, x, ask)
  BY <1>1, <1>2, <1>3, <1>5 DEF LeftOrGivenBack
<1>16. Uncounted(P, x, ask)
  BY <1>7, <1>8, <1>9, <1>11, <1>12, <1>13, <1>14, <1>15 DEF Uncounted
<1>17. QED
  BY <1>1, <1>2, <1>6, <1>10, <1>16 DEF P, WindowInv

\* A window of which the event tells neither an unmap nor a leaving is where
\* compiz put it.
LEMMA PopHere ==
    ASSUME NEW S, Sound(S), S.queue # <<>>, NEW x \in Windows, NEW ask,
           WindowInv(S, x, ask),
           ~Is(S.queue[1], "UnmapNotify", x), ~Leaves(S.queue[1], x)
    PROVE  Here(Pop(S), x)
<1> DEFINE P == Pop(S)
<1>1. /\ P.win = S.win /\ P.srv = S.srv /\ P.crossed = S.crossed
  BY PopFacts
<1>2. PICK n \in Nat : n = Len(S.queue) /\ n > 0 /\ n - 1 = Len(P.queue)
                       /\ \A i \in 1..n - 1 : P.queue[i] = S.queue[i + 1]
  BY PopFacts
<1> HIDE DEF P
<1>3. SUFFICES ASSUME S.win[x].stage = "window", ~S.crossed[x]
               PROVE  /\ S.srv[x].parent # "other"
                      /\ \A i \in 1..n - 1 : ~Leaves(P.queue[i], x)
  BY <1>1, <1>2 DEF Here, P
<1>4. \A i \in 1..n : ~Leaves(S.queue[i], x)
  BY <1>2, <1>3 DEF WindowInv, Uncounted, LeavesFirst
<1>5. \A i \in 1..n - 1 : i + 1 \in 1..n
  BY <1>2
<1>6. QED
  BY <1>2, <1>3, <1>4, <1>5 DEF WindowInv, Uncounted, LeavesFirst

\* Any event but an unmap and a reparenting to another parent leaves compiz
\* with windows that are where it put them.
LEMMA PopWithin ==
    ASSUME NEW S, NEW ask, Between(S, ask), S.queue # <<>>,
           S.queue[1].type # "UnmapNotify",
           S.queue[1].type = "ReparentNotify" => S.queue[1].arg = "root"
    PROVE  Within(Pop(S), ask)
<1>1. Sound(S) /\ Placed(S) /\ ModeCovers(S)
  BY DEF Between
<1>2. \A x \in Windows : WindowInv(Pop(S), x, ask[x])
  <2>1. SUFFICES ASSUME NEW x \in Windows PROVE WindowInv(Pop(S), x, ask[x])
    OBVIOUS
  <2>2. WindowInv(S, x, ask[x])
    BY DEF Between
  <2>3. ~Leaves(S.queue[1], x) /\ ~WmUnmap(S.queue[1], x)
    BY DEF Leaves, WmUnmap
  <2>4. QED
    BY <1>1, <2>2, <2>3, PopInv
<1>3. \A x \in Windows : Here(Pop(S), x)
  <2>1. SUFFICES ASSUME NEW x \in Windows PROVE Here(Pop(S), x)
    OBVIOUS
  <2>2. WindowInv(S, x, ask[x])
    BY DEF Between
  <2>3. ~Leaves(S.queue[1], x) /\ ~Is(S.queue[1], "UnmapNotify", x)
    BY DEF Leaves, Is
  <2>4. QED
    BY <1>1, <2>2, <2>3, PopHere
<1>4. Sound(Pop(S)) /\ Placed(Pop(S)) /\ ModeCovers(Pop(S))
  BY <1>1, PopFacts DEF Placed, ModeCovers
<1>5. QED
  BY <1>2, <1>3, <1>4 DEF Within, Between

\* What remains of the invariant when an event about w is taken
LEMMA PopOther ==
    ASSUME NEW S, NEW ask, Between(S, ask), S.queue # <<>>, NEW w \in Windows,
           S.queue[1].win = w
    PROVE  /\ Sound(Pop(S)) /\ Placed(Pop(S)) /\ ModeCovers(Pop(S))
           /\ \A x \in Windows \ {w} : WindowInv(Pop(S), x, ask[x])
<1>1. Sound(S) /\ Placed(S) /\ ModeCovers(S)
  BY DEF Between
<1>2. ASSUME NEW x \in Windows \ {w} PROVE WindowInv(Pop(S), x, ask[x])
  <2>1. WindowInv(S, x, ask[x])
    BY DEF Between
  <2>2. ~Leaves(S.queue[1], x) /\ ~WmUnmap(S.queue[1], x)
    BY DEF Leaves, WmUnmap
  <2>3. QED
    BY <1>1, <2>1, <2>2, PopInv
<1>3. Sound(Pop(S)) /\ Placed(Pop(S)) /\ ModeCovers(Pop(S))
  BY <1>1, PopFacts DEF Placed, ModeCovers
<1>4. QED
  BY <1>2, <1>3

\* An event about a window compiz does not know is dropped.
LEMMA PopUnknown ==
    ASSUME NEW S, NEW ask, Between(S, ask), S.queue # <<>>, NEW w \in Windows,
           S.queue[1].win = w, S.win[w].stage # "window"
    PROVE  Between(Pop(S), ask)
<1>1. WindowInv(S, w, ask[w]) /\ Sound(S)
  BY DEF Between
<1>2. WindowInv(Pop(S), w, ask[w])
  BY <1>1, PopInv
<1>3. QED
  BY <1>2, PopOther DEF Between

-----------------------------------------------------------------------------
(* An event joins the queue that the invariant of x allows at any time.    *)

Neutral(S, e, x) ==
    /\ ~WmUnmap(e, x) /\ ~Leaves(e, x) /\ ~Returns(e, x) /\ ~Is(e, "CreateNotify", x)
    /\ Is(e, "MapRequest", x) => S.srv[x].parent # "other"
    /\ Is(e, "DestroyNotify", x) => ~S.srv[x].exists /\ (e.arg = "client" \/ S.crossed[x])

\* It keeps the invariant of x.
LEMMA SendInv ==
    ASSUME NEW S, Sound(S), NEW e \in Events, NEW x \in Windows, NEW ask,
           WindowInv(S, x, ask), Neutral(S, e, x)
    PROVE  WindowInv(Send(S, e), x, ask) /\ (Here(S, x) => Here(Send(S, e), x))
<1> DEFINE T == Send(S, e)
<1>1. S \in States /\ S.queue \in Seq(Events)
  BY DEF Sound, States
<1>2. /\ T.win = S.win /\ T.srv = S.srv /\ T.crossed = S.crossed
      /\ T.queue = Append(S.queue, e)
  BY <1>1, SendFacts
<1>3. /\ Len(T.queue) = Len(S.queue) + 1 /\ T.queue[Len(S.queue) + 1] = e
      /\ \A i \in 1..Len(S.queue) : T.queue[i] = S.queue[i]
  BY <1>1, SendFacts
<1> HIDE DEF T
<1>4. PICK n \in Nat : n = Len(S.queue) /\ Len(T.queue) = n + 1 /\ T.queue[n + 1] = e
                       /\ \A i \in 1..n : T.queue[i] = S.queue[i]
  <2>1. Len(S.queue) \in Nat
    BY <1>1
  <2>2. QED
    BY <1>3, <2>1
<1>5. /\ Counted(S, x) /\ Ordered(S, x) /\ CreatedFirst(S, x) /\ Comes(S, x)
      /\ ReturnsFirst(S, x) /\ LeavesFirst(S, x) /\ Framed(S, x) /\ Gone(S, x)
      /\ LeftOrGivenBack(S, x, ask)
  BY DEF WindowInv, Uncounted
<1>6. ASSUME NEW i \in 1..n + 1
      PROVE  \/ i \in 1..n /\ T.queue[i] = S.queue[i]
             \/ /\ i = n + 1 /\ T.queue[i] = e
                /\ ~WmUnmap(T.queue[i], x) /\ ~Leaves(T.queue[i], x) /\ ~Returns(T.queue[i], x)
                /\ ~Is(T.queue[i], "CreateNotify", x)
                /\ Is(T.queue[i], "MapRequest", x) => S.srv[x].parent # "other"
                /\ Is(T.queue[i], "DestroyNotify", x) =>
                       ~S.srv[x].exists /\ (T.queue[i].arg = "client" \/ S.crossed[x])
  <2>1. i \in 1..n \/ i = n + 1
    BY <1>4
  <2>2. QED
    BY <1>4, <2>1 DEF Neutral
<1>7. (\E i \in 1..n + 1 : Leaves(T.queue[i], x)) <=> \E i \in 1..n : Leaves(S.queue[i], x)
  <2>1. \A i \in 1..n : i \in 1..n + 1
    BY <1>4
  <2>2. QED
    BY <1>4, <1>6, <2>1
<1>8. Counted(T, x)
  BY <1>1, <1>2, <1>5, CountAppend DEF Counted, Neutral
<1>9. Ordered(T, x)
  <2>1. SUFFICES ASSUME S.win[x].stage = "window", ~S.crossed[x],
                        NEW i \in 1..n + 1, NEW j \in 1..n + 1, i < j, ClientUnmap(T.queue[i], x)
                 PROVE  ~WmUnmap(T.queue[j], x)
    BY <1>2, <1>4 DEF Ordered
  <2>2. i \in 1..n
    BY <1>4, <2>1
  <2>3. QED
    BY <1>4, <1>5, <1>6, <2>1, <2>2 DEF Ordered
<1>10. CreatedFirst(T, x)
  <2>1. SUFFICES ASSUME NEW i \in 1..n + 1, Is(T.queue[i], "CreateNotify", x)
                 PROVE  S.win[x].stage = "none" /\ \A j \in 1..i - 1 : T.queue[j].win # x
    BY <1>2, <1>4 DEF CreatedFirst
  <2>2. i \in 1..n /\ Is(S.queue[i], "CreateNotify", x)
    BY <1>6, <2>1
  <2>3. \A j \in 1..i - 1 : T.queue[j] = S.queue[j]
    BY <1>4, <2>2
  <2>4. QED
    BY <1>4, <1>5, <2>2, <2>3 DEF CreatedFirst
<1>11. Comes(T, x)
  <2>1. SUFFICES ASSUME Coming(T, x), NEW i \in 1..n + 1
                 PROVE  /\ ~WmUnmap(T.queue[i], x)
                        /\ ~S.crossed[x] =>
                              /\ Is(T.queue[i], "MapRequest", x) => S.srv[x].parent # "other"
                              /\ Leaves(T.queue[i], x) => S.srv[x].parent = "other"
    BY <1>2, <1>4 DEF Comes
  <2>2. Coming(S, x)
    BY <1>2, <1>4, <1>6, <2>1 DEF Coming
  <2>3. QED
    BY <1>4, <1>5, <1>6, <2>2 DEF Comes
<1>12. ReturnsFirst(T, x)
  <2>1. SUFFICES ASSUME ~S.crossed[x], NEW i \in 1..n + 1, Returns(T.queue[i], x)
                 PROVE  /\ i = 1 /\ S.win[x].stage # "window" /\ S.srv[x].parent = "root"
                        /\ \A j \in 1..n + 1 : ~WmUnmap(T.queue[j], x) /\ ~Leaves(T.queue[j], x)
    BY <1>2, <1>4 DEF ReturnsFirst
  <2>2. i \in 1..n /\ Returns(S.queue[i], x)
    BY <1>6, <2>1
  <2>3. QED
    BY <1>4, <1>5, <1>6, <2>1, <2>2 DEF ReturnsFirst
<1>13. LeavesFirst(T, x)
  <2>1. SUFFICES ASSUME S.win[x].stage = "window", ~S.crossed[x]
                 PROVE  /\ S.srv[x].parent = "other" => \E i \in 1..n + 1 : Leaves(T.queue[i], x)
                        /\ \A i \in 1..n + 1 : Leaves(T.queue[i], x) =>
                              /\ S.srv[x].parent # "wrapper"
                              /\ i = 1 \/ (i = 2 /\ Is(T.queue[1], "UnmapNotify", x))
    BY <1>2, <1>4 DEF LeavesFirst
  <2>2. ASSUME NEW i \in 1..n + 1, Leaves(T.queue[i], x)
        PROVE  /\ S.srv[x].parent # "wrapper"
               /\ i = 1 \/ (i = 2 /\ Is(T.queue[1], "UnmapNotify", x))
    <3>1. i \in 1..n /\ Leaves(S.queue[i], x)
      BY <1>6, <2>2
    <3>2. /\ S.srv[x].parent # "wrapper"
          /\ i = 1 \/ (i = 2 /\ Is(S.queue[1], "UnmapNotify", x))
      BY <1>4, <1>5, <2>1, <3>1 DEF LeavesFirst
    <3>3. T.queue[1] = S.queue[1]
      BY <1>4, <3>1
    <3>4. QED
      BY <3>2, <3>3
  <2>3. QED
    BY <1>4, <1>5, <1>7, <2>1, <2>2 DEF LeavesFirst
<1>14. Framed(T, x)
  BY <1>2, <1>4, <1>5, <1>7 DEF Framed
<1>15. Gone(T, x)
  <2>1. SUFFICES ASSUME NEW i \in 1..n + 1, Is(T.queue[i], "DestroyNotify", x)
                 PROVE  ~S.srv[x].exists /\ (T.queue[i].arg = "client" \/ S.crossed[x])
    BY <1>2, <1>4 DEF Gone
  <2>2. QED
    BY <1>4, <1>5, <1>6, <2>1 DEF Gone
<1>16. LeftOrGivenBack(T, x, ask)
  BY <1>2, <1>4, <1>5, <1>7 DEF LeftOrGivenBack
<1>17. Here(S, x) => Here(T, x)
  BY <1>2, <1>4, <1>7 DEF Here
<1>18. QED
  BY <1>8, <1>9, <1>10, <1>11, <1>12, <1>13, <1>14, <1>15, <1>16, <1>17 DEF WindowInv, Uncounted, T

=============================================================================
