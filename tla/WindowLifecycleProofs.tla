------------------------ MODULE WindowLifecycleProofs ------------------------
(***************************************************************************)
(* Theorems about the life of windows, for every number of windows,        *)
(* desktops and client requests: windows and desktops agree, the unmaps of *)
(* compiz are told from those of clients, and windows that leave are let   *)
(* go whole.  Each event that compiz handles and each request of a client  *)
(* keeps the inductive invariant of WindowLifecycleLemmas.                 *)
(***************************************************************************)
EXTENDS WindowLifecycleHandlers

-----------------------------------------------------------------------------
(* Events that compiz handles.                                             *)

\* What a handler makes of the state is the next state.
LEMMA BecomesIs ==
    ASSUME NEW T, T \in States, Becomes(T)
    PROVE  S0' = T
BY DEF Becomes, S0, States

\* A handler that keeps the invariant of the state
LEMMA HandledKeeps ==
    ASSUME IInv, NEW T, Between(T, asked), Handled(T)
    PROVE  IInv'
<1>1. T \in States /\ Becomes(T) /\ asked' = asked /\ course' = course
  BY DEF Between, Sound, Handled
<1>2. S0' = T
  BY <1>1, BecomesIs
<1>3. QED
  BY <1>1, <1>2 DEF IInv

\* The next event and the window it is about
LEMMA HeadFacts ==
    ASSUME IInv, queue # <<>>
    PROVE  /\ S0.queue # <<>> /\ S0.win = win /\ S0.srv = srv /\ S0.queue = queue
           /\ S0.crossed = crossed /\ Head(queue) = S0.queue[1] /\ Head(queue) \in Events
           /\ Popped = Pop(S0) /\ Pop(S0).win = win /\ Pop(S0).srv = srv
           /\ Between(S0, asked) /\ Sound(S0)
<1>1. Between(S0, asked) /\ Sound(S0) /\ S0 \in States
  BY DEF IInv, Between, Sound
<1>2. /\ S0.win = win /\ S0.srv = srv /\ S0.queue = queue /\ S0.crossed = crossed
  BY DEF S0
<1>3. queue \in Seq(Events)
  BY <1>1, <1>2 DEF States
<1>4. Head(queue) = queue[1] /\ Head(queue) \in Events
  BY <1>3
<1>5. Popped = Pop(S0)
  BY DEF Popped, Pop
<1>6. QED
  BY <1>1, <1>2, <1>4, <1>5, PopFacts

\* Events about windows
LEMMA EventWindow ==
    ASSUME NEW e \in Events
    PROVE  e.type \notin {"CurrentDesktop", "NumberOfDesktops", "ShowingDesktop"} =>
               e.win \in Windows
BY DEF Events, WindowEvents

\* Every window is where compiz put it while it handles a message.
LEMMA MessageWithin ==
    ASSUME IInv, queue # <<>>, Head(queue).type \notin {"UnmapNotify", "ReparentNotify"}
    PROVE  Within(Popped, asked) /\ Sound(Popped)
<1>1. Within(Popped, asked)
  BY HeadFacts, PopWithin
<1>2. QED
  BY <1>1 DEF Within, Between

\* A message about a window: nothing is done about one that compiz does not
\* know.
LEMMA OfWindowKeeps ==
    ASSUME IInv, NEW type \in {"Iconify", "Deiconify", "Active", "Shade", "WinDesktop"},
           NEW T, OfWindow(type, T),
           Subject \in Windows /\ Within(Popped, asked) => Within(T, asked)
    PROVE  IInv'
<1>1. queue # <<>> /\ Head(queue).type = type /\ Handled(IF Found THEN T ELSE Popped)
  BY DEF OfWindow, Next1
<1>2. Within(Popped, asked)
  BY <1>1, MessageWithin
<1>3. Subject \in Windows
  BY <1>1, HeadFacts, EventWindow DEF Subject
<1>4. Within(IF Found THEN T ELSE Popped, asked)
  BY <1>2, <1>3
<1>5. QED
  BY <1>1, <1>4, HandledKeeps DEF Within

\* A window is minimized.
LEMMA IconifyKeeps ==
    ASSUME IInv, IconifyMessage
    PROVE  IInv'
<1> DEFINE T == IF TransientFor[Subject] = NoWindow THEN Minimize(Popped, Subject) ELSE Popped
<1>1. OfWindow("Iconify", T)
  BY DEF IconifyMessage
<1>2. ASSUME Subject \in Windows, Within(Popped, asked) PROVE Within(T, asked)
  <2>1. Sound(Popped)
    BY <1>2 DEF Within, Between
  <2>2. Follows(Popped, Minimize(Popped, Subject))
    BY <1>2, <2>1, MinimizeFollows
  <2>3. QED
    BY <1>2, <2>2, FollowsWithin
<1> HIDE DEF T
<1>3. QED
  BY <1>1, <1>2, OfWindowKeeps

\* A window is unminimized.
LEMMA DeiconifyKeeps ==
    ASSUME IInv, DeiconifyMessage
    PROVE  IInv'
<1>1. OfWindow("Deiconify", Unminimize(Popped, Subject))
  BY DEF DeiconifyMessage
<1>2. ASSUME Subject \in Windows, Within(Popped, asked)
      PROVE  Within(Unminimize(Popped, Subject), asked)
  <2>1. Sound(Popped)
    BY <1>2 DEF Within, Between
  <2>2. Follows(Popped, Unminimize(Popped, Subject))
    BY <1>2, <2>1, UnminimizeFollows
  <2>3. QED
    BY <1>2, <2>2, FollowsWithin
<1>3. QED
  BY <1>1, <1>2, OfWindowKeeps

\* A window is activated.
LEMMA ActiveKeeps ==
    ASSUME IInv, NEW allowed \in BOOLEAN, ActiveMessage(allowed)
    PROVE  IInv'
<1> DEFINE T == IF allowed THEN Activate(Popped, Subject) ELSE Popped
<1>1. OfWindow("Active", T)
  BY DEF ActiveMessage
<1>2. ASSUME Subject \in Windows, Within(Popped, asked) PROVE Within(T, asked)
  <2>1. Sound(Popped)
    BY <1>2 DEF Within, Between
  <2>2. Follows(Popped, Activate(Popped, Subject))
    BY <1>2, <2>1, ActivateFollows
  <2>3. QED
    BY <1>2, <2>2, FollowsWithin
<1> HIDE DEF T
<1>3. QED
  BY <1>1, <1>2, OfWindowKeeps

\* A window is shaded or not any more.
LEMMA ShadeKeeps ==
    ASSUME IInv, ShadeMessage
    PROVE  IInv'
<1> DEFINE X == ChangeState(Popped, Subject, Head(queue).arg, win[Subject].stateHidden)
           T == IF Head(queue).arg = win[Subject].stateShaded \/ ~win[Subject].managed
                THEN Popped ELSE UpdateAttributes(X, Subject)
<1>1. OfWindow("Shade", T)
  BY DEF ShadeMessage
<1>2. queue # <<>> /\ Head(queue).type = "Shade"
  BY <1>1 DEF OfWindow, Next1
<1>3. Head(queue).arg \in BOOLEAN
  BY <1>2, HeadFacts DEF Events, WindowEvents
<1>4. ASSUME Subject \in Windows, Within(Popped, asked) PROVE Within(T, asked)
  <2>1. Sound(Popped)
    BY <1>4 DEF Within, Between
  <2>2. win[Subject].stateHidden \in BOOLEAN
    BY <1>2, <1>4, HeadFacts, StateTypes, RecordTypes DEF Sound
  <2>3. Sound(X) /\ Follows(Popped, X)
    BY <1>3, <1>4, <2>1, <2>2, ChangeStateFollows
  <2> HIDE DEF X
  <2>4. Within(X, asked) /\ Follows(X, UpdateAttributes(X, Subject))
    BY <1>4, <2>3, FollowsWithin, UpdateAttributesFollows
  <2>5. Within(UpdateAttributes(X, Subject), asked)
    BY <2>4, FollowsWithin
  <2>6. QED
    BY <1>4, <2>5
<1> HIDE DEF T
<1>5. QED
  BY <1>1, <1>4, OfWindowKeeps

\* A window goes to another desktop.
LEMMA DesktopKeeps ==
    ASSUME IInv, DesktopMessage
    PROVE  IInv'
<1>1. OfWindow("WinDesktop", SetDesktop(Popped, Subject, Head(queue).arg))
  BY DEF DesktopMessage
<1>2. queue # <<>> /\ Head(queue).type = "WinDesktop"
  BY <1>1 DEF OfWindow, Next1
<1>3. Head(queue).arg \in AnyDesktop
  BY <1>2, HeadFacts DEF Events, WindowEvents
<1>4. ASSUME Subject \in Windows, Within(Popped, asked)
      PROVE  Within(SetDesktop(Popped, Subject, Head(queue).arg), asked)
  BY <1>3, <1>4, SetDesktopWithin
<1>5. QED
  BY <1>1, <1>4, OfWindowKeeps

\* The current desktop changes.
LEMMA CurrentKeeps ==
    ASSUME IInv, CurrentDesktopMessage
    PROVE  IInv'
<1>1. /\ queue # <<>> /\ Head(queue).type = "CurrentDesktop"
      /\ Handled(SetCurrentDesktop(Popped, Head(queue).arg))
  BY DEF CurrentDesktopMessage, Next1
<1>2. Within(Popped, asked) /\ Sound(Popped)
  BY <1>1, MessageWithin
<1>3. Head(queue).arg \in Nat
  <2>1. Head(queue).arg \in 0..Largest - 1
    BY <1>1, HeadFacts DEF Events, WindowEvents
  <2>2. QED
    BY <2>1, LargestType
<1>4. Within(SetCurrentDesktop(Popped, Head(queue).arg), asked)
  BY <1>2, <1>3, SetCurrentDesktopFollows, FollowsWithin
<1>5. QED
  BY <1>1, <1>4, HandledKeeps DEF Within

\* The number of desktops changes.
LEMMA NumberKeeps ==
    ASSUME IInv, NumberMessage
    PROVE  IInv'
<1>1. /\ queue # <<>> /\ Head(queue).type = "NumberOfDesktops"
      /\ Handled(SetNumberOfDesktops(Popped, Head(queue).arg))
  BY DEF NumberMessage, Next1
<1>2. Within(Popped, asked)
  BY <1>1, MessageWithin
<1>3. Head(queue).arg \in Desktops
  BY <1>1, HeadFacts DEF Events, WindowEvents
<1>4. Within(SetNumberOfDesktops(Popped, Head(queue).arg), asked)
  BY <1>2, <1>3, SetNumberWithin
<1>5. QED
  BY <1>1, <1>4, HandledKeeps DEF Within

\* Show desktop mode begins or ends.
LEMMA ShowingDesktopKeeps ==
    ASSUME IInv, ShowingDesktopMessage
    PROVE  IInv'
<1> DEFINE E == EnterShowDesktopMode(Popped)
           L == LeaveShowDesktopModeAll(Popped)
<1>1. /\ queue # <<>> /\ Head(queue).type = "ShowingDesktop"
      /\ Handled(IF Head(queue).arg THEN E ELSE L)
  BY DEF ShowingDesktopMessage, Next1
<1>2. Within(Popped, asked) /\ Sound(Popped)
  BY <1>1, MessageWithin
<1>3. Within(E, asked)
  BY <1>2, EnterWithin
<1>4. Within(L, asked)
  <2>1. Keeps(Popped, L) /\ ModeCovers(L)
    BY <1>2, LeaveAllFollows
  <2>2. Steady(Popped, asked)
    BY <1>2, SteadyWithin
  <2> HIDE DEF L
  <2>3. Steady(L, asked)
    BY <2>1, <2>2, KeepsSteady
  <2>4. QED
    BY <2>1, <2>3, SteadyWithin
<1> HIDE DEF E, L
<1>5. Between(IF Head(queue).arg THEN E ELSE L, asked)
  BY <1>3, <1>4 DEF Within
<1>6. QED
  BY <1>1, <1>5, HandledKeeps

\* The server has mapped a window.
LEMMA MapNotifyKeeps ==
    ASSUME IInv, MapNotify
    PROVE  IInv'
<1> DEFINE T == MapNotified(Popped, Subject)
<1>1. /\ queue # <<>> /\ Head(queue).type = "MapNotify"
      /\ Handled(IF Found THEN T ELSE Popped)
  BY DEF MapNotify, Next1
<1>2. Within(Popped, asked) /\ Subject \in Windows /\ Popped.win = win
  BY <1>1, MessageWithin, HeadFacts, EventWindow DEF Subject
<1>3. ASSUME Found PROVE Within(T, asked)
  BY <1>2, <1>3, MapNotifiedWithin DEF Found
<1> HIDE DEF T
<1>4. Between(IF Found THEN T ELSE Popped, asked)
  BY <1>2, <1>3 DEF Within
<1>5. QED
  BY <1>1, <1>4, HandledKeeps

\* A window is unmapped, for the server or for its client.
LEMMA UnmapKeeps ==
    ASSUME IInv, UnmapNotify \/ SyntheticUnmapNotify
    PROVE  IInv'
<1>1. PICK synthetic \in BOOLEAN :
          /\ queue # <<>> /\ Head(queue).type \in {"UnmapNotify", "SyntheticUnmap"}
          /\ Handled(IF Found THEN UnmapNotified(Popped, Subject, synthetic) ELSE Popped)
  BY DEF UnmapNotify, SyntheticUnmapNotify, Next1
<1> DEFINE T == UnmapNotified(Popped, Subject, synthetic)
<1>2. /\ Popped = Pop(S0) /\ Between(S0, asked) /\ S0.queue # <<>> /\ S0.win = win
      /\ S0.queue[1].type \in {"UnmapNotify", "SyntheticUnmap"} /\ S0.queue[1].win = Subject
      /\ Subject \in Windows
  BY <1>1, HeadFacts, EventWindow DEF Subject
<1>3. ASSUME Found PROVE Between(T, asked)
  BY <1>2, <1>3, UnmapNotifiedBetween DEF Found
<1>4. ASSUME ~Found PROVE Between(Popped, asked)
  BY <1>2, <1>4, PopUnknown DEF Found
<1>5. Handled(IF Found THEN T ELSE Popped)
  BY <1>1
<1> HIDE DEF T
<1>6. Between(IF Found THEN T ELSE Popped, asked)
  BY <1>3, <1>4
<1>7. QED
  BY <1>5, <1>6, HandledKeeps

\* A window that compiz makes no CompWindow of
LEMMA OutsideInv ==
    ASSUME NEW S, NEW T, NEW x, NEW ask, WindowInv(S, x, ask),
           S.win[x].stage # "window", T.win[x].stage \in {"none", "created"},
           T.queue = S.queue, T.srv[x] = S.srv[x], T.crossed[x] = S.crossed[x],
           \A i \in 1..Len(S.queue) : ~Is(S.queue[i], "CreateNotify", x),
           T.win[x].stage = "created" =>
               \A i \in 1..Len(S.queue) :
                   /\ ~WmUnmap(S.queue[i], x)
                   /\ ~S.crossed[x] =>
                          /\ Is(S.queue[i], "MapRequest", x) => S.srv[x].parent # "other"
                          /\ Leaves(S.queue[i], x) => S.srv[x].parent = "other"
    PROVE  WindowInv(T, x, ask)
<1>1. Counted(T, x) /\ Ordered(T, x) /\ LeavesFirst(T, x)
  BY DEF Counted, Ordered, LeavesFirst
<1>2. CreatedFirst(T, x)
  BY DEF CreatedFirst
<1>3. Comes(T, x)
  BY DEF Comes, Coming
<1>4. ReturnsFirst(T, x)
  BY DEF WindowInv, Uncounted, ReturnsFirst
<1>5. Framed(T, x) /\ Gone(T, x)
  BY DEF WindowInv, Uncounted, Framed, Gone
<1>6. LeftOrGivenBack(T, x, ask)
  BY DEF WindowInv, Uncounted, LeftOrGivenBack
<1>7. QED
  BY <1>1, <1>2, <1>3, <1>4, <1>5, <1>6 DEF WindowInv, Uncounted

\* compiz hears of a new window.
LEMMA CreateKeeps ==
    ASSUME IInv, CreateNotify
    PROVE  IInv'
<1> DEFINE w == Subject
           P == Pop(S0)
           T == [P EXCEPT !.win[w].stage = "created"]
           r == [P.win[w] EXCEPT !.stage = "created"]
<1>1. queue # <<>> /\ Head(queue).type = "CreateNotify"
  BY DEF CreateNotify, Next1
<1>2. /\ Popped = P /\ Between(S0, asked) /\ S0.queue # <<>> /\ Sound(S0)
      /\ Is(S0.queue[1], "CreateNotify", w) /\ w \in Windows
  BY <1>1, HeadFacts, EventWindow DEF Subject, Is
<1>3. Handled(T)
  BY <1>2 DEF CreateNotify
<1> HIDE DEF w
<1>4. PICK n \in Nat : n = Len(S0.queue) /\ n > 0 /\ n - 1 = Len(P.queue)
                       /\ \A i \in 1..n - 1 : P.queue[i] = S0.queue[i + 1]
  BY <1>2, PopFacts
<1>5. P.win = S0.win /\ P.srv = S0.srv /\ P.crossed = S0.crossed /\ P \in States
  BY <1>2, PopFacts
<1> HIDE DEF P
<1>6. WindowInv(S0, w, asked[w])
  BY <1>2 DEF Between
<1>7. S0.win[w].stage = "none"
  BY <1>2, <1>4, <1>6 DEF WindowInv, Uncounted, CreatedFirst
<1>8. WindowInv(P, w, asked[w])
  BY <1>2, <1>6, <1>7, PopInv DEF P
<1>9. \A i \in 1..n - 1 : ~Is(P.queue[i], "CreateNotify", w)
  <2>1. SUFFICES ASSUME NEW i \in 1..n - 1, Is(P.queue[i], "CreateNotify", w) PROVE FALSE
    OBVIOUS
  <2>2. i + 1 \in 1..n /\ Is(S0.queue[i + 1], "CreateNotify", w) /\ 1 \in 1..(i + 1) - 1
    BY <1>4, <2>1
  <2>3. S0.queue[1].win # w
    BY <1>4, <1>6, <2>2 DEF WindowInv, Uncounted, CreatedFirst
  <2>4. QED
    BY <1>2, <2>3 DEF Is
<1>10. \A i \in 1..n - 1 :
           /\ ~WmUnmap(P.queue[i], w)
           /\ ~P.crossed[w] =>
                  /\ Is(P.queue[i], "MapRequest", w) => P.srv[w].parent # "other"
                  /\ Leaves(P.queue[i], w) => P.srv[w].parent = "other"
  <2>1. Coming(S0, w)
    BY <1>2, <1>4 DEF Coming
  <2>2. \A i \in 1..n - 1 : i + 1 \in 1..n /\ P.queue[i] = S0.queue[i + 1]
    BY <1>4
  <2>3. QED
    BY <1>4, <1>5, <1>6, <2>1, <2>2 DEF WindowInv, Uncounted, Comes
<1>11. r \in Record /\ r.stage = "created"
  BY <1>2, <1>5, StateTypes, StageChanges DEF Stages
<1>12. P.srv[w] \in Attributes /\ P.crossed[w] \in BOOLEAN
  BY <1>2, <1>5, StateTypes
<1>13. T = Updated(P, w, r, P.srv[w], P.crossed[w])
  BY <1>2, <1>5, <1>12 DEF States, Updated
<1>14. Rest(P, asked, w) /\ (P.srv[w].mapped => P.srv[w].exists)
  <2>1. Rest(P, asked, w)
    BY <1>2, PopRest DEF Is, P
  <2>2. QED
    BY <1>2, <2>1 DEF Rest, Sound, MappedExist
<1> HIDE DEF T, r
<1>15. /\ Rest(T, asked, w) /\ T.win[w] = r /\ T.srv[w] = P.srv[w]
       /\ T.crossed[w] = P.crossed[w] /\ T.queue = P.queue
  BY <1>2, <1>11, <1>12, <1>13, <1>14, UpdatedRest
<1>16. WindowInv(T, w, asked[w])
  BY <1>4, <1>5, <1>7, <1>8, <1>9, <1>10, <1>11, <1>15, OutsideInv
<1>17. Between(T, asked)
  BY <1>2, <1>15, <1>16, RestBetween
<1>18. QED
  BY <1>3, <1>17, HandledKeeps

\* A record of a window that compiz does not know
LEMMA NoRecordType == NoRecord \in Record /\ NoRecord.stage = "none"
<1>1. 0 \in AnyDesktop
  BY LargestType DEF AnyDesktop
<1>2. QED
  BY <1>1 DEF NoRecord, Record, Stages

\* compiz forgets a window it has made no CompWindow of.
LEMMA ForgetBetween ==
    ASSUME NEW S, NEW ask, Between(S, ask), NEW w \in Windows, S.win[w].stage = "created"
    PROVE  Between([S EXCEPT !.win[w] = NoRecord], ask)
<1> DEFINE T == [S EXCEPT !.win[w] = NoRecord]
<1>1. S \in States /\ Rest(S, ask, w) /\ WindowInv(S, w, ask[w])
  BY RestBetween DEF Between, Sound
<1>2. S.srv[w] \in Attributes /\ S.crossed[w] \in BOOLEAN /\ (S.srv[w].mapped => S.srv[w].exists)
  BY <1>1, StateTypes DEF Rest, Sound, MappedExist
<1>3. T = Updated(S, w, NoRecord, S.srv[w], S.crossed[w])
  BY <1>1, <1>2 DEF States, Updated
<1> HIDE DEF T
<1>4. /\ Rest(T, ask, w) /\ T.win[w] = NoRecord /\ T.srv[w] = S.srv[w]
      /\ T.crossed[w] = S.crossed[w] /\ T.queue = S.queue
  BY <1>1, <1>2, <1>3, NoRecordType, UpdatedRest
<1>5. \A i \in 1..Len(S.queue) : ~Is(S.queue[i], "CreateNotify", w)
  BY <1>1 DEF WindowInv, Uncounted, CreatedFirst
<1>6. WindowInv(T, w, ask[w])
  BY <1>1, <1>4, <1>5, NoRecordType, OutsideInv
<1>7. QED
  BY <1>4, <1>6, RestBetween DEF T

\* A window is destroyed.
LEMMA DestroyKeeps ==
    ASSUME IInv, DestroyNotify
    PROVE  IInv'
<1> DEFINE w == Subject
           T == Destroy(Popped, w)
           F == [Popped EXCEPT !.win[w] = NoRecord]
<1>1. queue # <<>> /\ Head(queue).type = "DestroyNotify"
  BY DEF DestroyNotify, Next1
<1>2. /\ Popped = Pop(S0) /\ Between(S0, asked) /\ S0.queue # <<>> /\ S0.win = win
      /\ Is(S0.queue[1], "DestroyNotify", w) /\ w \in Windows /\ Popped.win = win
  BY <1>1, HeadFacts, EventWindow DEF Subject, Is
<1>3. Handled(IF Found THEN T ELSE IF win[w].stage = "created" THEN F ELSE Popped)
  BY DEF DestroyNotify
<1>4. ASSUME Found PROVE Between(T, asked)
  BY <1>2, <1>4, DestroyBetween DEF Found
<1>5. ASSUME ~Found PROVE Between(Popped, asked)
  BY <1>2, <1>5, PopUnknown DEF Found, Is
<1>6. ASSUME ~Found, win[w].stage = "created" PROVE Between(F, asked)
  BY <1>2, <1>5, <1>6, ForgetBetween
<1> HIDE DEF T, F
<1>7. Between(IF Found THEN T ELSE IF win[w].stage = "created" THEN F ELSE Popped, asked)
  BY <1>4, <1>5, <1>6
<1>8. QED
  BY <1>3, <1>7, HandledKeeps

\* A window that has come back is ready.
LEMMA ReturnsReady ==
    ASSUME NEW S, NEW ask, Between(S, ask), S.queue # <<>>, NEW w \in Windows,
           Returns(S.queue[1], w), S.win[w].stage # "window"
    PROVE  Ready(Pop(S), w)
<1>1. Sound(S) /\ WindowInv(S, w, ask[w])
  BY DEF Between
<1>2. PICK n \in Nat : n = Len(S.queue) /\ n > 0 /\ n - 1 = Len(Pop(S).queue)
                       /\ \A i \in 1..n - 1 : Pop(S).queue[i] = S.queue[i + 1]
  BY <1>1, PopFacts
<1>3. Pop(S).win = S.win /\ Pop(S).srv = S.srv /\ Pop(S).crossed = S.crossed
  BY <1>1, PopFacts
<1> DEFINE P == Pop(S)
<1> HIDE DEF P
<1>4. ~S.crossed[w] =>
          /\ S.srv[w].parent = "root"
          /\ \A j \in 1..n : ~WmUnmap(S.queue[j], w) /\ ~Leaves(S.queue[j], w)
  BY <1>1, <1>2 DEF WindowInv, Uncounted, ReturnsFirst
<1>5. \A i \in 1..n - 1 : i + 1 \in 1..n /\ P.queue[i] = S.queue[i + 1]
  BY <1>2 DEF P
<1>6. ~S.crossed[w] => \A i \in 1..n - 1 : ~Returns(P.queue[i], w)
  BY <1>1, <1>2, PopInv DEF P
<1>7. \A i \in 1..n - 1 : ~Is(P.queue[i], "CreateNotify", w)
  <2>1. SUFFICES ASSUME NEW i \in 1..n - 1, Is(P.queue[i], "CreateNotify", w) PROVE FALSE
    OBVIOUS
  <2>2. i + 1 \in 1..n /\ Is(S.queue[i + 1], "CreateNotify", w) /\ 1 \in 1..(i + 1) - 1
    BY <1>5, <2>1
  <2>3. S.queue[1].win # w
    BY <1>1, <1>2, <2>2 DEF WindowInv, Uncounted, CreatedFirst
  <2>4. QED
    BY <2>3 DEF Returns
<1>8. QED
  BY <1>2, <1>3, <1>4, <1>5, <1>6, <1>7 DEF Ready, P

\* A window comes back, or it has left.
LEMMA ReparentKeeps ==
    ASSUME IInv, ReparentNotify
    PROVE  IInv'
<1> DEFINE w == Subject
           A == ReparentedAway(Popped, w)
           M == Manage(Popped, w)
<1>1. queue # <<>> /\ Head(queue).type = "ReparentNotify"
  BY DEF ReparentNotify, Next1
<1>2. /\ Popped = Pop(S0) /\ Between(S0, asked) /\ S0.queue # <<>> /\ S0.win = win
      /\ Head(queue) = S0.queue[1] /\ S0.queue[1].win = w /\ w \in Windows /\ Popped.win = win
  BY <1>1, HeadFacts, EventWindow DEF Subject
<1>3. Head(queue).arg = "root" \/ Head(queue).arg = "other"
  BY <1>1, HeadFacts DEF Events, WindowEvents
<1>4. Handled(IF Head(queue).arg = "root" THEN IF Found THEN Popped ELSE M
              ELSE IF Found THEN A ELSE Popped)
  BY DEF ReparentNotify
<1>5. ASSUME Head(queue).arg = "root" PROVE Within(Popped, asked)
  BY <1>1, <1>2, <1>5, PopWithin
<1>6. ASSUME Head(queue).arg = "root", ~Found PROVE Within(M, asked)
  <2>1. Returns(S0.queue[1], w)
    BY <1>1, <1>2, <1>6 DEF Returns
  <2>2. Ready(Popped, w)
    BY <1>2, <1>6, <2>1, ReturnsReady DEF Found
  <2>3. QED
    BY <1>2, <1>5, <1>6, <2>2, ManageWithin
<1>7. ASSUME Head(queue).arg = "other", Found PROVE Between(A, asked)
  <2>1. Leaves(S0.queue[1], w)
    BY <1>1, <1>2, <1>7 DEF Leaves
  <2>2. QED
    BY <1>2, <1>7, <2>1, ReparentedAwayBetween DEF Found
<1>8. ASSUME ~Found PROVE Between(Popped, asked)
  BY <1>2, <1>8, PopUnknown DEF Found
<1> HIDE DEF A, M
<1>9. Between(IF Head(queue).arg = "root" THEN IF Found THEN Popped ELSE M
              ELSE IF Found THEN A ELSE Popped, asked)
  BY <1>3, <1>5, <1>6, <1>7, <1>8 DEF Within
<1>10. QED
  BY <1>4, <1>9, HandledKeeps

\* A created window that asks to be mapped is ready.
LEMMA CreatedReady ==
    ASSUME NEW S, NEW ask, Between(S, ask), S.queue # <<>>, NEW w \in Windows,
           Is(S.queue[1], "MapRequest", w), S.win[w].stage = "created"
    PROVE  Ready(Pop(S), w)
<1>1. Sound(S) /\ WindowInv(S, w, ask[w])
  BY DEF Between
<1> DEFINE P == Pop(S)
<1>2. PICK n \in Nat : n = Len(S.queue) /\ n > 0 /\ n - 1 = Len(P.queue)
                       /\ \A i \in 1..n - 1 : P.queue[i] = S.queue[i + 1]
  BY <1>1, PopFacts
<1>3. P.win = S.win /\ P.srv = S.srv /\ P.crossed = S.crossed
  BY <1>1, PopFacts
<1>4. ~S.crossed[w] => \A i \in 1..n - 1 : ~Returns(P.queue[i], w)
  BY <1>1, <1>2, PopInv
<1> HIDE DEF P
<1>5. /\ \A i \in 1..n : ~WmUnmap(S.queue[i], w)
      /\ ~S.crossed[w] => /\ S.srv[w].parent # "other"
                          /\ \A i \in 1..n : ~Leaves(S.queue[i], w)
  BY <1>1, <1>2 DEF WindowInv, Uncounted, Comes, Coming
<1>6. \A i \in 1..n : ~Is(S.queue[i], "CreateNotify", w)
  BY <1>1, <1>2 DEF WindowInv, Uncounted, CreatedFirst
<1>7. \A i \in 1..n - 1 : i + 1 \in 1..n /\ P.queue[i] = S.queue[i + 1]
  BY <1>2
<1>8. QED
  BY <1>2, <1>3, <1>4, <1>5, <1>6, <1>7 DEF Ready, P

\* A client asks for a window to be mapped.
LEMMA MapRequestKeeps ==
    ASSUME IInv, NEW allowFocus \in BOOLEAN, MapRequest(allowFocus)
    PROVE  IInv'
<1> DEFINE w == Subject
           M == MapRequested(Popped, w, allowFocus)
           X == XMap(Popped, w)
<1>1. queue # <<>> /\ Head(queue).type = "MapRequest"
  BY DEF MapRequest, Next1
<1>2. /\ Popped = Pop(S0) /\ Between(S0, asked) /\ S0.queue # <<>> /\ S0.win = win
      /\ Is(S0.queue[1], "MapRequest", w) /\ w \in Windows /\ Popped.win = win
  BY <1>1, HeadFacts, EventWindow DEF Subject, Is
<1>3. Within(Popped, asked) /\ Sound(Popped)
  BY <1>1, MessageWithin
<1>4. Handled(IF win[w].stage \in {"created", "window"} THEN M ELSE X)
  BY DEF MapRequest
<1>5. ASSUME win[w].stage \in {"created", "window"} PROVE Within(M, asked)
  <2>1. win[w].stage = "created" => Ready(Popped, w)
    BY <1>2, CreatedReady
  <2>2. QED
    BY <1>2, <1>3, <1>5, <2>1, MapRequestedWithin
<1>6. Within(X, asked)
  BY <1>2, <1>3, XMapFollows, FollowsWithin
<1> HIDE DEF M, X
<1>7. Between(IF win[w].stage \in {"created", "window"} THEN M ELSE X, asked)
  BY <1>5, <1>6 DEF Within
<1>8. QED
  BY <1>4, <1>7, HandledKeeps

\* compiz forgets the windows that are destroyed.
LEMMA RemoveKeeps ==
    ASSUME IInv, RemoveDestroyed
    PROVE  IInv'
<1> DEFINE R == [x \in Windows |-> IF win[x].stage = "destroyed" THEN NoRecord ELSE win[x]]
           T == [S0 EXCEPT !.win = R]
<1>1. Between(S0, asked) /\ Sound(S0) /\ S0 \in States /\ MappedExist(S0)
      /\ Placed(S0) /\ ModeCovers(S0) /\ S0.win = win
  BY DEF IInv, Between, Sound, S0
<1>2. R \in [Windows -> Record]
  BY <1>1, NoRecordType, StateTypes
<1>3. \A x \in Windows : R[x] = IF win[x].stage = "destroyed" THEN NoRecord ELSE win[x]
  OBVIOUS
<1>4. win' = R
  BY DEF RemoveDestroyed
<1> HIDE DEF R
<1>5. /\ T \in States /\ T.win = R /\ T.srv = S0.srv /\ T.crossed = S0.crossed
      /\ T.queue = S0.queue /\ T.current = S0.current /\ T.number = S0.number /\ T.mask = S0.mask
  BY <1>1, <1>2 DEF States
<1>6. Handled(T)
  BY <1>4 DEF Handled, Becomes, RemoveDestroyed, S0
<1> HIDE DEF T
<1>7. Sound(T) /\ Placed(T) /\ ModeCovers(T)
  <2>1. \A x \in Windows : T.win[x].stage = "window" => T.win[x] = S0.win[x]
    BY <1>1, <1>3, <1>5, NoRecordType
  <2>2. QED
    BY <1>1, <1>5, <2>1 DEF Sound, MappedExist, Placed, ModeCovers
<1>8. ASSUME NEW x \in Windows PROVE WindowInv(T, x, asked[x])
  <2>1. WindowInv(S0, x, asked[x])
    BY <1>1 DEF Between
  <2>2. CASE win[x].stage = "destroyed"
    <3>1. S0.win[x].stage = "destroyed" /\ T.win[x].stage = "none"
      BY <1>1, <1>3, <1>5, <2>2, NoRecordType
    <3>2. \A i \in 1..Len(S0.queue) : ~Is(S0.queue[i], "CreateNotify", x)
      BY <2>1, <3>1 DEF WindowInv, Uncounted, CreatedFirst
    <3>3. QED
      BY <1>5, <2>1, <3>1, <3>2, OutsideInv
  <2>3. CASE win[x].stage # "destroyed"
    <3>1. T.win[x] = S0.win[x]
      BY <1>1, <1>3, <1>5, <2>3
    <3>2. SameBooks(S0, T, x)
      BY <1>5, <3>1 DEF SameBooks
    <3>3. QED
      BY <2>1, <3>2, SameInv
  <2>4. QED
    BY <2>2, <2>3
<1>9. QED
  BY <1>6, <1>7, <1>8, HandledKeeps DEF Between

-----------------------------------------------------------------------------
(* Requests of clients.                                                    *)

\* A request that keeps the invariant of the state
LEMMA RequestKeeps ==
    ASSUME IInv, NEW kind, Request(kind), NEW T, Becomes(T),
           NEW ask \in [Windows -> {"hidden", "shown", "away"}], asked' = ask,
           Between(T, ask)
    PROVE  IInv'
<1>1. S0' = T
  BY BecomesIs DEF Between, Sound
<1>2. course' \in [windows : SUBSET Windows, kinds : SUBSET AllKinds, requests : Nat]
  <2>1. /\ course \in [windows : SUBSET Windows, kinds : SUBSET AllKinds, requests : Nat]
        /\ course.requests > 0 /\ course' = [course EXCEPT !.requests = course.requests - 1]
    BY DEF IInv, Request
  <2>2. course.requests - 1 \in Nat
    BY <2>1
  <2>3. QED
    BY <2>1, <2>2
<1>3. QED
  BY <1>1, <1>2 DEF IInv

\* An event that all windows allow joins the queue.
LEMMA SendBetween ==
    ASSUME NEW S, NEW ask, Between(S, ask), NEW e \in Events,
           \A x \in Windows : Neutral(S, e, x)
    PROVE  Between(Send(S, e), ask)
<1>1. Sound(S) /\ S \in States /\ MappedExist(S) /\ Placed(S) /\ ModeCovers(S)
  BY DEF Between, Sound
<1>2. \A x \in Windows : WindowInv(Send(S, e), x, ask[x])
  BY <1>1, SendInv DEF Between
<1>3. Sound(Send(S, e)) /\ Placed(Send(S, e)) /\ ModeCovers(Send(S, e))
  BY <1>1, SendFacts DEF Sound, MappedExist, Placed, ModeCovers
<1>4. QED
  BY <1>2, <1>3 DEF Between

\* What a state says of windows
LEMMA AskedFacts ==
    ASSUME IInv
    PROVE  /\ Between(S0, asked) /\ Sound(S0) /\ S0 \in States
           /\ asked \in [Windows -> {"hidden", "shown", "away"}]
           /\ S0.win = win /\ S0.srv = srv /\ S0.queue = queue /\ S0.crossed = crossed
           /\ queue \in Seq(Events)
BY DEF IInv, Between, Sound, S0, States

\* A client message
LEMMA MessageKeeps ==
    ASSUME IInv, NEW kind, NEW e \in Events, Message(kind, e),
           e.type \notin {"CreateNotify", "DestroyNotify", "UnmapNotify", "ReparentNotify",
                          "MapRequest"}
    PROVE  IInv'
<1>1. Request(kind) /\ Becomes(Send(S0, e)) /\ asked' = asked
  BY DEF Message
<1>2. \A x \in Windows : Neutral(S0, e, x)
  BY DEF Neutral, WmUnmap, Leaves, Returns, Is
<1>3. Between(Send(S0, e), asked)
  BY <1>2, AskedFacts, SendBetween
<1>4. QED
  BY <1>1, <1>3, AskedFacts, RequestKeeps

\* All client messages
LEMMA MessagesKeep ==
    ASSUME IInv,
           \/ \E w \in Windows :
                  \/ Iconify(w) \/ Deiconify(w) \/ AskActive(w)
                  \/ \E b \in BOOLEAN : Shade(w, b)
                  \/ \E d \in 0..Largest : AskDesktop(w, d)
           \/ \E d \in 0..Largest - 1 : AskCurrent(d)
           \/ \E k \in Desktops : AskNumber(k)
           \/ \E b \in BOOLEAN : AskShowDesktop(b)
    PROVE  IInv'
<1>1. ASSUME NEW w \in Windows, Iconify(w) PROVE IInv'
  BY <1>1, EventTypes, MessageKeeps DEF Iconify
<1>2. ASSUME NEW w \in Windows, Deiconify(w) PROVE IInv'
  BY <1>2, EventTypes, MessageKeeps DEF Deiconify
<1>3. ASSUME NEW w \in Windows, AskActive(w) PROVE IInv'
  BY <1>3, EventTypes, MessageKeeps DEF AskActive
<1>4. ASSUME NEW w \in Windows, NEW b \in BOOLEAN, Shade(w, b) PROVE IInv'
  <2>1. Event("Shade", w, b) \in Events /\ Event("Shade", w, b).type = "Shade"
    BY DEF Event, Events
  <2>2. QED
    BY <1>4, <2>1, MessageKeeps DEF Shade
<1>5. ASSUME NEW w \in Windows, NEW d \in 0..Largest, AskDesktop(w, d) PROVE IInv'
  <2>1. Event("WinDesktop", w, d) \in Events /\ Event("WinDesktop", w, d).type = "WinDesktop"
    BY DEF Event, Events, AnyDesktop
  <2>2. QED
    BY <1>5, <2>1, MessageKeeps DEF AskDesktop
<1>6. ASSUME NEW d \in 0..Largest - 1, AskCurrent(d) PROVE IInv'
  <2>1. /\ Event("CurrentDesktop", NoWindow, d) \in Events
        /\ Event("CurrentDesktop", NoWindow, d).type = "CurrentDesktop"
    BY DEF Event, Events
  <2>2. QED
    BY <1>6, <2>1, MessageKeeps DEF AskCurrent
<1>7. ASSUME NEW k \in Desktops, AskNumber(k) PROVE IInv'
  <2>1. /\ Event("NumberOfDesktops", NoWindow, k) \in Events
        /\ Event("NumberOfDesktops", NoWindow, k).type = "NumberOfDesktops"
    BY DEF Event, Events
  <2>2. QED
    BY <1>7, <2>1, MessageKeeps DEF AskNumber
<1>8. ASSUME NEW b \in BOOLEAN, AskShowDesktop(b) PROVE IInv'
  <2>1. /\ Event("ShowingDesktop", NoWindow, b) \in Events
        /\ Event("ShowingDesktop", NoWindow, b).type = "ShowingDesktop"
    BY DEF Event, Events
  <2>2. QED
    BY <1>8, <2>1, MessageKeeps DEF AskShowDesktop
<1>9. QED
  BY <1>1, <1>2, <1>3, <1>4, <1>5, <1>6, <1>7, <1>8

\* What a client asks for matters only when it has taken its window away.
LEMMA AskedInv ==
    ASSUME NEW S, NEW w, NEW ask, WindowInv(S, w, ask), NEW new, new # "away" \/ new = ask
    PROVE  WindowInv(S, w, new)
BY DEF WindowInv, Uncounted, LeftOrGivenBack

\* A client's request about one window changes what that client asks for.
LEMMA AskedBetween ==
    ASSUME NEW S, NEW ask \in [Windows -> {"hidden", "shown", "away"}], Between(S, ask),
           NEW w \in Windows, NEW a \in {"hidden", "shown", "away"}, a # "away" \/ a = ask[w]
    PROVE  /\ Between(S, [ask EXCEPT ![w] = a])
           /\ [ask EXCEPT ![w] = a] \in [Windows -> {"hidden", "shown", "away"}]
<1> DEFINE new == [ask EXCEPT ![w] = a]
<1>1. new[w] = a /\ \A x \in Windows \ {w} : new[x] = ask[x]
  OBVIOUS
<1>2. new \in [Windows -> {"hidden", "shown", "away"}]
  OBVIOUS
<1> HIDE DEF new
<1>3. Rest(S, ask, w) /\ WindowInv(S, w, ask[w])
  BY RestBetween
<1>4. Rest(S, new, w)
  BY <1>1, <1>3, AskedRest
<1>5. WindowInv(S, w, new[w])
  BY <1>1, <1>3, AskedInv
<1>6. QED
  BY <1>2, <1>4, <1>5, RestBetween DEF new

\* Only what the server says of a window is changed.
LEMMA AttributesUpdated ==
    ASSUME NEW S, NEW ask, Between(S, ask), NEW w \in Windows, NEW a \in Attributes
    PROVE  LET T == [S EXCEPT !.srv[w] = a]
           IN  /\ T = Updated(S, w, S.win[w], a, S.crossed[w])
               /\ T.win = S.win /\ T.crossed = S.crossed
<1>1. S \in States
  BY DEF Between, Sound
<1>2. QED
  BY <1>1 DEF States, Updated

\* The server maps or unmaps a window, or it is no more.
LEMMA AttributesBetween ==
    ASSUME NEW S, NEW ask, Between(S, ask), NEW w \in Windows, NEW a \in Attributes,
           a.parent = S.srv[w].parent, a.exists => S.srv[w].exists, a.mapped => a.exists,
           NEW T, T = Updated(S, w, S.win[w], a, S.crossed[w]),
           T.win = S.win, T.crossed = S.crossed
    PROVE  Between(T, ask) /\ T.srv[w] = a /\ T.queue = S.queue
<1>1. S \in States /\ Rest(S, ask, w) /\ WindowInv(S, w, ask[w])
  BY RestBetween DEF Between, Sound
<1>2. /\ S.win[w] \in Record /\ S.crossed[w] \in BOOLEAN
      /\ S.win[w].stage = "window" => /\ S.win[w].desktop < S.number \/ S.win[w].desktop = AllDesktops
                                      /\ S.win[w].showDesktop => S.mask
  BY <1>1, StateTypes DEF Rest, Placed, ModeCovers
<1>3. Rest(T, ask, w) /\ T.srv[w] = a /\ T.queue = S.queue
  BY <1>1, <1>2, UpdatedRest
<1>4. Counted(T, w) /\ Ordered(T, w) /\ CreatedFirst(T, w)
  BY <1>1, <1>3 DEF WindowInv, Uncounted, Counted, Ordered, CreatedFirst
<1>5. Comes(T, w)
  BY <1>1, <1>3 DEF WindowInv, Uncounted, Comes, Coming
<1>6. ReturnsFirst(T, w) /\ LeavesFirst(T, w)
  BY <1>1, <1>3 DEF WindowInv, Uncounted, ReturnsFirst, LeavesFirst
<1>7. Framed(T, w) /\ Gone(T, w)
  BY <1>1, <1>3 DEF WindowInv, Uncounted, Framed, Gone
<1>8. LeftOrGivenBack(T, w, ask[w])
  BY <1>1, <1>3 DEF WindowInv, Uncounted, LeftOrGivenBack
<1>9. WindowInv(T, w, ask[w])
  BY <1>4, <1>5, <1>6, <1>7, <1>8 DEF WindowInv, Uncounted
<1>10. QED
  BY <1>3, <1>9, RestBetween

\* A client unmaps its window.
LEMMA ClientUnmapBetween ==
    ASSUME NEW S, NEW ask, Between(S, ask), NEW w \in Windows
    PROVE  LET T == XUnmap(S, w, "client")
               e == Event("UnmapNotify", w, "client")
           IN  /\ Between(T, ask) /\ T.win = S.win /\ T.crossed = S.crossed
               /\ T.srv[w] = [S.srv[w] EXCEPT !.mapped = FALSE]
               /\ T.queue = S.queue \/ T.queue = Append(S.queue, e)
<1> DEFINE T == XUnmap(S, w, "client")
           e == Event("UnmapNotify", w, "client")
           a == [S.srv[w] EXCEPT !.mapped = FALSE]
           U == [S EXCEPT !.srv[w] = a]
<1>1. S \in States /\ MappedExist(S) /\ S.srv[w] \in Attributes
  BY StateTypes DEF Between, Sound
<1>2. a \in Attributes /\ a.parent = S.srv[w].parent /\ a.exists = S.srv[w].exists /\ ~a.mapped
  <2>1. a \in Attributes
    BY <1>1, AttributeChanges
  <2>2. QED
    BY <1>1, <2>1 DEF Attributes
<1>3. e \in Events /\ e.type = "UnmapNotify" /\ e.arg = "client"
  BY EventTypes
<1>4. T = IF S.srv[w].exists /\ S.srv[w].mapped
          THEN IF Heard(U, w) THEN Send(U, e) ELSE U ELSE S
  <2>1. U = [S EXCEPT !.srv[w].mapped = FALSE]
    OBVIOUS
  <2>2. QED
    BY <2>1 DEF XUnmap, Report
<1>5. ~S.srv[w].mapped => S.srv[w] = a
  BY <1>1 DEF Attributes
<1> HIDE DEF T, e, a
<1>6. U = Updated(S, w, S.win[w], a, S.crossed[w]) /\ U.win = S.win /\ U.crossed = S.crossed
  BY <1>2, AttributesUpdated
<1> HIDE DEF U
<1>7. /\ Between(U, ask) /\ U.win = S.win /\ U.srv[w] = a
      /\ U.crossed = S.crossed /\ U.queue = S.queue
  BY <1>2, <1>6, AttributesBetween
<1>8. \A x \in Windows : Neutral(U, e, x)
  BY <1>3 DEF Neutral, WmUnmap, Leaves, Returns, Is
<1>9. Between(Send(U, e), ask)
  BY <1>3, <1>7, <1>8, SendBetween
<1>10. /\ Send(U, e).win = U.win /\ Send(U, e).srv = U.srv /\ Send(U, e).crossed = U.crossed
      /\ Send(U, e).queue = Append(U.queue, e)
  BY <1>3, <1>7, SendFacts DEF Between, Sound
<1>11. CASE S.srv[w].exists /\ S.srv[w].mapped
  BY <1>4, <1>7, <1>9, <1>10, <1>11 DEF T, e, a
<1>12. CASE ~(S.srv[w].exists /\ S.srv[w].mapped)
  <2>1. ~S.srv[w].mapped
    BY <1>1, <1>12 DEF MappedExist
  <2>2. QED
    BY <1>4, <1>5, <1>12, <2>1 DEF T, e, a
<1>13. QED
  BY <1>11, <1>12

\* A client asks for its window to be mapped.
LEMMA MapWindowKeeps ==
    ASSUME IInv, NEW w \in Windows, MapWindow(w)
    PROVE  IInv'
<1> DEFINE e == Event("MapRequest", w, "client")
           a == [S0.srv[w] EXCEPT !.mapped = TRUE]
           U == [S0 EXCEPT !.srv[w] = a]
           T == IF Heard(S0, w) THEN Send(S0, e) ELSE U
           n == IF asked[w] = "away" THEN asked[w] ELSE "shown"
           ask == [asked EXCEPT ![w] = n]
<1>1. Request("map") /\ Becomes(T) /\ asked' = ask /\ S0.srv[w].exists
  <2>1. U = [S0 EXCEPT !.srv[w].mapped = TRUE]
    OBVIOUS
  <2>2. QED
    BY <2>1 DEF MapWindow, S0
<1>2. n \in {"hidden", "shown", "away"} /\ (n # "away" \/ n = asked[w])
  OBVIOUS
<1>3. S0.srv[w] \in Attributes
  BY AskedFacts, StateTypes
<1>4. a \in Attributes
  BY <1>3, AttributeChanges
<1>5. a.parent = S0.srv[w].parent /\ a.exists = S0.srv[w].exists
  BY <1>3 DEF Attributes
<1>6. e \in Events /\ e.type = "MapRequest" /\ e.win = w
  BY EventTypes
<1> HIDE DEF e, a, n
<1>7. Between(U, asked)
  <2>1. /\ U = Updated(S0, w, S0.win[w], a, S0.crossed[w])
        /\ U.win = S0.win /\ U.crossed = S0.crossed
    BY <1>4, AskedFacts, AttributesUpdated
  <2> HIDE DEF U
  <2>2. QED
    BY <1>1, <1>4, <1>5, <2>1, AskedFacts, AttributesBetween
<1>8. ASSUME Heard(S0, w) PROVE Between(Send(S0, e), asked)
  <2>1. S0.srv[w].parent # "other"
    BY <1>8 DEF Heard
  <2>2. \A x \in Windows : Neutral(S0, e, x)
    BY <1>6, <2>1 DEF Neutral, WmUnmap, Leaves, Returns, Is
  <2>3. QED
    BY <1>6, <2>2, AskedFacts, SendBetween
<1> HIDE DEF U
<1>9. Between(T, asked)
  BY <1>7, <1>8
<1> HIDE DEF T
<1>10. Between(T, ask) /\ ask \in [Windows -> {"hidden", "shown", "away"}]
  BY <1>2, <1>9, AskedFacts, AskedBetween
<1>11. QED
  BY <1>1, <1>10, RequestKeeps

\* A client withdraws its window.
LEMMA WithdrawWindowKeeps ==
    ASSUME IInv, NEW w \in Windows, WithdrawWindow(w)
    PROVE  IInv'
<1> DEFINE e == Event("SyntheticUnmap", w, "client")
           U == XUnmap(S0, w, "client")
           T == Send(U, e)
           ask == [asked EXCEPT ![w] = "hidden"]
<1>1. Request("withdraw") /\ Becomes(T) /\ asked' = ask
  BY DEF WithdrawWindow
<1>2. e \in Events /\ e.type = "SyntheticUnmap"
  BY DEF Event, Events
<1> HIDE DEF e
<1>3. Between(U, asked)
  BY AskedFacts, ClientUnmapBetween
<1> HIDE DEF U
<1>4. \A x \in Windows : Neutral(U, e, x)
  BY <1>2 DEF Neutral, WmUnmap, Leaves, Returns, Is
<1>5. Between(T, asked)
  BY <1>2, <1>3, <1>4, SendBetween
<1> HIDE DEF T
<1>6. Between(T, ask) /\ ask \in [Windows -> {"hidden", "shown", "away"}]
  BY <1>5, AskedFacts, AskedBetween
<1>7. QED
  BY <1>1, <1>6, RequestKeeps

\* A client destroys its window.
LEMMA DestroyWindowKeeps ==
    ASSUME IInv, NEW w \in Windows, DestroyWindow(w)
    PROVE  IInv'
<1> DEFINE e == Event("DestroyNotify", w, "client")
           U == XUnmap(S0, w, "client")
           a == [U.srv[w] EXCEPT !.exists = FALSE]
           V == [U EXCEPT !.srv[w] = a]
           T == IF Heard(U, w) THEN Send(V, e) ELSE V
<1>1. Request("destroy") /\ asked' = asked
      /\ Becomes([Report(U, w, "DestroyNotify", "client") EXCEPT !.srv[w].exists = FALSE])
  BY DEF DestroyWindow
<1>2. e \in Events /\ e.type = "DestroyNotify" /\ e.arg = "client" /\ e.win = w
  BY EventTypes
<1>3. Between(U, asked) /\ U.srv[w] = [S0.srv[w] EXCEPT !.mapped = FALSE]
  BY AskedFacts, ClientUnmapBetween
<1>4. S0.srv[w] \in Attributes
  BY AskedFacts, StateTypes
<1>5. U.srv[w] \in Attributes /\ U.srv[w].mapped = FALSE
  <2>1. U.srv[w] \in Attributes
    BY <1>3, <1>4, AttributeChanges
  <2>2. QED
    BY <1>3, <1>4, <2>1 DEF Attributes
<1> HIDE DEF U
<1>6. [Report(U, w, "DestroyNotify", "client") EXCEPT !.srv[w].exists = FALSE] = T
  <2>1. U \in States
    BY <1>3 DEF Between, Sound
  <2>2. [Send(U, e) EXCEPT !.srv[w].exists = FALSE] = Send(V, e)
    BY <2>1 DEF States, Send
  <2>3. QED
    BY <2>2 DEF Report
<1>7. a \in Attributes
  BY <1>5, AttributeChanges
<1>8. a.parent = U.srv[w].parent /\ ~a.exists /\ ~a.mapped
  BY <1>5 DEF Attributes
<1> HIDE DEF e, a
<1>9. Between(V, asked) /\ V.srv[w] = a
  <2>1. /\ V = Updated(U, w, U.win[w], a, U.crossed[w])
        /\ V.win = U.win /\ V.crossed = U.crossed
    BY <1>3, <1>7, AttributesUpdated
  <2> HIDE DEF V
  <2>2. Between(U, asked)
    BY <1>3
  <2>3. a.parent = U.srv[w].parent /\ (a.exists => U.srv[w].exists) /\ (a.mapped => a.exists)
    BY <1>8
  <2>4. QED
    BY <1>7, <2>1, <2>2, <2>3, AttributesBetween
<1> HIDE DEF V
<1>10. \A x \in Windows : Neutral(V, e, x)
  BY <1>2, <1>8, <1>9 DEF Neutral, WmUnmap, Leaves, Returns, Is
<1>11. Between(Send(V, e), asked)
  BY <1>2, <1>9, <1>10, SendBetween
<1>12. Between(T, asked)
  BY <1>9, <1>11
<1> HIDE DEF T
<1>13. QED
  BY <1>1, <1>6, <1>12, AskedFacts, RequestKeeps

\* A client makes a window.
LEMMA CreateWindowKeeps ==
    ASSUME IInv, NEW w \in Windows, Create(w)
    PROVE  IInv'
<1> DEFINE e == Event("CreateNotify", w, "client")
           a == [NotThere EXCEPT !.exists = TRUE]
           U == [S0 EXCEPT !.srv[w] = a]
           T == Send(U, e)
           ask == [asked EXCEPT ![w] = "hidden"]
<1>1. Request("create") /\ Becomes(T) /\ asked' = ask
  BY DEF Create
<1>2. S0.win[w].stage = "none" /\ \A i \in 1..Len(S0.queue) : S0.queue[i].win # w
  BY AskedFacts DEF Create
<1>3. a \in Attributes /\ a.exists /\ ~a.mapped /\ a.parent = "root"
  <2>1. 0 \in AnyDesktop
    BY LargestType DEF AnyDesktop
  <2>2. QED
    BY <2>1 DEF NotThere, Attributes
<1>4. e \in Events /\ e.type = "CreateNotify" /\ e.win = w
  BY EventTypes
<1>5. S0.win[w] \in Record /\ S0.crossed[w] \in BOOLEAN /\ Rest(S0, asked, w)
  BY AskedFacts, StateTypes, RestBetween
<1> HIDE DEF a, e
<1>6. U = Updated(S0, w, S0.win[w], a, S0.crossed[w]) /\ U.win = S0.win
  <2>1. Between(S0, asked)
    BY AskedFacts
  <2>2. a \in Attributes
    BY <1>3
  <2>3. QED
    BY <2>1, <2>2, AttributesUpdated
<1> HIDE DEF U
<1>7. Rest(U, asked, w) /\ U.srv[w] = a /\ U.queue = S0.queue
  BY <1>2, <1>3, <1>5, <1>6, UpdatedRest
<1>8. U \in States /\ U.queue \in Seq(Events)
  BY <1>7 DEF Rest, Sound, States
<1>9. T.win = S0.win /\ T.srv[w] = a /\ T.queue = Append(S0.queue, e)
  <2>1. e \in Events
    BY <1>4
  <2>2. T.win = U.win /\ T.srv = U.srv /\ T.queue = Append(U.queue, e)
    BY <1>8, <2>1, SendFacts
  <2> HIDE DEF T
  <2>3. QED
    BY <1>6, <1>7, <2>2
<1>10. PICK n \in Nat : n = Len(S0.queue) /\ Len(T.queue) = n + 1 /\ T.queue[n + 1] = e
                        /\ \A i \in 1..n : T.queue[i] = S0.queue[i]
  <2>1. Len(S0.queue) \in Nat /\ S0.queue \in Seq(Events)
    BY <1>7, <1>8
  <2>2. QED
    BY <1>4, <1>9, <2>1
<1>11. Rest(T, asked, w)
  BY <1>4, <1>7, SendRest
<1> HIDE DEF T
<1>12. \A i \in 1..n + 1 : T.queue[i].win = w => i = n + 1 /\ Is(T.queue[i], "CreateNotify", w)
  <2>1. \A i \in 1..n + 1 : i \in 1..n \/ i = n + 1
    OBVIOUS
  <2>2. QED
    BY <1>2, <1>4, <1>10, <2>1 DEF Is
<1>13. Counted(T, w) /\ Ordered(T, w) /\ LeavesFirst(T, w)
  BY <1>2, <1>9 DEF Counted, Ordered, LeavesFirst
<1>14. CreatedFirst(T, w)
  <2>1. SUFFICES ASSUME NEW i \in 1..n + 1, Is(T.queue[i], "CreateNotify", w)
                 PROVE  \A j \in 1..i - 1 : T.queue[j].win # w
    BY <1>2, <1>9, <1>10 DEF CreatedFirst
  <2>2. i = n + 1
    BY <1>12, <2>1 DEF Is
  <2>3. QED
    BY <1>2, <1>10, <2>2
<1>15. Comes(T, w) /\ ReturnsFirst(T, w) /\ Gone(T, w)
  BY <1>10, <1>12 DEF Comes, ReturnsFirst, Gone, Is, WmUnmap, Leaves, Returns
<1>16. Framed(T, w)
  BY <1>2, <1>3, <1>9 DEF Framed
<1>17. WindowInv(T, w, "hidden")
  BY <1>13, <1>14, <1>15, <1>16 DEF WindowInv, Uncounted, LeftOrGivenBack
<1>18. ask \in [Windows -> {"hidden", "shown", "away"}] /\ ask[w] = "hidden"
       /\ \A x \in Windows \ {w} : ask[x] = asked[x]
  BY AskedFacts
<1> HIDE DEF ask
<1>19. Between(T, ask)
  BY <1>11, <1>17, <1>18, AskedRest, RestBetween
<1>20. QED
  BY <1>1, <1>18, <1>19, RequestKeeps

\* A window is in a parent of its client, which compiz has not heard yet.
LEMMA LeftInv ==
    ASSUME NEW S, NEW w \in Windows, NEW old, WindowInv(S, w, old), Sound(S), S.srv[w].exists,
           NEW T, Sound(T), T.win[w] = S.win[w], T.srv[w].exists, T.srv[w].parent = "other",
           NEW n \in Nat, n = Len(S.queue), NEW m \in {n + 1, n + 2}, m = Len(T.queue),
           \A i \in 1..n : T.queue[i] = S.queue[i],
           Leaves(T.queue[m], w),
           m = n + 2 => Is(T.queue[n + 1], "UnmapNotify", w) /\ T.queue[n + 1].arg = "client",
           T.crossed[w] <=> S.crossed[w] \/ n > 0,
           NEW ask
    PROVE  WindowInv(T, w, ask)
<1>1. \A i \in 1..m :
          \/ i \in 1..n /\ T.queue[i] = S.queue[i]
          \/ /\ i \notin 1..n /\ (i = m \/ (i = n + 1 /\ m = n + 2))
             /\ ~WmUnmap(T.queue[i], w) /\ ~Returns(T.queue[i], w)
             /\ ~Is(T.queue[i], "CreateNotify", w) /\ ~Is(T.queue[i], "DestroyNotify", w)
             /\ ~Is(T.queue[i], "MapRequest", w)
  <2>1. SUFFICES ASSUME NEW i \in 1..m, i \notin 1..n
                 PROVE  /\ i = m \/ (i = n + 1 /\ m = n + 2)
                        /\ ~WmUnmap(T.queue[i], w) /\ ~Returns(T.queue[i], w)
                        /\ ~Is(T.queue[i], "CreateNotify", w) /\ ~Is(T.queue[i], "DestroyNotify", w)
                        /\ ~Is(T.queue[i], "MapRequest", w)
    OBVIOUS
  <2>2. i = m \/ (i = n + 1 /\ m = n + 2)
    BY <2>1
  <2>3. QED
    BY <2>2 DEF WmUnmap, Returns, Is, Leaves
<1>2. m \in 1..m /\ \A i \in 1..n : i \in 1..m
  OBVIOUS
<1>3. /\ Counted(S, w) /\ CreatedFirst(S, w) /\ Comes(S, w) /\ Gone(S, w)
  BY DEF WindowInv, Uncounted
<1>4. n = 0 => \A i \in 1..m : ~WmUnmap(T.queue[i], w) /\ ~Returns(T.queue[i], w)
  BY <1>1
<1>5. Counted(T, w)
  <2>1. SUFFICES ASSUME n = 0, ~S.crossed[w], S.win[w].stage = "window"
                 PROVE  S.win[w].pendingUnmaps = Count(T.queue, w)
    BY DEF Counted
  <2>2. Unmaps(S.queue, w) = {} /\ Unmaps(T.queue, w) = {}
    BY <1>4, <2>1 DEF Unmaps
  <2>3. QED
    BY <1>3, <2>1, <2>2 DEF Counted, Count
<1>6. Ordered(T, w)
  BY <1>4 DEF Ordered
<1>7. CreatedFirst(T, w)
  <2>1. SUFFICES ASSUME NEW i \in 1..m, Is(T.queue[i], "CreateNotify", w)
                 PROVE  S.win[w].stage = "none" /\ \A j \in 1..i - 1 : T.queue[j].win # w
    BY DEF CreatedFirst
  <2>2. i \in 1..n /\ Is(S.queue[i], "CreateNotify", w)
    BY <1>1, <2>1
  <2>3. \A j \in 1..i - 1 : j \in 1..n
    BY <2>2
  <2>4. QED
    BY <1>3, <2>2, <2>3 DEF CreatedFirst
<1>8. Comes(T, w)
  <2>1. SUFFICES ASSUME Coming(T, w), NEW i \in 1..m
                 PROVE  /\ ~WmUnmap(T.queue[i], w)
                        /\ ~T.crossed[w] => ~Is(T.queue[i], "MapRequest", w)
    BY DEF Comes
  <2>2. Coming(S, w)
    BY <1>1, <2>1 DEF Coming
  <2>3. ~T.crossed[w] => n = 0
    OBVIOUS
  <2>4. QED
    BY <1>1, <1>3, <2>2, <2>3 DEF Comes
<1>9. ReturnsFirst(T, w)
  BY <1>4 DEF ReturnsFirst
<1>10. LeavesFirst(T, w)
  <2>1. SUFFICES ASSUME n = 0
                 PROVE  \A i \in 1..m : Leaves(T.queue[i], w) =>
                            i = 1 \/ (i = 2 /\ Is(T.queue[1], "UnmapNotify", w))
    BY <1>2 DEF LeavesFirst
  <2>2. QED
    BY <2>1
<1>11. Framed(T, w)
  BY <1>2 DEF Framed
<1>12. Gone(T, w)
  BY <1>1, <1>3 DEF Gone
<1>13. LeftOrGivenBack(T, w, ask)
  BY DEF LeftOrGivenBack
<1>14. QED
  BY <1>5, <1>6, <1>7, <1>8, <1>9, <1>10, <1>11, <1>12, <1>13 DEF WindowInv, Uncounted

\* A client takes its window into a parent of its own.
LEMMA ReparentAwayKeeps ==
    ASSUME IInv, NEW w \in Windows, ReparentAway(w)
    PROVE  IInv'
<1> DEFINE e == Event("ReparentNotify", w, "other")
           U == XUnmap(S0, w, "client")
           T == Send(U, e)
           c == crossed[w] \/ queue # <<>>
           a == [T.srv[w] EXCEPT !.parent = "other", !.mapped = srv[w].mapped]
           F == Updated(T, w, T.win[w], a, c)
           ask == [asked EXCEPT ![w] = "away"]
<1>1. /\ S0.srv[w].exists /\ Heard(S0, w) /\ Request("away") /\ asked' = ask
  BY AskedFacts DEF ReparentAway
<1>2. e \in Events /\ Leaves(e, w) /\ e.win = w
  BY DEF Event, Events, Leaves
<1>3. /\ Between(U, asked) /\ U.win = S0.win /\ U.crossed = S0.crossed
      /\ U.srv[w] = [S0.srv[w] EXCEPT !.mapped = FALSE]
      /\ \/ U.queue = S0.queue
         \/ U.queue = Append(S0.queue, Event("UnmapNotify", w, "client"))
  BY AskedFacts, ClientUnmapBetween
<1>4. S0.srv[w] \in Attributes /\ srv[w] = S0.srv[w] /\ crossed[w] \in BOOLEAN
      /\ S0.win[w] \in Record /\ crossed[w] = S0.crossed[w] /\ S0.queue = queue
  BY AskedFacts, StateTypes
<1>5. Report(U, w, "ReparentNotify", "other") = T
  BY <1>1, <1>3, <1>4 DEF Report, Heard, Attributes
<1>6. Becomes([T EXCEPT !.srv[w].parent = "other", !.srv[w].mapped = srv[w].mapped,
                        !.crossed[w] = @ \/ queue # <<>>])
  BY <1>5 DEF ReparentAway
<1> HIDE DEF U, e
<1>7. U \in States /\ Rest(U, asked, w)
  BY <1>3, RestBetween DEF Between, Sound
<1>8. /\ T.win = U.win /\ T.srv = U.srv /\ T.crossed = U.crossed
      /\ T.queue = Append(U.queue, e) /\ T \in States
  BY <1>2, <1>7, SendFacts
<1>9. Rest(T, asked, w)
  BY <1>2, <1>7, SendRest
<1> HIDE DEF T
<1>10. T.srv[w] = [srv[w] EXCEPT !.mapped = FALSE] /\ T.win[w] = S0.win[w]
       /\ T.crossed[w] = crossed[w]
  BY <1>3, <1>4, <1>8
<1>11. a \in Attributes /\ a.parent = "other" /\ a.exists /\ a.mapped = srv[w].mapped
  <2>1. T.srv[w] \in Attributes /\ T.srv[w].exists = srv[w].exists /\ srv[w].mapped \in BOOLEAN
    <3>1. T.srv[w] \in Attributes
      BY <1>8, StateTypes
    <3>2. QED
      BY <1>4, <1>10, <3>1 DEF Attributes
  <2>2. a \in Attributes
    BY <2>1, AttributeChanges
  <2>3. QED
    BY <1>1, <1>4, <2>1, <2>2 DEF Attributes
<1>12. [T EXCEPT !.srv[w].parent = "other", !.srv[w].mapped = srv[w].mapped,
                 !.crossed[w] = @ \/ queue # <<>>] = F
  BY <1>8, <1>10 DEF States, Updated
<1>13. c \in BOOLEAN /\ (c <=> S0.crossed[w] \/ queue # <<>>)
  BY <1>4
<1> HIDE DEF F, a, c
<1>14. Rest(F, asked, w) /\ Sound(F) /\ F.win[w] = S0.win[w] /\ F.srv[w] = a
       /\ F.crossed[w] = c /\ F.queue = T.queue
  <2>1. S0.win[w].stage = "window" =>
            /\ S0.win[w].desktop < T.number \/ S0.win[w].desktop = AllDesktops
            /\ S0.win[w].showDesktop => T.mask
    BY <1>9, <1>10 DEF Rest, Placed, ModeCovers
  <2>2. a.mapped => a.exists
    BY <1>11
  <2>3. F = Updated(T, w, S0.win[w], a, c)
    BY <1>10 DEF F
  <2>4. QED
    BY <1>4, <1>9, <1>11, <1>13, <2>1, <2>2, <2>3, UpdatedRest
<1>15. PICK n \in Nat : n = Len(queue)
  BY AskedFacts
<1>16. \E m \in {n + 1, n + 2} :
           /\ m = Len(F.queue) /\ F.queue[m] = e
           /\ \A i \in 1..n : F.queue[i] = queue[i]
           /\ m = n + 2 => F.queue[n + 1] = Event("UnmapNotify", w, "client")
  <2>1. queue \in Seq(Events) /\ Event("UnmapNotify", w, "client") \in Events
    BY AskedFacts, EventTypes
  <2>2. CASE F.queue = Append(queue, e)
    BY <1>2, <1>15, <2>1, <2>2
  <2>3. CASE F.queue = Append(Append(queue, Event("UnmapNotify", w, "client")), e)
    <3> DEFINE u == Event("UnmapNotify", w, "client")
               q == Append(queue, u)
    <3>1. u \in Events
      BY <2>1
    <3> HIDE DEF u
    <3>2. q \in Seq(Events) /\ Len(q) = n + 1 /\ q[n + 1] = u /\ \A i \in 1..n : q[i] = queue[i]
      BY <1>15, <2>1, <3>1
    <3> HIDE DEF q
    <3>3. F.queue = Append(q, e)
      BY <2>3 DEF q, u
    <3>4. Len(F.queue) = n + 2 /\ F.queue[n + 2] = e /\ \A i \in 1..n + 1 : F.queue[i] = q[i]
      BY <1>2, <3>2, <3>3
    <3>5. \A i \in 1..n : i \in 1..n + 1
      OBVIOUS
    <3>6. n + 1 \in 1..n + 1
      OBVIOUS
    <3>7. QED
      BY <3>2, <3>4, <3>5, <3>6 DEF u
  <2>4. QED
    BY <1>3, <1>4, <1>8, <1>14, <2>2, <2>3
<1>17. WindowInv(F, w, "away")
  <2>1. PICK m \in {n + 1, n + 2} :
            /\ m = Len(F.queue) /\ F.queue[m] = e
            /\ \A i \in 1..n : F.queue[i] = queue[i]
            /\ m = n + 2 => F.queue[n + 1] = Event("UnmapNotify", w, "client")
    BY <1>16
  <2>2. m = n + 2 => Is(F.queue[n + 1], "UnmapNotify", w) /\ F.queue[n + 1].arg = "client"
    BY <2>1 DEF Event, Is
  <2>3. queue # <<>> <=> n > 0
    BY <1>15, AskedFacts
  <2>4. F.crossed[w] <=> S0.crossed[w] \/ n > 0
    BY <1>13, <1>14, <2>3
  <2>5. WindowInv(S0, w, asked[w]) /\ Sound(S0) /\ S0.queue = queue
    BY AskedFacts DEF Between
  <2>6. Leaves(F.queue[m], w)
    BY <1>2, <2>1
  <2>7. F.srv[w].exists /\ F.srv[w].parent = "other" /\ F.win[w] = S0.win[w] /\ Sound(F)
    BY <1>11, <1>14
  <2>8. n = Len(S0.queue) /\ \A i \in 1..n : F.queue[i] = S0.queue[i]
    BY <1>15, <2>1, <2>5
  <2>9. S0.srv[w].exists /\ m = Len(F.queue)
    BY <1>1, <2>1
  <2>10. QED
    BY <2>2, <2>4, <2>5, <2>6, <2>7, <2>8, <2>9, LeftInv
<1>18. ask \in [Windows -> {"hidden", "shown", "away"}] /\ ask[w] = "away"
       /\ \A x \in Windows \ {w} : ask[x] = asked[x]
  BY AskedFacts
<1> HIDE DEF ask
<1>19. Between(F, ask)
  BY <1>14, <1>17, <1>18, AskedRest, RestBetween
<1>20. QED
  BY <1>1, <1>6, <1>12, <1>18, <1>19, RequestKeeps

\* A window is back on the root window, which compiz has not heard yet.
LEMMA BackInv ==
    ASSUME NEW S, NEW w \in Windows, NEW old, WindowInv(S, w, old), Sound(S), S.srv[w].exists,
           S.srv[w].parent = "other",
           NEW T, T.win[w] = S.win[w], T.srv[w].exists, T.srv[w].parent = "root",
           NEW n \in Nat, n = Len(S.queue), NEW m \in {n + 1, n + 2}, m = Len(T.queue),
           \A i \in 1..n : T.queue[i] = S.queue[i],
           Returns(T.queue[n + 1], w),
           m = n + 2 => Is(T.queue[m], "MapRequest", w),
           T.crossed[w] <=> S.crossed[w] \/ n > 0,
           NEW ask, ask # "away"
    PROVE  WindowInv(T, w, ask)
<1>1. \A i \in 1..m :
          \/ i \in 1..n /\ T.queue[i] = S.queue[i]
          \/ /\ i \notin 1..n /\ (i = n + 1 \/ i = n + 2)
             /\ ~WmUnmap(T.queue[i], w) /\ ~Leaves(T.queue[i], w)
             /\ (Returns(T.queue[i], w) => i = n + 1)
             /\ ~Is(T.queue[i], "CreateNotify", w) /\ ~Is(T.queue[i], "DestroyNotify", w)
  <2>1. SUFFICES ASSUME NEW i \in 1..m, i \notin 1..n
                 PROVE  /\ i = n + 1 \/ i = n + 2
                        /\ ~WmUnmap(T.queue[i], w) /\ ~Leaves(T.queue[i], w)
                        /\ (Returns(T.queue[i], w) => i = n + 1)
                        /\ ~Is(T.queue[i], "CreateNotify", w)
                        /\ ~Is(T.queue[i], "DestroyNotify", w)
    OBVIOUS
  <2>2. i = n + 1 \/ (i = n + 2 /\ m = n + 2)
    BY <2>1
  <2>3. QED
    BY <2>2 DEF WmUnmap, Returns, Is, Leaves
<1>2. \A i \in 1..n : i \in 1..m
  OBVIOUS
<1>3. /\ CreatedFirst(S, w) /\ Comes(S, w) /\ Gone(S, w) /\ LeavesFirst(S, w) /\ Framed(S, w)
  BY DEF WindowInv, Uncounted
<1>4. ~T.crossed[w] => n = 0 /\ S.win[w].stage # "window"
  BY <1>3 DEF LeavesFirst
<1>5. Counted(T, w) /\ Ordered(T, w) /\ LeavesFirst(T, w)
  BY <1>4 DEF Counted, Ordered, LeavesFirst
<1>6. CreatedFirst(T, w)
  <2>1. SUFFICES ASSUME NEW i \in 1..m, Is(T.queue[i], "CreateNotify", w)
                 PROVE  S.win[w].stage = "none" /\ \A j \in 1..i - 1 : T.queue[j].win # w
    BY DEF CreatedFirst
  <2>2. i \in 1..n /\ Is(S.queue[i], "CreateNotify", w)
    BY <1>1, <2>1
  <2>3. \A j \in 1..i - 1 : j \in 1..n
    BY <2>2
  <2>4. QED
    BY <1>3, <2>2, <2>3 DEF CreatedFirst
<1>7. Comes(T, w)
  <2>1. SUFFICES ASSUME Coming(T, w), NEW i \in 1..m
                 PROVE  ~WmUnmap(T.queue[i], w) /\ (~T.crossed[w] => ~Leaves(T.queue[i], w))
    BY DEF Comes
  <2>2. Coming(S, w)
    BY <1>1, <2>1 DEF Coming
  <2>3. QED
    BY <1>1, <1>3, <1>4, <2>2 DEF Comes
<1>8. ReturnsFirst(T, w)
  BY <1>1, <1>4 DEF ReturnsFirst
<1>9. Framed(T, w)
  BY <1>2, <1>3 DEF Framed
<1>10. Gone(T, w)
  BY <1>1, <1>3 DEF Gone
<1>11. LeftOrGivenBack(T, w, ask)
  BY DEF LeftOrGivenBack
<1>12. QED
  BY <1>5, <1>6, <1>7, <1>8, <1>9, <1>10, <1>11 DEF WindowInv, Uncounted

\* A client puts its window back on the root window.
LEMMA ReparentBackKeeps ==
    ASSUME IInv, NEW w \in Windows, ReparentBack(w)
    PROVE  IInv'
<1> DEFINE e == Event("ReparentNotify", w, "root")
           f == Event("MapRequest", w, "client")
           c == crossed[w] \/ queue # <<>>
           a == [srv[w] EXCEPT !.parent = "root", !.mapped = FALSE]
           U == Updated(S0, w, win[w], a, c)
           T == Send(U, e)
           F == IF srv[w].mapped THEN Send(T, f) ELSE T
           new == IF srv[w].mapped \/ srv[w].wmState = "Iconic" THEN "shown" ELSE "hidden"
           ask == [asked EXCEPT ![w] = new]
<1>1. S0.srv[w].exists /\ ~Heard(S0, w) /\ Request("back") /\ asked' = ask
  BY AskedFacts DEF ReparentBack
<1>2. /\ e \in Events /\ Returns(e, w) /\ e.win = w
      /\ f \in Events /\ Is(f, "MapRequest", w) /\ f.win = w
  BY EventTypes DEF Event, Events, Returns, Is
<1>3. srv[w] \in Attributes /\ srv[w] = S0.srv[w] /\ crossed[w] \in BOOLEAN
      /\ win[w] \in Record /\ crossed[w] = S0.crossed[w] /\ S0.queue = queue /\ win[w] = S0.win[w]
  BY AskedFacts, StateTypes
<1>4. srv[w].parent = "other"
  BY <1>1, <1>3 DEF Heard, Attributes
<1>5. a \in Attributes /\ a.parent = "root" /\ a.exists /\ ~a.mapped
  <2>1. a \in Attributes
    BY <1>3, AttributeChanges
  <2>2. QED
    BY <1>1, <1>3, <2>1 DEF Attributes
<1>6. c \in BOOLEAN /\ (c <=> S0.crossed[w] \/ queue # <<>>)
  BY <1>3
<1>7. Becomes(F)
  <2>1. [S0 EXCEPT !.srv[w].parent = "root", !.srv[w].mapped = FALSE,
                   !.crossed[w] = @ \/ queue # <<>>] = U
    BY AskedFacts DEF States, Updated
  <2>2. QED
    BY <2>1 DEF ReparentBack
<1> HIDE DEF a, c, e, f
<1>8. Rest(U, asked, w) /\ Sound(U) /\ U.win[w] = win[w] /\ U.srv[w] = a
      /\ U.crossed[w] = c /\ U.queue = queue
  <2>1. Rest(S0, asked, w)
    BY AskedFacts, RestBetween
  <2>2. S0.win[w].stage = "window" =>
            /\ S0.win[w].desktop < S0.number \/ S0.win[w].desktop = AllDesktops
            /\ S0.win[w].showDesktop => S0.mask
    BY <2>1 DEF Rest, Placed, ModeCovers
  <2>3. a.mapped => a.exists
    BY <1>5
  <2>4. U = Updated(S0, w, S0.win[w], a, c) /\ S0.win[w] \in Record
    BY <1>3
  <2> HIDE DEF U
  <2>5. Rest(U, asked, w) /\ Sound(U) /\ U.win[w] = S0.win[w] /\ U.srv[w] = a
        /\ U.crossed[w] = c /\ U.queue = S0.queue
    BY <1>5, <1>6, <2>1, <2>2, <2>3, <2>4, UpdatedRest
  <2>6. QED
    BY <1>3, <2>5
<1> HIDE DEF U
<1>9. PICK n \in Nat : n = Len(queue)
  BY AskedFacts
<1>10. /\ Rest(T, asked, w) /\ T.win[w] = win[w] /\ T.srv[w] = a /\ T.crossed[w] = c
       /\ Len(T.queue) = n + 1 /\ T.queue[n + 1] = e /\ \A i \in 1..n : T.queue[i] = queue[i]
  <2>1. U \in States
    BY <1>8 DEF Sound
  <2>2. T.win = U.win /\ T.srv = U.srv /\ T.crossed = U.crossed /\ T.queue = Append(queue, e)
    BY <1>2, <1>8, <2>1, SendFacts
  <2>3. Rest(T, asked, w)
    BY <1>2, <1>8, SendRest
  <2> HIDE DEF T
  <2>4. QED
    BY <1>2, <1>8, <1>9, <2>2, <2>3, AskedFacts
<1> HIDE DEF T
<1>11. /\ Rest(F, asked, w) /\ F.win[w] = win[w] /\ F.srv[w] = a /\ F.crossed[w] = c
       /\ F.queue[n + 1] = e /\ \A i \in 1..n : F.queue[i] = queue[i]
       /\ \E m \in {n + 1, n + 2} : m = Len(F.queue) /\ (m = n + 2 => F.queue[m] = f)
  <2>1. CASE srv[w].mapped
    <3>1. F = Send(T, f)
      BY <2>1
    <3>2. T \in States /\ T.queue \in Seq(Events)
      BY <1>10 DEF Rest, Sound, States
    <3>3. F.win = T.win /\ F.srv = T.srv /\ F.crossed = T.crossed /\ F.queue = Append(T.queue, f)
      BY <1>2, <3>1, <3>2, SendFacts
    <3>4. Rest(F, asked, w)
      BY <1>2, <1>10, <3>1, SendRest
    <3> HIDE DEF F
    <3>5. Len(F.queue) = n + 2 /\ F.queue[n + 2] = f /\ \A i \in 1..n + 1 : F.queue[i] = T.queue[i]
      BY <1>2, <1>10, <3>2, <3>3
    <3>6. n + 1 \in 1..n + 1 /\ \A i \in 1..n : i \in 1..n + 1
      OBVIOUS
    <3>7. QED
      BY <1>10, <3>3, <3>4, <3>5, <3>6
  <2>2. CASE ~srv[w].mapped
    BY <1>10, <2>2
  <2>3. QED
    BY <2>1, <2>2
<1> HIDE DEF F
<1>12. new \in {"hidden", "shown"}
  OBVIOUS
<1> HIDE DEF new
<1>13. WindowInv(F, w, new)
  <2>1. PICK m \in {n + 1, n + 2} : m = Len(F.queue) /\ (m = n + 2 => F.queue[m] = f)
    BY <1>11
  <2>2. m = n + 2 => Is(F.queue[m], "MapRequest", w)
    BY <1>2, <2>1
  <2>3. queue # <<>> <=> n > 0
    BY <1>9, AskedFacts
  <2>4. F.crossed[w] <=> S0.crossed[w] \/ n > 0
    BY <1>6, <1>11, <2>3
  <2>5. WindowInv(S0, w, asked[w]) /\ Sound(S0) /\ S0.srv[w].exists /\ S0.srv[w].parent = "other"
    BY <1>1, <1>3, <1>4, AskedFacts DEF Between
  <2>6. F.win[w] = S0.win[w] /\ F.srv[w].exists /\ F.srv[w].parent = "root"
    BY <1>3, <1>5, <1>11
  <2>7. n = Len(S0.queue) /\ (\A i \in 1..n : F.queue[i] = S0.queue[i]) /\ m = Len(F.queue)
    BY <1>3, <1>9, <1>11, <2>1
  <2>8. Returns(F.queue[n + 1], w) /\ new # "away"
    BY <1>2, <1>11, <1>12
  <2>9. QED
    BY <2>2, <2>4, <2>5, <2>6, <2>7, <2>8, BackInv
<1>14. ask \in [Windows -> {"hidden", "shown", "away"}] /\ ask[w] = new
       /\ \A x \in Windows \ {w} : ask[x] = asked[x]
  BY <1>12, AskedFacts
<1> HIDE DEF ask
<1>15. Between(F, ask)
  BY <1>11, <1>13, <1>14, AskedRest, RestBetween
<1>16. QED
  BY <1>1, <1>7, <1>14, <1>15, RequestKeeps

-----------------------------------------------------------------------------
(* The theorems.                                                           *)

\* Every step keeps the invariant.
LEMMA NextIInv == IInv /\ [Next]_vars => IInv'
<1> SUFFICES ASSUME IInv, [Next]_vars PROVE IInv'
  OBVIOUS
<1>1. ASSUME ClientRequest PROVE IInv'
  <2>1. ASSUME NEW w \in Windows, Create(w) PROVE IInv'
    BY <2>1, CreateWindowKeeps
  <2>2. ASSUME NEW w \in Windows, MapWindow(w) PROVE IInv'
    BY <2>2, MapWindowKeeps
  <2>3. ASSUME NEW w \in Windows, WithdrawWindow(w) PROVE IInv'
    BY <2>3, WithdrawWindowKeeps
  <2>4. ASSUME NEW w \in Windows, DestroyWindow(w) PROVE IInv'
    BY <2>4, DestroyWindowKeeps
  <2>5. ASSUME NEW w \in Windows, ReparentAway(w) PROVE IInv'
    BY <2>5, ReparentAwayKeeps
  <2>6. ASSUME NEW w \in Windows, ReparentBack(w) PROVE IInv'
    BY <2>6, ReparentBackKeeps
  <2>7. QED
    BY <1>1, <2>1, <2>2, <2>3, <2>4, <2>5, <2>6, MessagesKeep DEF ClientRequest
<1>2. ASSUME HandleEvent PROVE IInv'
  <2>1. ASSUME CreateNotify PROVE IInv'
    BY <2>1, CreateKeeps
  <2>2. ASSUME DestroyNotify PROVE IInv'
    BY <2>2, DestroyKeeps
  <2>3. ASSUME MapNotify PROVE IInv'
    BY <2>3, MapNotifyKeeps
  <2>4. ASSUME UnmapNotify \/ SyntheticUnmapNotify PROVE IInv'
    BY <2>4, UnmapKeeps
  <2>5. ASSUME ReparentNotify PROVE IInv'
    BY <2>5, ReparentKeeps
  <2>6. ASSUME NEW b \in BOOLEAN, MapRequest(b) PROVE IInv'
    BY <2>6, MapRequestKeeps
  <2>7. ASSUME IconifyMessage PROVE IInv'
    BY <2>7, IconifyKeeps
  <2>8. ASSUME DeiconifyMessage PROVE IInv'
    BY <2>8, DeiconifyKeeps
  <2>9. ASSUME NEW b \in BOOLEAN, ActiveMessage(b) PROVE IInv'
    BY <2>9, ActiveKeeps
  <2>10. ASSUME ShadeMessage PROVE IInv'
    BY <2>10, ShadeKeeps
  <2>11. ASSUME DesktopMessage PROVE IInv'
    BY <2>11, DesktopKeeps
  <2>12. ASSUME CurrentDesktopMessage PROVE IInv'
    BY <2>12, CurrentKeeps
  <2>13. ASSUME NumberMessage PROVE IInv'
    BY <2>13, NumberKeeps
  <2>14. ASSUME ShowingDesktopMessage PROVE IInv'
    BY <2>14, ShowingDesktopKeeps
  <2>15. QED
    BY <1>2, <2>1, <2>2, <2>3, <2>4, <2>5, <2>6, <2>7, <2>8, <2>9, <2>10, <2>11, <2>12,
       <2>13, <2>14 DEF HandleEvent
<1>3. ASSUME RemoveDestroyed PROVE IInv'
  BY <1>3, RemoveKeeps
<1>4. ASSUME UNCHANGED vars PROVE IInv'
  <2>1. S0' = S0 /\ asked' = asked /\ course' = course
    BY <1>4 DEF vars, state, S0
  <2>2. QED
    BY <2>1 DEF IInv
<1>5. QED
  BY <1>1, <1>2, <1>3, <1>4 DEF Next

\* The invariant holds always.
THEOREM Invariant == Spec => []IInv
BY InitIInv, NextIInv, PTL DEF Spec

\* The desktops of the windows exist and show desktop mode covers those that
\* are in it, with any number of windows and desktops (SetNumberOfDesktops moves
\* windows before it removes their desktops; leaveShowDesktopMode).
THEOREM DesktopsAgreeHolds == Spec => []DesktopsAgree
<1>1. IInv => DesktopsAgree
  <2> SUFFICES ASSUME IInv PROVE DesktopsAgree
    OBVIOUS
  <2>1. S0 \in States /\ Placed(S0) /\ ModeCovers(S0)
    BY DEF IInv, Between, Sound
  <2>2. TypeOK
    <3>1. /\ win \in [Windows -> Record] /\ srv \in [Windows -> Attributes]
          /\ current \in 0..Largest - 1 /\ number \in 1..Largest /\ mask \in BOOLEAN
          /\ crossed \in [Windows -> BOOLEAN]
      BY <2>1 DEF States, S0
    <3>2. asked \in [Windows -> {"hidden", "shown", "away"}] /\ course.requests \in Nat
      BY DEF IInv
    <3>3. QED
      BY <3>1, <3>2 DEF TypeOK, Record, Attributes, AnyDesktop
  <2>3. ModeCoversWindows
    BY <2>1 DEF ModeCovers, ModeCoversWindows, S0
  <2>4. OnSomeDesktop
    <3>1. current < number /\ number \in Nat
      BY <2>1, LargestType DEF Placed, S0, States
    <3>2. ASSUME NEW w \in Windows, win[w].stage = "window"
          PROVE  win[w].desktop \in 0..number - 1 \cup {AllDesktops}
      <4>1. win[w].desktop < number \/ win[w].desktop = AllDesktops
        BY <2>1, <3>2 DEF Placed, S0
      <4>2. win[w].desktop \in Nat
        BY <2>1, StateTypes, RecordTypes, LargestType DEF AnyDesktop, S0
      <4>3. QED
        BY <3>1, <4>1, <4>2
    <3>3. QED
      BY <3>1, <3>2 DEF OnSomeDesktop
  <2>5. QED
    BY <2>2, <2>3, <2>4 DEF DesktopsAgree
<1>2. QED
  BY <1>1, Invariant, PTL

\* pendingUnmaps is the number of unmaps of compiz whose events are under way,
\* for every window that compiz knows and whose requests have not crossed: each
\* UnmapNotify is taken for what it is.
THEOREM UnmapsCountedHolds == Spec => []UnmapsCounted
<1>1. IInv => UnmapsCounted
  <2> SUFFICES ASSUME IInv, NEW w \in Windows, win[w].stage = "window", ~crossed[w]
               PROVE  win[w].pendingUnmaps = Cardinality({i \in 1..Len(queue) :
                          /\ queue[i].win = w
                          /\ queue[i].type = "UnmapNotify"
                          /\ queue[i].arg = "wm"})
    BY DEF UnmapsCounted
  <2>1. Counted(S0, w)
    BY DEF IInv, Between, WindowInv
  <2>2. win[w].pendingUnmaps = Count(queue, w)
    BY <2>1 DEF Counted, S0
  <2>3. Unmaps(queue, w) = {i \in 1..Len(queue) :
            /\ queue[i].win = w /\ queue[i].type = "UnmapNotify" /\ queue[i].arg = "wm"}
    BY DEF Unmaps, WmUnmap
  <2>4. QED
    BY <2>2, <2>3 DEF Count
<1>2. QED
  BY <1>1, Invariant, PTL

\* Windows that clients take elsewhere are let go whole: no window is in a
\* frame that compiz has forgotten, compiz destroys none, and one that compiz
\* has put on the root window meanwhile is given back.
THEOREM LeaversKeptHolds == Spec => []LeaversKept
<1>1. IInv => LeaversKept
  <2> SUFFICES ASSUME IInv PROVE LeaversKept
    OBVIOUS
  <2>1. ASSUME NEW w \in Windows
        PROVE  /\ Framed(S0, w) /\ Gone(S0, w) /\ LeftOrGivenBack(S0, w, asked[w])
               /\ S0.srv[w] \in Attributes /\ S0.win[w] \in Record
    BY StateTypes DEF IInv, Between, Sound, WindowInv, Uncounted
  <2>2. S0.win = win /\ S0.srv = srv /\ S0.queue = queue /\ S0.crossed = crossed
        /\ queue \in Seq(Events)
    BY AskedFacts
  <2>3. FrameFollowsParent
    <3>1. SUFFICES ASSUME NEW w \in Windows, queue = <<>>, win[w].stage = "window", srv[w].exists
                   PROVE  win[w].frame <=> srv[w].parent = "wrapper"
      BY DEF FrameFollowsParent, Quiet
    <3>2. \A i \in 1..Len(queue) : FALSE
      BY <3>1
    <3>3. QED
      BY <2>1, <2>2, <3>1, <3>2 DEF Framed
  <2>4. KeptUnlessCrossed
    <3>1. SUFFICES ASSUME NEW i \in 1..Len(queue), queue[i].type = "DestroyNotify"
                   PROVE  queue[i].arg = "client" \/ crossed[queue[i].win]
      BY DEF KeptUnlessCrossed
    <3>2. queue[i].win \in Windows
      BY <2>2, <3>1, EventWindow
    <3>3. QED
      BY <2>1, <2>2, <3>1, <3>2 DEF Gone, Is
  <2>5. LeftStaysLeft
    <3>1. SUFFICES ASSUME NEW w \in Windows, queue = <<>>, srv[w].exists, asked[w] = "away",
                          ~crossed[w]
                   PROVE  srv[w].parent = "other"
      BY DEF LeftStaysLeft
    <3>2. \A i \in 1..Len(queue) : FALSE
      BY <3>1
    <3>3. QED
      BY <2>1, <2>2, <3>1, <3>2 DEF LeftOrGivenBack
  <2>6. QED
    BY <2>3, <2>4, <2>5 DEF LeaversKept
<1>2. QED
  BY <1>1, Invariant, PTL

=============================================================================
