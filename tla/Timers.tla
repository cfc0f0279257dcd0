------------------------------- MODULE Timers -------------------------------
(***************************************************************************)
(* CompTimer and CompTimeoutSource: the timers of the compiz core and the  *)
(* GLib source that fires them from the main loop.                         *)
(*                                                                         *)
(* The process has one thread.  One turn of the main loop is               *)
(*     prepare -> scan -> poll -> check -> events   (nothing due)          *)
(*     prepare -> scan -> poll -> check -> fire     (a timer is due)       *)
(*     prepare -> fire                              (due at once, or empty)*)
(* because a source that reports itself ready keeps GLib from dispatching  *)
(* sources of a lower priority in the same turn, and the X event source    *)
(* has a lower priority than the timeout source.  Timer operations are     *)
(* called from timer callbacks (phase "callback") and from whatever the    *)
(* other sources dispatch (phase "events").                                *)
(*                                                                         *)
(* A tick is a millisecond.  The clock is kept modulo one second, which is *)
(* all TIMESPECDIFF looks at besides the number of whole seconds.          *)
(***************************************************************************)
EXTENDS Integers, SequencesExt

CONSTANTS
    Timers,          \* the CompTimer objects
    NoTimer,         \* no CompTimer
    Startup,         \* timers like pingTimer, as queued at startup; never stopped
    Intervals,       \* the <<min, max>> arguments callers pass
    PingInterval,    \* the interval of the startup timers
    TicksPerSecond,  \* 1000 in the code; a few in a model
    MaxOverrun,      \* bound on how late poll() may wake up
    MaxStep,         \* bound on the time one dispatched piece of work takes
    MaxAge           \* the history variable age saturates here

Persistent == Range(Startup)

ASSUME TimersAssumption ==
    /\ NoTimer \notin Timers
    /\ Startup \in Seq(Timers)
    /\ IsInjective(Startup)
    /\ Intervals \subseteq Nat \X Nat
    /\ PingInterval \in Nat \X Nat
    /\ TicksPerSecond \in Nat \ {0}
    /\ MaxOverrun \in Nat
    /\ MaxStep \in Nat
    /\ MaxAge \in Nat
    /\ \A iv \in Intervals \cup {PingInterval} : iv[1] <= MaxAge

VARIABLES
    queue,    \* screen->priv->timers
    timer,    \* the fields of every CompTimer
    phase,    \* where the main loop is
    cur,      \* the timer whose callback runs, else NoTimer
    scan,     \* iterator of the loop in prepare
    wait,     \* the timeout prepare reports
    now,      \* the clock, modulo one second
    last,     \* mLastTimeout, modulo one second
    elapsed,  \* real time between mLastTimeout and the check
    age       \* history: real time since a queued timer was armed

vars == <<queue, timer, phase, cur, scan, wait, now, last, elapsed, age>>

loop == <<phase, cur, scan, wait, now, last, elapsed>>

Phases == {"prepare", "scan", "poll", "check", "events", "fire", "callback"}

-----------------------------------------------------------------------------
(* The list of the screen.                                                 *)

\* CompTimer::CompTimer
NewTimer ==
    [active |-> FALSE, hasCb |-> FALSE,
     minTime |-> 0, maxTime |-> 0, minLeft |-> 0, maxLeft |-> 0]

\* Mutant: the place goes by the maximum left.
InsertPosByMax(q, tm, min) ==
    LET later == {i \in 1..Len(q) : min < tm[q[i]].maxLeft}
    IN  IF later = {} THEN Len(q) + 1 ELSE Min(later)

\* The place addTimer inserts before: the first timer that has more time left.
InsertPos(q, tm, min) ==
    LET later == {i \in 1..Len(q) : min < tm[q[i]].minLeft}
    IN  IF later = {} THEN Len(q) + 1 ELSE Min(later)

\* PrivateScreen::addTimer, the list
AddTimer(q, tm, t, min) ==
    IF t \in Range(q) THEN q ELSE InsertAt(q, InsertPos(q, tm, min), t)

\* Mutant: the minimum left is not reset.
ReloadedMaxOnly(r) == [r EXCEPT !.maxLeft = r.maxTime]

\* PrivateScreen::addTimer, the counters
Reloaded(r) == [r EXCEPT !.minLeft = r.minTime, !.maxLeft = r.maxTime]

\* PrivateScreen::removeTimer
RemoveTimer(q, t) == RemoveFirst(q, t)

\* CompTimer::setTimes, the fields
WithTimes(r, iv) ==
    [r EXCEPT !.minTime = iv[1],
              !.maxTime = IF iv[1] <= iv[2] THEN iv[2] ELSE iv[1]]

-----------------------------------------------------------------------------
PersistentTimer ==
    Reloaded(WithTimes([NewTimer EXCEPT !.active = TRUE, !.hasCb = TRUE], PingInterval))

\* The persistent timers are started before the main loop first runs.
Init ==
    /\ queue = Startup
    /\ timer = [t \in Timers |-> IF t \in Persistent THEN PersistentTimer ELSE NewTimer]
    /\ phase = "events"
    /\ cur = NoTimer
    /\ scan = 0
    /\ wait = 0
    /\ now \in 0..TicksPerSecond - 1
    /\ last = now
    /\ elapsed = 0
    /\ age = [t \in Timers |-> 0]

-----------------------------------------------------------------------------
(* Operations of CompTimer, called while a callback or another source's    *)
(* handler runs.  No caller passes an empty callback to setCallback, stops *)
(* the startup timers, or deletes the timer whose callback is running.     *)

CanCall(t) == phase \in {"events", "callback"} /\ t \notin Persistent

\* stop (); start (), with the fields already set to those of r
Restart(t, r) ==
    LET q == RemoveTimer(queue, t) IN
    /\ IF r.hasCb
       THEN /\ queue' = AddTimer(q, timer, t, r.minTime)
            /\ timer' = [timer EXCEPT ![t] = Reloaded([r EXCEPT !.active = TRUE])]
       ELSE /\ queue' = q
            /\ timer' = [timer EXCEPT ![t] = [r EXCEPT !.active = FALSE]]
    /\ age' = [age EXCEPT ![t] = 0]

\* A setter: an active timer is stopped and started again around the change.
Change(t, r) ==
    IF timer[t].active
    THEN Restart(t, r)
    ELSE /\ timer' = [timer EXCEPT ![t] = r]
         /\ UNCHANGED <<queue, age>>

Unlink(t, r) ==
    /\ queue' = RemoveTimer(queue, t)
    /\ timer' = [timer EXCEPT ![t] = r]
    /\ age' = [age EXCEPT ![t] = 0]

\* CompTimer::setTimes
SetTimes(t, iv) ==
    /\ CanCall(t)
    /\ Change(t, WithTimes(timer[t], iv))
    /\ UNCHANGED loop

\* CompTimer::setCallback
SetCallback(t) ==
    /\ CanCall(t)
    /\ Change(t, [timer[t] EXCEPT !.hasCb = TRUE])
    /\ UNCHANGED loop

\* CompTimer::start (), start (min, max)
Start(t) ==
    /\ CanCall(t)
    /\ \/ Restart(t, timer[t])
       \/ \E iv \in Intervals : Restart(t, WithTimes(timer[t], iv))
    /\ UNCHANGED loop

\* CompTimer::start (callback, min, max)
StartCallback(t, iv) ==
    /\ CanCall(t)
    /\ Restart(t, [WithTimes(timer[t], iv) EXCEPT !.hasCb = TRUE])
    /\ UNCHANGED loop

\* CompTimer::stop
Stop(t) ==
    /\ CanCall(t)
    /\ Unlink(t, [timer[t] EXCEPT !.active = FALSE])
    /\ UNCHANGED loop

\* CompTimer::~CompTimer; the name stands for a new timer afterwards
Destroy(t) ==
    /\ CanCall(t)
    /\ t # cur
    /\ Unlink(t, NewTimer)
    /\ UNCHANGED loop

-----------------------------------------------------------------------------
(* The main loop.                                                          *)

Older(d) ==
    [t \in Timers |->
        IF t \notin Range(queue) THEN 0
        ELSE IF age[t] + d <= MaxAge THEN age[t] + d ELSE MaxAge]

\* CompTimeoutSource::prepare.  mLastTimeout becomes the current time
\* whether or not anybody charged the time that passed before it.
Prepare ==
    /\ phase = "prepare"
    /\ \/ /\ queue = <<>>
          /\ wait' = 15
          /\ phase' = "fire"
          /\ UNCHANGED <<last, scan>>
       \/ /\ queue # <<>>
          /\ timer[Head(queue)].minLeft <= 0
          /\ wait' = 0
          /\ phase' = "fire"
          /\ last' = now
          /\ UNCHANGED scan
       \/ /\ queue # <<>>
          /\ timer[Head(queue)].minLeft > 0
          /\ wait' = timer[Head(queue)].maxLeft
          /\ scan' = 1
          /\ phase' = "scan"
          /\ last' = now
    /\ UNCHANGED <<queue, timer, cur, now, elapsed, age>>

\* Mutant: the loop stops at the first maximum that is not smaller.
ScanEndsAtMax == scan > Len(queue) \/ timer[queue[scan]].maxLeft >= wait

\* The loop of prepare, one timer at a time: shorten the wait to the maximum
\* of every timer whose minimum falls inside it.
ScanEnds == scan > Len(queue) \/ timer[queue[scan]].minLeft >= wait

Scan ==
    /\ phase = "scan"
    /\ IF ScanEnds
       THEN /\ phase' = "poll"
            /\ scan' = 0
            /\ UNCHANGED wait
       ELSE LET left == timer[queue[scan]].maxLeft IN
            /\ wait' = IF left < wait THEN left ELSE wait
            /\ scan' = scan + 1
            /\ UNCHANGED phase
    /\ UNCHANGED <<queue, timer, cur, now, last, elapsed, age>>

\* poll () returns at the timeout, later, or earlier for another source.
Poll ==
    /\ phase = "poll"
    /\ \E d \in 0..wait + MaxOverrun :
          /\ elapsed' = d
          /\ now' = (now + d) % TicksPerSecond
          /\ age' = Older(d)
    /\ phase' = "check"
    /\ UNCHANGED <<queue, timer, cur, scan, wait, last>>

\* TIMESPECDIFF (&ts, &mLastTimeout).  The macro multiplies whole seconds by
\* 1000000 although its operands are nanoseconds, so after its division a
\* second counts as one millisecond.
TimeDiff ==
    LET ts == last + elapsed
    IN  (ts \div TicksPerSecond) + (ts % TicksPerSecond) - last

\* Mutant: the difference is rounded up.
ChargedUp == IF TimeDiff < 0 THEN 0 ELSE TimeDiff + 1

\* The difference check charges: a negative one is taken for zero.
Charged == IF TimeDiff < 0 THEN 0 ELSE TimeDiff

Charge(r, d) == [r EXCEPT !.minLeft = @ - d, !.maxLeft = @ - d]

\* CompTimeoutSource::check
Check ==
    /\ phase = "check"
    /\ timer' = [t \in Timers |->
                    IF t \in Range(queue) THEN Charge(timer[t], Charged) ELSE timer[t]]
    /\ phase' = IF timer'[Head(queue)].minLeft <= 0 THEN "fire" ELSE "events"
    /\ wait' = 0
    /\ elapsed' = 0
    /\ UNCHANGED <<queue, cur, scan, now, last, age>>

\* CompTimeoutSource::callback: the loop head, and the call it makes
Fire ==
    /\ phase = "fire"
    /\ IF queue # <<>> /\ timer[Head(queue)].minLeft <= 0
       THEN LET t == Head(queue) IN
            /\ queue' = Tail(queue)
            /\ timer' = [timer EXCEPT ![t].active = FALSE]
            /\ age' = [age EXCEPT ![t] = 0]
            /\ cur' = t
            /\ phase' = "callback"
            /\ UNCHANGED wait
       ELSE /\ phase' = "prepare"
            /\ wait' = 0
            /\ UNCHANGED <<queue, timer, age, cur>>
    /\ UNCHANGED <<scan, now, last, elapsed>>

\* CompTimeoutSource::callback: the timer's callback returns
Return ==
    /\ phase = "callback"
    /\ \/ /\ queue' = AddTimer(queue, timer, cur, timer[cur].minTime)
          /\ timer' = [timer EXCEPT ![cur] =
                          [IF cur \in Range(queue) THEN @ ELSE Reloaded(@)
                           EXCEPT !.active = TRUE]]
       \/ /\ cur \notin Persistent
          /\ UNCHANGED <<queue, timer>>
    /\ cur' = NoTimer
    /\ phase' = "fire"
    /\ UNCHANGED <<scan, wait, now, last, elapsed, age>>

\* The other sources have been dispatched.
EventsDone ==
    /\ phase = "events"
    /\ phase' = "prepare"
    /\ UNCHANGED <<queue, timer, cur, scan, wait, now, last, elapsed, age>>

\* Callbacks and handlers take time.
Work ==
    /\ phase \in {"events", "callback"}
    /\ \E d \in 1..MaxStep :
          /\ now' = (now + d) % TicksPerSecond
          /\ age' = Older(d)
    /\ UNCHANGED <<queue, timer, phase, cur, scan, wait, last, elapsed>>

-----------------------------------------------------------------------------
Call ==
    \E t \in Timers :
        \/ SetCallback(t) \/ Start(t) \/ Stop(t) \/ Destroy(t)
        \/ \E iv \in Intervals : SetTimes(t, iv) \/ StartCallback(t, iv)

Loop == Prepare \/ Scan \/ Poll \/ Check \/ Fire \/ Return \/ EventsDone

Next == Call \/ Loop \/ Work

Spec == Init /\ [][Next]_vars

\* Callbacks and handlers return, and GLib keeps turning the loop.
FairSpec == Spec /\ WF_vars(Loop)

-----------------------------------------------------------------------------
(* Properties.                                                             *)

TimerRecord ==
    [active : BOOLEAN, hasCb : BOOLEAN,
     minTime : Nat, maxTime : Nat, minLeft : Int, maxLeft : Int]

TypeOK ==
    /\ queue \in Seq(Timers)
    /\ timer \in [Timers -> TimerRecord]
    /\ phase \in Phases
    /\ cur \in Timers \cup {NoTimer}
    /\ scan \in Nat
    /\ wait \in Int
    /\ now \in 0..TicksPerSecond - 1
    /\ last \in 0..TicksPerSecond - 1
    /\ elapsed \in Nat
    /\ age \in [Timers -> 0..MaxAge]

\* The screen's list holds no timer twice, so that removeTimer, which erases
\* one occurrence, leaves none behind for a deleted timer.
NoDuplicates == IsInjective(queue)

\* A timer says it is active exactly while the list holds it, whatever order
\* callbacks and handlers start, stop, change and delete timers in.
ActiveIffQueued == \A t \in Timers : timer[t].active <=> t \in Range(queue)

\* The list stays ordered by the time left, which is all prepare, check and
\* callback look at: they test its first element only.
SortedBy(q, tm) ==
    \A i, j \in 1..Len(q) : i < j => tm[q[i]].minLeft <= tm[q[j]].minLeft

Sorted == SortedBy(queue, timer)

\* check takes the front of the list without testing that there is one.
CheckHasTimer == phase = "check" => queue # <<>>

\* The list that prepare, check and callback walk is the active timers, once
\* each and in order, and has a front when it is taken.
ListAgrees == NoDuplicates /\ ActiveIffQueued /\ Sorted /\ CheckHasTimer

\* The timeout given to poll () reaches no timer's maximum, and is long
\* enough for some timer to be due when it expires.
WaitMeetsMaxima ==
    phase = "poll" =>
        /\ \A t \in Range(queue) : wait <= timer[t].maxLeft
        /\ \E t \in Range(queue) : timer[t].minLeft <= wait

\* A callback is never invoked before its minimum time has really passed
\* since the timer was armed.
NeverEarly ==
    [][phase = "fire" /\ phase' = "callback" => age[cur'] >= timer[cur'].minTime]_vars

\* The dispatch of the source leaves no due timer in the list behind the
\* front that is not due.
AllDueFired ==
    [][phase = "fire" /\ phase' = "prepare" =>
          \A t \in Range(queue) : timer[t].minLeft > 0]_vars

\* The loop of the callback ends and poll () is reached again and again,
\* however timers re-arm themselves and each other, unless timers whose
\* minimum is zero keep being fired, which are due as soon as they are queued,
\* or the list is found empty again and again, which makes the source ready.
LoopTurns ==
    <>[](/\ phase = "callback" => timer[cur].minTime > 0
         /\ phase = "prepare" => queue # <<>>)
        => []<>(phase = "poll")

\* As long as the measured time advances again and again, every active timer
\* is invoked or stopped, whatever others do to the list, unless it is started
\* anew again and again.
Advances == phase = "check" /\ Charged > 0

EachFires ==
    []<>Advances =>
        \A t \in Timers :
            \/ []<>~timer[t].active
            \/ []<><<timer'[t].minLeft > timer[t].minLeft>>_vars

TimersServed == LoopTurns /\ EachFires

\* The list, the counters and the loop keep what timer.h promises of timers:
\* none runs before its minimum time, while another runs, after it was stopped
\* or without having been started.
P == INSTANCE TimerPromise
         WITH Kept <- Persistent,
              asked <- [t \in Timers |-> IF timer[t].active THEN timer[t].minTime ELSE -1],
              waited <- [t \in Timers |-> IF timer[t].active THEN age[t] ELSE 0],
              running <- IF phase = "callback" THEN cur ELSE NoTimer

KeepsPromise == P!Spec

=============================================================================
