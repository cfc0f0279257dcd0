---------------------------- MODULE TimerPromise -----------------------------
(* What timer.h promises of CompTimer, whatever keeps the timers: one that  *)
(* was started waits for at least its minimum time, counted from its last   *)
(* start; then its callback runs, alone, and may ask for another turn; one  *)
(* that is stopped, or given no callback, does not run.                     *)
EXTENDS Integers

CONSTANTS Timers, NoTimer,
          Kept,     \* timers nobody stops and whose callbacks always go on
          MaxAge    \* the longest minimum time; the count of waiting time stops there

Off == -1
Minima == 0..MaxAge

VARIABLES asked,    \* the minimum time of each timer that waits, or Off
          waited,   \* how long each has waited
          running   \* the timer whose callback runs, or NoTimer

vars == <<asked, waited, running>>

Init ==
    /\ asked \in [Timers -> Minima \cup {Off}]
    /\ \A t \in Kept : asked[t] # Off
    /\ waited = [t \in Timers |-> 0]
    /\ running = NoTimer

Begin(t) ==
    /\ t \notin Kept
    /\ \E min \in Minima : asked' = [asked EXCEPT ![t] = min]
    /\ waited' = [waited EXCEPT ![t] = 0]
    /\ UNCHANGED running

End(t) ==
    /\ t \notin Kept
    /\ asked' = [asked EXCEPT ![t] = Off]
    /\ waited' = [waited EXCEPT ![t] = 0]
    /\ UNCHANGED running

Run(t) ==
    /\ running = NoTimer /\ asked[t] # Off /\ waited[t] >= asked[t]
    /\ asked' = [asked EXCEPT ![t] = Off]
    /\ waited' = [waited EXCEPT ![t] = 0]
    /\ running' = t

(* The callback may have started its own timer; it need not wait again.     *)
Return(t) ==
    /\ running = t /\ running' = NoTimer
    /\ \/ /\ asked[t] = Off
          /\ \E min \in Minima : asked' = [asked EXCEPT ![t] = min]
       \/ /\ t \in Kept => asked[t] # Off
          /\ UNCHANGED asked
    /\ UNCHANGED waited

(* Time passes for the timers that wait.                                    *)
Wait ==
    /\ \E d \in 0..MaxAge :
          waited' = [t \in Timers |->
                        IF asked[t] = Off THEN 0
                        ELSE IF waited[t] + d <= MaxAge THEN waited[t] + d ELSE MaxAge]
    /\ UNCHANGED <<asked, running>>

Next == Wait \/ \E t \in Timers : Begin(t) \/ End(t) \/ Run(t) \/ Return(t)

Spec == Init /\ [][Next]_vars
=============================================================================
