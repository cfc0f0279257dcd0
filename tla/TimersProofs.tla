---------------------------- MODULE TimersProofs ----------------------------
(***************************************************************************)
(* Proofs about Timers, for every set of timers, every set of intervals    *)
(* and every bound.                                                        *)
(***************************************************************************)
EXTENDS Timers, SequenceTheorems, WellFoundedInduction, TLAPS

-----------------------------------------------------------------------------
(* Lemmas about the operators on the list.                                 *)

\* Min of a non-empty set of naturals is its least element.
LEMMA MinOfNats ==
    ASSUME NEW S \in SUBSET Nat, S # {}
    PROVE  Min(S) \in S /\ \A y \in S : Min(S) <= y
<1>1. \E x \in S : \A y \in S : x <= y
  <2>1. \E x \in S : \A y \in S : <<y, x>> \notin OpToRel(<, Nat)
    BY NatLessThanWellFounded, WFMin
  <2>2. \A x, y \in S : <<y, x>> \notin OpToRel(<, Nat) => x <= y
    BY DEF OpToRel
  <2>3. QED
    BY <2>1, <2>2
<1>2. QED
  BY <1>1 DEF Min

\* RemoveAt as a sequence.
LEMMA RemoveAtSeq ==
    ASSUME NEW S, NEW q \in Seq(S), NEW i \in 1..Len(q)
    PROVE  /\ RemoveAt(q, i) \in Seq(S)
           /\ Len(RemoveAt(q, i)) = Len(q) - 1
           /\ \A j \in 1..Len(q) - 1 :
                 RemoveAt(q, i)[j] = IF j < i THEN q[j] ELSE q[j + 1]
<1> DEFINE l == SubSeq(q, 1, i - 1)
           r == SubSeq(q, i + 1, Len(q))
<1>1. /\ l \in Seq(S) /\ Len(l) = i - 1
      /\ \A j \in 1..i - 1 : l[j] = q[j]
  BY SubSeqProperties, ElementOfSeq, LenProperties
<1>2. /\ r \in Seq(S) /\ Len(r) = Len(q) - i
      /\ \A j \in 1..Len(q) - i : r[j] = q[i + j]
  <2>1. \A j \in i + 1..Len(q) : q[j] \in S
    BY ElementOfSeq
  <2>2. /\ r \in Seq(S)
        /\ Len(r) = IF i + 1 <= Len(q) THEN Len(q) - (i + 1) + 1 ELSE 0
        /\ \A j \in 1..Len(q) - (i + 1) + 1 : r[j] = q[i + 1 + j - 1]
    BY <2>1, SubSeqProperties, LenProperties
  <2>3. QED
    BY <2>2, LenProperties
<1>3. RemoveAt(q, i) = l \o r
  BY DEF RemoveAt
<1> HIDE DEF l, r
<1>4. /\ l \o r \in Seq(S)
      /\ Len(l \o r) = Len(l) + Len(r)
      /\ \A j \in 1..Len(l) + Len(r) :
            (l \o r)[j] = IF j <= Len(l) THEN l[j] ELSE r[j - Len(l)]
  BY <1>1, <1>2, ConcatProperties
<1>5. Len(q) \in Nat
  BY LenProperties
<1>6. SUFFICES ASSUME NEW j \in 1..Len(q) - 1
      PROVE  (l \o r)[j] = IF j < i THEN q[j] ELSE q[j + 1]
  BY <1>1, <1>2, <1>3, <1>4, <1>5
<1>7. CASE j < i
  BY <1>1, <1>2, <1>4, <1>5, <1>7
<1>8. CASE j >= i
  <2>1. (l \o r)[j] = r[j - (i - 1)]
    BY <1>1, <1>2, <1>4, <1>5, <1>8
  <2>2. r[j - (i - 1)] = q[i + (j - (i - 1))]
    BY <1>2, <1>5, <1>8
  <2>3. QED
    BY <2>1, <2>2, <1>5, <1>8
<1>9. j < i \/ j >= i
  BY <1>5
<1>10. QED
  BY <1>7, <1>8, <1>9

\* InsertAt as a sequence.
LEMMA InsertAtSeq ==
    ASSUME NEW S, NEW q \in Seq(S), NEW i \in 1..Len(q) + 1, NEW e \in S
    PROVE  /\ InsertAt(q, i, e) \in Seq(S)
           /\ Len(InsertAt(q, i, e)) = Len(q) + 1
           /\ \A j \in 1..Len(q) + 1 :
                 InsertAt(q, i, e)[j] = IF j < i THEN q[j]
                                        ELSE IF j = i THEN e ELSE q[j - 1]
<1> DEFINE l == SubSeq(q, 1, i - 1)
           r == SubSeq(q, i, Len(q))
<1>1. /\ l \in Seq(S) /\ Len(l) = i - 1
      /\ \A j \in 1..i - 1 : l[j] = q[j]
  BY SubSeqProperties, ElementOfSeq, LenProperties
<1>2. /\ r \in Seq(S) /\ Len(r) = Len(q) - i + 1
      /\ \A j \in 1..Len(q) - i + 1 : r[j] = q[i + j - 1]
  BY SubSeqProperties, ElementOfSeq, LenProperties
<1>3. <<e>> \in Seq(S) /\ Len(<<e>>) = 1 /\ <<e>>[1] = e
  OBVIOUS
<1>4. InsertAt(q, i, e) = (l \o <<e>>) \o r
  BY DEF InsertAt
<1> HIDE DEF l, r
<1> DEFINE p == l \o <<e>>
<1>5. /\ p \in Seq(S)
      /\ Len(p) = i
      /\ \A j \in 1..i : p[j] = IF j < i THEN q[j] ELSE e
  BY <1>1, <1>3, ConcatProperties, LenProperties
<1> HIDE DEF p
<1>6. /\ p \o r \in Seq(S)
      /\ Len(p \o r) = Len(p) + Len(r)
      /\ \A j \in 1..Len(p) + Len(r) :
            (p \o r)[j] = IF j <= Len(p) THEN p[j] ELSE r[j - Len(p)]
  BY <1>2, <1>5, ConcatProperties
<1>7. Len(q) \in Nat
  BY LenProperties
<1>8. SUFFICES ASSUME NEW j \in 1..Len(q) + 1
      PROVE  (p \o r)[j] = IF j < i THEN q[j] ELSE IF j = i THEN e ELSE q[j - 1]
  BY <1>2, <1>4, <1>5, <1>6, <1>7
   DEF p
<1>9. CASE j <= i
  BY <1>2, <1>5, <1>6, <1>7, <1>9
<1>10. CASE j > i
  <2>1. (p \o r)[j] = r[j - i]
    BY <1>2, <1>5, <1>6, <1>7, <1>10
  <2>2. r[j - i] = q[i + (j - i) - 1]
    BY <1>2, <1>7, <1>10
  <2>3. QED
    BY <2>1, <2>2, <1>7, <1>10
<1>11. j <= i \/ j > i
  BY <1>7
<1>12. QED
  BY <1>9, <1>10, <1>11

\* removeTimer takes exactly one timer out and keeps the order of the rest.
LEMMA RemoveTimerList ==
    ASSUME NEW q \in Seq(Timers), IsInjective(q), NEW t \in Timers,
           NEW tm, SortedBy(q, tm)
    PROVE  /\ RemoveTimer(q, t) \in Seq(Timers)
           /\ IsInjective(RemoveTimer(q, t))
           /\ Range(RemoveTimer(q, t)) = Range(q) \ {t}
           /\ SortedBy(RemoveTimer(q, t), tm)
<1>1. Len(q) \in Nat /\ DOMAIN q = 1..Len(q)
  BY LenProperties
<1>2. CASE t \notin Range(q)
  <2>1. RemoveTimer(q, t) = q
    BY <1>1, <1>2 DEF RemoveTimer, RemoveFirst, Range
  <2>2. QED
    BY <1>2, <2>1
<1>3. CASE t \in Range(q)
  <2> DEFINE I == {i \in 1..Len(q) : q[i] = t}
             k == Min(I)
             r == RemoveAt(q, k)
  <2>1. I # {} /\ I \in SUBSET Nat
    BY <1>1, <1>3 DEF Range
  <2>2. k \in 1..Len(q) /\ q[k] = t
    BY <2>1, MinOfNats
  <2>3. RemoveTimer(q, t) = r
    BY <2>1 DEF RemoveTimer, RemoveFirst, SelectInSeq
  <2> HIDE DEF I, k
  <2>4. /\ r \in Seq(Timers)
        /\ Len(r) = Len(q) - 1
        /\ \A j \in 1..Len(q) - 1 : r[j] = IF j < k THEN q[j] ELSE q[j + 1]
    BY <2>2, RemoveAtSeq
  <2> HIDE DEF r
  <2>5. DOMAIN r = 1..Len(q) - 1
    BY <2>4, LenProperties
  <2>6. \A a, b \in 1..Len(q) : q[a] = q[b] => a = b
    BY <1>1 DEF IsInjective
  <2>7. IsInjective(r)
    BY <1>1, <2>2, <2>4, <2>5, <2>6 DEF IsInjective
  <2>8. Range(r) = Range(q) \ {t}
    <3>1. ASSUME NEW j \in 1..Len(q) - 1
          PROVE  r[j] \in Range(q) /\ r[j] # t
      <4>1. PICK m \in 1..Len(q) : r[j] = q[m] /\ m # k
        BY <1>1, <2>2, <2>4
      <4>2. QED
        BY <1>1, <2>2, <2>6, <4>1 DEF Range
    <3>2. ASSUME NEW j \in 1..Len(q), q[j] # t
          PROVE  \E m \in 1..Len(q) - 1 : r[m] = q[j]
      <4>1. CASE j < k
        BY <1>1, <2>2, <2>4, <4>1
      <4>2. CASE j > k
        <5>1. j - 1 \in 1..Len(q) - 1 /\ r[j - 1] = q[j]
          BY <1>1, <2>2, <2>4, <4>2
        <5>2. QED
          BY <5>1
      <4>3. QED
        BY <1>1, <2>2, <3>2, <4>1, <4>2
    <3>3. \A x : x \in Range(q) <=> \E j \in 1..Len(q) : x = q[j]
      BY <1>1 DEF Range
    <3>4. \A x : x \in Range(r) <=> \E j \in 1..Len(q) - 1 : x = r[j]
      BY <2>5 DEF Range
    <3>5. QED
      BY SMTT(30), <3>1, <3>2, <3>3, <3>4
  <2>9. SortedBy(r, tm)
    <3>1. SUFFICES ASSUME NEW i \in 1..Len(q) - 1, NEW j \in 1..Len(q) - 1, i < j
          PROVE  tm[r[i]].minLeft <= tm[r[j]].minLeft
      BY <2>4 DEF SortedBy
    <3>2. PICK m \in 1..Len(q), n \in 1..Len(q) : m < n /\ r[i] = q[m] /\ r[j] = q[n]
      <4>1. r[i] = q[i] \/ (r[i] = q[i + 1] /\ i >= k)
        BY <1>1, <2>2, <2>4
      <4>2. r[j] = q[j + 1] \/ (r[j] = q[j] /\ j < k)
        BY <1>1, <2>2, <2>4
      <4>3. QED
        BY <1>1, <2>2, <3>1, <4>1, <4>2
    <3>3. QED
      BY <3>2 DEF SortedBy
  <2>10. QED
    BY <2>3, <2>4, <2>7, <2>8, <2>9
<1>4. QED
  BY <1>2, <1>3

\* addTimer puts a timer that is not in the list before the first one with
\* more time left, so the list stays sorted once the timer's time is reloaded.
LEMMA AddTimerList ==
    ASSUME NEW q \in Seq(Timers), IsInjective(q), NEW t \in Timers, t \notin Range(q),
           NEW tm, NEW um, NEW min \in Int, SortedBy(q, tm),
           \A u \in Range(q) : tm[u].minLeft \in Int /\ um[u].minLeft = tm[u].minLeft,
           um[t].minLeft = min
    PROVE  /\ AddTimer(q, tm, t, min) \in Seq(Timers)
           /\ IsInjective(AddTimer(q, tm, t, min))
           /\ Range(AddTimer(q, tm, t, min)) = Range(q) \cup {t}
           /\ SortedBy(AddTimer(q, tm, t, min), um)
<1> DEFINE L == {i \in 1..Len(q) : min < tm[q[i]].minLeft}
           k == InsertPos(q, tm, min)
           r == InsertAt(q, k, t)
<1>1. Len(q) \in Nat /\ DOMAIN q = 1..Len(q)
  BY LenProperties
<1>2. /\ k \in 1..Len(q) + 1
      /\ \A i \in 1..Len(q) : i < k => ~ (min < tm[q[i]].minLeft)
      /\ k <= Len(q) => min < tm[q[k]].minLeft
  <2>1. CASE L = {}
    BY <1>1, <2>1 DEF InsertPos
  <2>2. CASE L # {}
    <3>1. k = Min(L) /\ L \in SUBSET Nat
      BY <2>2 DEF InsertPos
    <3>2. k \in L /\ \A y \in L : k <= y
      BY <2>2, <3>1, MinOfNats
    <3>3. QED
      BY <1>1, <3>2
  <2>3. QED
    BY <2>1, <2>2
<1>3. AddTimer(q, tm, t, min) = r
  BY DEF AddTimer
<1> HIDE DEF k
<1>4. /\ r \in Seq(Timers)
      /\ Len(r) = Len(q) + 1
      /\ \A j \in 1..Len(q) + 1 :
            r[j] = IF j < k THEN q[j] ELSE IF j = k THEN t ELSE q[j - 1]
  <2>1. k \in 1..Len(q) + 1
    BY <1>2
  <2>2. QED
    BY <2>1, InsertAtSeq
<1> HIDE DEF r
<1>5. DOMAIN r = 1..Len(q) + 1
  BY <1>4, LenProperties
<1>6. /\ \A a, b \in 1..Len(q) : q[a] = q[b] => a = b
      /\ \A a \in 1..Len(q) : q[a] \in Range(q) /\ q[a] # t
  BY <1>1 DEF IsInjective, Range
<1>7. IsInjective(r)
  BY <1>1, <1>2, <1>4, <1>5, <1>6 DEF IsInjective
<1>8. Range(r) = Range(q) \cup {t}
  <2>1. \A j \in 1..Len(q) + 1 : r[j] \in Range(q) \cup {t}
    BY <1>1, <1>2, <1>4, <1>6
  <2>2. r[k] = t
    BY <1>1, <1>2, <1>4
  <2>3. ASSUME NEW j \in 1..Len(q)
        PROVE  \E m \in 1..Len(q) + 1 : r[m] = q[j]
    <3>1. CASE j < k
      BY <1>1, <1>2, <1>4, <3>1
    <3>2. CASE j >= k
      <4>1. j + 1 \in 1..Len(q) + 1 /\ r[j + 1] = q[j]
        BY <1>1, <1>2, <1>4, <3>2
      <4>2. QED
        BY <4>1
    <3>3. QED
      BY <1>1, <1>2, <3>1, <3>2
  <2>4. \A x : x \in Range(q) <=> \E j \in 1..Len(q) : x = q[j]
    BY <1>1 DEF Range
  <2>5. \A x : x \in Range(r) <=> \E j \in 1..Len(q) + 1 : x = r[j]
    BY <1>5 DEF Range
  <2>6. QED
    BY SMTT(30), <1>1, <1>2, <2>1, <2>2, <2>3, <2>4, <2>5
<1>9. SortedBy(r, um)
  <2>1. \A i, j \in 1..Len(q) :
           i < j => um[q[i]].minLeft <= um[q[j]].minLeft
    BY <1>6 DEF SortedBy
  <2>2. \A i \in 1..Len(q) :
           /\ um[q[i]].minLeft \in Int
           /\ i < k => um[q[i]].minLeft <= min
           /\ i >= k => min <= um[q[i]].minLeft
    <3>1. \A i \in 1..Len(q) : um[q[i]].minLeft \in Int
      BY <1>6
    <3>2. \A i \in 1..Len(q) : i < k => um[q[i]].minLeft <= min
      BY <1>2, <1>6
    <3>3. \A i \in 1..Len(q) : i >= k => min <= um[q[i]].minLeft
      <4>1. SUFFICES ASSUME NEW i \in 1..Len(q), i >= k
            PROVE  min <= um[q[i]].minLeft
        OBVIOUS
      <4>2. k \in 1..Len(q) /\ min < um[q[k]].minLeft
        BY <1>1, <1>2, <1>6, <4>1
      <4>3. um[q[k]].minLeft <= um[q[i]].minLeft
        BY <1>1, <2>1, <3>1, <4>1, <4>2
      <4>4. QED
        BY <3>1, <4>2, <4>3
    <3>4. QED
      BY <3>1, <3>2, <3>3
  <2>3. SUFFICES ASSUME NEW i \in 1..Len(q) + 1, NEW j \in 1..Len(q) + 1, i < j
        PROVE  um[r[i]].minLeft <= um[r[j]].minLeft
    BY <1>4 DEF SortedBy
  <2>4. CASE j < k
    BY <1>1, <1>2, <1>4, <2>1, <2>3, <2>4
  <2>5. CASE j = k
    BY <1>1, <1>2, <1>4, <2>2, <2>3, <2>5
  <2>6. CASE j > k
    <3>1. r[j] = q[j - 1] /\ j - 1 \in 1..Len(q) /\ j - 1 >= k
      BY <1>1, <1>2, <1>4, <2>6
    <3>2. CASE i < k
      <4>1. r[i] = q[i] /\ i \in 1..Len(q) /\ i < j - 1
        BY <1>1, <1>2, <1>4, <2>6, <3>2
      <4>2. QED
        BY <2>1, <3>1, <4>1
    <3>3. CASE i = k
      <4>1. r[i] = t
        BY <1>4, <3>3
      <4>2. QED
        BY <2>2, <3>1, <4>1
    <3>4. CASE i > k
      <4>1. r[i] = q[i - 1] /\ i - 1 \in 1..Len(q) /\ i - 1 < j - 1
        BY <1>1, <1>2, <1>4, <2>3, <3>4
      <4>2. QED
        BY <2>1, <3>1, <4>1
    <3>5. QED
      BY <1>2, <3>2, <3>3, <3>4
  <2>7. QED
    BY <1>2, <2>4, <2>5, <2>6
<1>10. QED
  BY <1>3, <1>4, <1>7, <1>8, <1>9

-----------------------------------------------------------------------------
(* The inductive invariant.                                                *)

\* Whatever setTimes was given, the maximum is not below the minimum.
TimesOK ==
    \A t \in Timers :
        timer[t].minTime <= timer[t].maxTime /\ timer[t].minTime <= MaxAge

LeftOK == \A t \in Range(queue) : timer[t].minLeft <= timer[t].maxLeft

\* What was taken off a queued timer's minimum, and what check is about to
\* take off, has really passed.
AgeOK ==
    \A t \in Range(queue) :
        \/ age[t] >= timer[t].minTime
        \/ age[t] + timer[t].minLeft >= timer[t].minTime + elapsed

PhaseOK ==
    /\ phase \in {"scan", "poll", "check"} => queue # <<>>
    /\ phase = "callback" => cur \in Timers
    /\ phase # "check" => elapsed = 0
    /\ phase \in {"scan", "poll"} => wait \in Nat

\* The loop of prepare has looked at the first scan - 1 timers.
ScanOK ==
    phase = "scan" =>
        /\ scan \in 1..Len(queue) + 1
        /\ \A i \in 1..scan - 1 : wait <= timer[queue[i]].maxLeft
        /\ \E i \in 1..Len(queue) : wait = timer[queue[i]].maxLeft
        /\ \A i \in 1..Len(queue) : timer[queue[i]].minLeft > 0

ListInv ==
    NoDuplicates /\ ActiveIffQueued /\ Sorted /\ TimesOK /\ LeftOK /\ AgeOK

IInv == TypeOK /\ ListInv /\ PhaseOK /\ ScanOK /\ WaitMeetsMaxima

\* The measured time is never more than the time that passed.
LEMMA ChargedBound ==
    ASSUME TypeOK
    PROVE  Charged \in Nat /\ Charged <= elapsed
<1> DEFINE S == TicksPerSecond
           ts == last + elapsed
           d == ts \div S
           m == ts % S
<1>1. S \in Nat \ {0} /\ last \in Nat /\ last < S /\ elapsed \in Nat
  BY TimersAssumption DEF TypeOK
<1>2. d \in Nat /\ m \in 0..S - 1 /\ ts = S * d + m
  BY <1>1
<1>3. S * d >= d
  <2>1. \A a, b \in Nat : a >= 1 => a * b >= b
    OBVIOUS
  <2>2. QED
    BY <1>1, <1>2, <2>1
<1>4. TimeDiff = d + m - last
  BY DEF TimeDiff
<1> HIDE DEF d, m
<1>5. TimeDiff \in Int /\ TimeDiff <= elapsed
  BY <1>1, <1>2, <1>3, <1>4
<1>6. QED
  BY <1>1, <1>5 DEF Charged

\* The record setTimes leaves behind.
LEMMA WithTimesRecord ==
    ASSUME NEW r \in TimerRecord, NEW iv \in Intervals \cup {PingInterval}
    PROVE  /\ WithTimes(r, iv) \in TimerRecord
           /\ WithTimes(r, iv).active = r.active
           /\ WithTimes(r, iv).minTime <= WithTimes(r, iv).maxTime
           /\ WithTimes(r, iv).minTime <= MaxAge
<1>1. iv[1] \in Nat /\ iv[2] \in Nat /\ iv[1] <= MaxAge
  BY TimersAssumption
<1> DEFINE max == IF iv[1] <= iv[2] THEN iv[2] ELSE iv[1]
<1>2. max \in Nat /\ iv[1] <= max
  BY <1>1
<1>3. WithTimes(r, iv) = [r EXCEPT !.minTime = iv[1], !.maxTime = max]
  BY DEF WithTimes
<1> HIDE DEF max
<1>4. QED
  BY <1>1, <1>2, <1>3 DEF TimerRecord

\* The record addTimer and start leave behind.
LEMMA ReloadedRecord ==
    ASSUME NEW r \in TimerRecord
    PROVE  LET n == Reloaded([r EXCEPT !.active = TRUE]) IN
           /\ n \in TimerRecord
           /\ n.active
           /\ n.minTime = r.minTime /\ n.maxTime = r.maxTime
           /\ n.minLeft = r.minTime /\ n.maxLeft = r.maxTime
<1> DEFINE a == [r EXCEPT !.active = TRUE]
<1>1. /\ a \in TimerRecord /\ a.active = TRUE
      /\ a.minTime = r.minTime /\ a.maxTime = r.maxTime
      /\ r.minTime \in Nat /\ r.maxTime \in Nat
  BY DEF TimerRecord
<1>2. Reloaded(a) = [a EXCEPT !.minLeft = a.minTime, !.maxLeft = a.maxTime]
  BY DEF Reloaded
<1> HIDE DEF a
<1> DEFINE n == Reloaded(a)
<1>3. n \in TimerRecord
  <2>1. a.minTime \in Int /\ a.maxTime \in Int
    BY <1>1
  <2>2. \A x, y \in Int : [a EXCEPT !.minLeft = x, !.maxLeft = y] \in TimerRecord
    BY <1>1 DEF TimerRecord
  <2>3. QED
    BY <1>2, <2>1, <2>2
<1>4. /\ n.active = a.active
      /\ n.minTime = a.minTime /\ n.maxTime = a.maxTime
      /\ n.minLeft = a.minTime /\ n.maxLeft = a.maxTime
  BY <1>1, <1>2 DEF TimerRecord
<1> HIDE DEF n
<1>5. QED
  BY <1>1, <1>3, <1>4 DEF n, a

\* The parts of the invariant about the main loop do not look at the list
\* while callbacks and handlers run.
LEMMA CallLoop ==
    ASSUME phase \in {"events", "callback"}, PhaseOK, UNCHANGED loop
    PROVE  PhaseOK' /\ ScanOK' /\ WaitMeetsMaxima'
BY DEF PhaseOK, ScanOK, WaitMeetsMaxima, loop

\* Taking a timer out of the list and changing its record.
LEMMA UnlinkInv ==
    ASSUME IInv, NEW t \in Timers, CanCall(t), UNCHANGED loop,
           NEW r \in TimerRecord, ~ r.active,
           r.minTime <= r.maxTime, r.minTime <= MaxAge,
           Unlink(t, r)
    PROVE  IInv'
<1>1. TypeOK /\ ListInv /\ PhaseOK
  BY DEF IInv
<1>2. /\ queue' \in Seq(Timers)
      /\ IsInjective(queue')
      /\ Range(queue') = Range(queue) \ {t}
      /\ SortedBy(queue', timer)
  BY <1>1, RemoveTimerList
     DEF Unlink, TypeOK, ListInv, NoDuplicates, Sorted
<1>3. timer' = [timer EXCEPT ![t] = r] /\ age' = [age EXCEPT ![t] = 0]
  BY DEF Unlink
<1>4. \A i \in 1..Len(queue') : queue'[i] \in Range(queue')
  BY <1>2, LenProperties DEF Range
<1>5. TypeOK'
  BY <1>1, <1>2, <1>3, TimersAssumption DEF TypeOK, loop
<1>6. NoDuplicates'
  BY <1>2 DEF NoDuplicates
<1>7. ActiveIffQueued'
  BY <1>1, <1>2, <1>3 DEF ActiveIffQueued, ListInv, TypeOK
<1>8. \A u \in Range(queue') :
         u \in Range(queue) /\ u \in Timers /\ timer'[u] = timer[u] /\ age'[u] = age[u]
  BY <1>1, <1>2, <1>3, RangeOfSeq DEF TypeOK
<1>9. Sorted'
  BY <1>2, <1>4, <1>8 DEF Sorted, SortedBy
<1>10. TimesOK'
  BY <1>1, <1>3 DEF TimesOK, ListInv, TypeOK
<1>11. LeftOK'
  BY <1>1, <1>8 DEF LeftOK, ListInv
<1>12. AgeOK'
  BY <1>1, <1>8 DEF AgeOK, ListInv, loop
<1>13. PhaseOK' /\ ScanOK' /\ WaitMeetsMaxima'
  BY <1>1, CallLoop DEF CanCall
<1>14. QED
  BY <1>5, <1>6, <1>7, <1>9, <1>10, <1>11, <1>12, <1>13 DEF IInv, ListInv

\* Stopping a timer and starting it again with another record.
LEMMA RestartInv ==
    ASSUME IInv, NEW t \in Timers, CanCall(t), UNCHANGED loop,
           NEW r \in TimerRecord, r.minTime <= r.maxTime, r.minTime <= MaxAge,
           Restart(t, r)
    PROVE  IInv'
<1>1. TypeOK /\ ListInv /\ PhaseOK
  BY DEF IInv
<1>2. CASE ~ r.hasCb
  <2>1. Unlink(t, [r EXCEPT !.active = FALSE])
    BY <1>2 DEF Restart, Unlink
  <2> DEFINE n == [r EXCEPT !.active = FALSE]
  <2>2. /\ n \in TimerRecord /\ ~ n.active
        /\ n.minTime <= n.maxTime /\ n.minTime <= MaxAge
    BY DEF TimerRecord
  <2> HIDE DEF n
  <2>3. QED
    BY <2>1, <2>2, UnlinkInv DEF n
<1>3. CASE r.hasCb
  <2> DEFINE q == RemoveTimer(queue, t)
             n == Reloaded([r EXCEPT !.active = TRUE])
  <2>1. /\ q \in Seq(Timers)
        /\ IsInjective(q)
        /\ Range(q) = Range(queue) \ {t}
        /\ SortedBy(q, timer)
    BY <1>1, RemoveTimerList DEF TypeOK, ListInv, NoDuplicates, Sorted
  <2>2. /\ queue' = AddTimer(q, timer, t, r.minTime)
        /\ timer' = [timer EXCEPT ![t] = n]
        /\ age' = [age EXCEPT ![t] = 0]
    BY <1>3 DEF Restart
  <2>3. /\ n \in TimerRecord /\ n.active
        /\ n.minTime = r.minTime /\ n.maxTime = r.maxTime
        /\ n.minLeft = r.minTime /\ n.maxLeft = r.maxTime
        /\ r.minTime \in Nat
    BY ReloadedRecord DEF TimerRecord
  <2> HIDE DEF q, n
  <2>4. \A u \in Range(q) : u \in Timers /\ u \in Range(queue) /\ u # t
    BY <2>1, RangeOfSeq
  <2>5. timer'[t] = n /\ \A u \in Range(q) : timer'[u] = timer[u] /\ age'[u] = age[u]
    BY <1>1, <2>2, <2>4 DEF TypeOK
  <2>6. \A u \in Range(q) : timer[u].minLeft \in Int
    BY <1>1, <2>4 DEF TypeOK, TimerRecord
  <2>7. /\ queue' \in Seq(Timers)
        /\ IsInjective(queue')
        /\ Range(queue') = Range(q) \cup {t}
        /\ SortedBy(queue', timer')
    <3>1. t \notin Range(q) /\ r.minTime \in Int /\ timer'[t].minLeft = r.minTime
      BY <2>1, <2>3, <2>5
    <3>2. \A u \in Range(q) :
             timer[u].minLeft \in Int /\ timer'[u].minLeft = timer[u].minLeft
      BY <2>5, <2>6
    <3>3. /\ AddTimer(q, timer, t, r.minTime) \in Seq(Timers)
          /\ IsInjective(AddTimer(q, timer, t, r.minTime))
          /\ Range(AddTimer(q, timer, t, r.minTime)) = Range(q) \cup {t}
          /\ SortedBy(AddTimer(q, timer, t, r.minTime), timer')
      BY <2>1, <3>1, <3>2, AddTimerList
    <3>4. QED
      BY <2>2, <3>3
  <2>8. TypeOK'
    BY <1>1, <2>2, <2>3, <2>7, TimersAssumption DEF TypeOK, loop
  <2>9. NoDuplicates' /\ Sorted'
    BY <2>7 DEF NoDuplicates, Sorted
  <2>10. ActiveIffQueued'
    BY <1>1, <2>1, <2>2, <2>3, <2>7 DEF ActiveIffQueued, ListInv, TypeOK
  <2>11. TimesOK'
    BY <1>1, <2>2, <2>3 DEF TimesOK, ListInv, TypeOK
  <2>12. LeftOK'
    BY <1>1, <2>3, <2>4, <2>5, <2>7 DEF LeftOK, ListInv
  <2>13. AgeOK'
    <3>1. elapsed' = elapsed /\ elapsed = 0
      BY <1>1 DEF loop, CanCall, PhaseOK
    <3>2. age'[t] = 0 /\ age'[t] + timer'[t].minLeft >= timer'[t].minTime + elapsed'
      BY <1>1, <2>2, <2>3, <2>5, <3>1 DEF TypeOK
    <3>3. QED
      BY <1>1, <2>4, <2>5, <2>7, <3>1, <3>2 DEF AgeOK, ListInv
  <2>14. PhaseOK' /\ ScanOK' /\ WaitMeetsMaxima'
    BY <1>1, CallLoop DEF CanCall
  <2>15. QED
    BY <2>8, <2>9, <2>10, <2>11, <2>12, <2>13, <2>14 DEF IInv, ListInv
<1>4. QED
  BY <1>2, <1>3

\* A setter, on an active timer or on one that is not.
LEMMA ChangeInv ==
    ASSUME IInv, NEW t \in Timers, CanCall(t), UNCHANGED loop,
           NEW r \in TimerRecord, r.minTime <= r.maxTime, r.minTime <= MaxAge,
           r.active = timer[t].active, Change(t, r)
    PROVE  IInv'
<1>1. CASE timer[t].active
  BY <1>1, RestartInv DEF Change
<1>2. CASE ~ timer[t].active
  <2>1. TypeOK /\ ListInv /\ PhaseOK
    BY DEF IInv
  <2>2. /\ timer' = [timer EXCEPT ![t] = r]
        /\ queue' = queue /\ age' = age
    BY <1>2 DEF Change
  <2>3. TypeOK'
    BY <2>1, <2>2 DEF TypeOK, loop
  <2>4. \A u \in Range(queue) : u \in Timers /\ u # t /\ timer'[u] = timer[u]
    BY <1>2, <2>1, <2>2, RangeOfSeq DEF TypeOK, ListInv, ActiveIffQueued
  <2>5. \A j \in 1..Len(queue) : queue[j] \in Range(queue)
    BY <2>1, LenProperties DEF TypeOK, Range
  <2>6. NoDuplicates'
    BY <2>1, <2>2 DEF NoDuplicates, ListInv
  <2>7. Sorted'
    BY <2>1, <2>2, <2>4, <2>5 DEF Sorted, SortedBy, ListInv
  <2>8. ActiveIffQueued'
    BY <2>1, <2>2 DEF ActiveIffQueued, ListInv, TypeOK
  <2>9. TimesOK'
    BY <2>1, <2>2 DEF TimesOK, ListInv, TypeOK
  <2>10. LeftOK' /\ AgeOK'
    BY <2>1, <2>2, <2>4 DEF LeftOK, AgeOK, ListInv, loop
  <2>11. PhaseOK' /\ ScanOK' /\ WaitMeetsMaxima'
    BY <2>1, CallLoop DEF CanCall
  <2>12. QED
    BY <2>3, <2>6, <2>7, <2>8, <2>9, <2>10, <2>11 DEF IInv, ListInv
<1>3. QED
  BY <1>1, <1>2

\* Every operation of CompTimer, wherever it is called from.
LEMMA CallInv ==
    ASSUME IInv, Call
    PROVE  IInv'
<1>1. PICK t \in Timers :
         \/ SetCallback(t) \/ Start(t) \/ Stop(t) \/ Destroy(t)
         \/ \E iv \in Intervals : SetTimes(t, iv) \/ StartCallback(t, iv)
  BY DEF Call
<1>2. /\ timer[t] \in TimerRecord
      /\ timer[t].minTime <= timer[t].maxTime
      /\ timer[t].minTime <= MaxAge
  BY DEF IInv, TypeOK, ListInv, TimesOK
<1>3. \A iv \in Intervals :
         /\ WithTimes(timer[t], iv) \in TimerRecord
         /\ WithTimes(timer[t], iv).minTime <= WithTimes(timer[t], iv).maxTime
         /\ WithTimes(timer[t], iv).minTime <= MaxAge
         /\ WithTimes(timer[t], iv).active = timer[t].active
  BY <1>2, WithTimesRecord
<1>4. CASE SetCallback(t)
  <2> DEFINE r == [timer[t] EXCEPT !.hasCb = TRUE]
  <2>1. /\ r \in TimerRecord /\ r.active = timer[t].active
        /\ r.minTime <= r.maxTime /\ r.minTime <= MaxAge
    BY <1>2 DEF TimerRecord
  <2>2. CanCall(t) /\ UNCHANGED loop /\ Change(t, r)
    BY <1>4 DEF SetCallback
  <2> HIDE DEF r
  <2>3. QED
    BY <2>1, <2>2, ChangeInv
<1>5. CASE Start(t)
  BY <1>2, <1>3, <1>5, RestartInv DEF Start
<1>6. CASE Stop(t)
  <2> DEFINE r == [timer[t] EXCEPT !.active = FALSE]
  <2>1. /\ r \in TimerRecord /\ ~ r.active
        /\ r.minTime <= r.maxTime /\ r.minTime <= MaxAge
    BY <1>2 DEF TimerRecord
  <2>2. /\ CanCall(t) /\ UNCHANGED loop /\ Unlink(t, r)
    BY <1>6 DEF Stop
  <2> HIDE DEF r
  <2>3. QED
    BY <2>1, <2>2, UnlinkInv
<1>7. CASE Destroy(t)
  <2>1. /\ NewTimer \in TimerRecord /\ ~ NewTimer.active
        /\ NewTimer.minTime <= NewTimer.maxTime /\ NewTimer.minTime <= MaxAge
    BY TimersAssumption DEF NewTimer, TimerRecord
  <2>2. /\ CanCall(t) /\ UNCHANGED loop /\ Unlink(t, NewTimer)
    BY <1>7 DEF Destroy
  <2>3. QED
    BY <2>1, <2>2, UnlinkInv
<1>8. ASSUME NEW iv \in Intervals, SetTimes(t, iv) PROVE IInv'
  BY <1>3, <1>8, ChangeInv DEF SetTimes
<1>9. ASSUME NEW iv \in Intervals, StartCallback(t, iv) PROVE IInv'
  <2> DEFINE w == WithTimes(timer[t], iv)
             r == [w EXCEPT !.hasCb = TRUE]
  <2> HIDE DEF w
  <2>1. w \in TimerRecord /\ w.minTime <= w.maxTime /\ w.minTime <= MaxAge
    BY <1>3 DEF w
  <2>2. r \in TimerRecord /\ r.minTime <= r.maxTime /\ r.minTime <= MaxAge
    BY <2>1 DEF TimerRecord
  <2>3. CanCall(t) /\ UNCHANGED loop /\ Restart(t, r)
    BY <1>9 DEF StartCallback, w
  <2> HIDE DEF r
  <2>4. QED
    BY <2>2, <2>3, RestartInv
<1>10. QED
  BY <1>1, <1>4, <1>5, <1>6, <1>7, <1>8, <1>9

\* The list and its timers are untouched: only the loop moved on.
LEMMA ListUnchanged ==
    ASSUME IInv, UNCHANGED <<queue, timer, age>>, elapsed' = elapsed
    PROVE  ListInv'
BY DEF IInv, ListInv, NoDuplicates, ActiveIffQueued, Sorted, SortedBy, TimesOK,
       LeftOK, AgeOK

\* Facts about the members of the list.
LEMMA QueueFacts ==
    ASSUME IInv
    PROVE  /\ queue \in Seq(Timers) /\ Len(queue) \in Nat
           /\ DOMAIN queue = 1..Len(queue)
           /\ \A i \in 1..Len(queue) :
                 /\ queue[i] \in Range(queue)
                 /\ timer[queue[i]].minLeft \in Int
                 /\ timer[queue[i]].maxLeft \in Int
                 /\ timer[queue[i]].minLeft <= timer[queue[i]].maxLeft
           /\ \A t \in Range(queue) : t \in Timers /\ \E i \in 1..Len(queue) : t = queue[i]
           /\ queue # <<>> => Head(queue) = queue[1] /\ 1 \in 1..Len(queue)
<1>1. queue \in Seq(Timers) /\ LeftOK /\ timer \in [Timers -> TimerRecord]
  BY DEF IInv, TypeOK, ListInv
<1>2. Len(queue) \in Nat /\ DOMAIN queue = 1..Len(queue)
  BY <1>1, LenProperties
<1>3. \A i \in 1..Len(queue) : queue[i] \in Range(queue) /\ queue[i] \in Timers
  BY <1>1, <1>2, ElementOfSeq DEF Range
<1>4. \A t \in Range(queue) : t \in Timers /\ \E i \in 1..Len(queue) : t = queue[i]
  BY <1>2, <1>3 DEF Range
<1>5. queue # <<>> => Head(queue) = queue[1] /\ 1 \in 1..Len(queue)
  BY <1>1, <1>2, EmptySeq
<1>6. QED
  BY <1>1, <1>2, <1>3, <1>4, <1>5 DEF LeftOK, TimerRecord

LEMMA PrepareInv == ASSUME IInv, Prepare PROVE IInv'
<1>1. TypeOK /\ PhaseOK /\ Sorted /\ phase = "prepare"
  BY DEF IInv, ListInv, Prepare
<1>2. ListInv'
  BY ListUnchanged DEF Prepare
<1>3. CASE queue = <<>>
  <2>1. phase' = "fire" /\ wait' = 15 /\ UNCHANGED <<last, scan>>
    BY <1>3 DEF Prepare
  <2>2. TypeOK'
    BY <1>1, <2>1 DEF TypeOK, Prepare, Phases
  <2>3. QED
    BY <1>1, <1>2, <2>1, <2>2
       DEF IInv, PhaseOK, ScanOK, WaitMeetsMaxima, Prepare
<1>4. CASE queue # <<>> /\ timer[Head(queue)].minLeft <= 0
  <2>0. /\ timer[Head(queue)].minLeft \in Int
    BY <1>4, QueueFacts
  <2>1. phase' = "fire" /\ wait' = 0 /\ last' = now /\ scan' = scan
    BY <1>4, <2>0 DEF Prepare
  <2>2. TypeOK'
    BY <1>1, <2>1 DEF TypeOK, Prepare, Phases
  <2>3. QED
    BY <1>1, <1>2, <2>1, <2>2
       DEF IInv, PhaseOK, ScanOK, WaitMeetsMaxima, Prepare
<1>5. CASE queue # <<>> /\ timer[Head(queue)].minLeft > 0
  <2>0. /\ Head(queue) = queue[1] /\ 1 \in 1..Len(queue) /\ Len(queue) \in Nat
        /\ timer[queue[1]].minLeft \in Int /\ timer[queue[1]].maxLeft \in Int
        /\ timer[queue[1]].minLeft <= timer[queue[1]].maxLeft
    BY <1>5, QueueFacts
  <2>1. /\ phase' = "scan" /\ wait' = timer[queue[1]].maxLeft
        /\ last' = now /\ scan' = 1
    BY <1>5, <2>0 DEF Prepare
  <2>2. TypeOK'
    BY <1>1, <2>0, <2>1 DEF TypeOK, Prepare, Phases
  <2>3. wait' \in Nat
    BY <1>5, <2>0, <2>1
  <2>4. \A i \in 1..Len(queue) : timer[queue[i]].minLeft > 0
    BY SMTT(30), <1>1, <1>5, <2>0, QueueFacts DEF Sorted, SortedBy
  <2>5. queue' = queue /\ timer' = timer /\ elapsed' = elapsed /\ cur' = cur
    BY DEF Prepare
  <2>6. ScanOK'
    BY <2>0, <2>1, <2>4, <2>5 DEF ScanOK
  <2>7. PhaseOK' /\ WaitMeetsMaxima'
    BY <1>1, <1>5, <2>1, <2>3, <2>5 DEF PhaseOK, WaitMeetsMaxima
  <2>8. QED
    BY <1>2, <2>2, <2>6, <2>7 DEF IInv
<1>6. QED
  BY <1>3, <1>4, <1>5 DEF Prepare

LEMMA ScanInv == ASSUME IInv, Scan PROVE IInv'
<1>1. /\ TypeOK /\ PhaseOK /\ ScanOK /\ Sorted /\ phase = "scan"
      /\ UNCHANGED <<queue, timer, cur, now, last, elapsed, age>>
  BY DEF IInv, ListInv, Scan
<1>2. ListInv'
  BY <1>1, ListUnchanged
<1>3. /\ scan \in 1..Len(queue) + 1 /\ wait \in Nat /\ queue # <<>> /\ elapsed = 0
      /\ \A i \in 1..scan - 1 : wait <= timer[queue[i]].maxLeft
      /\ \E i \in 1..Len(queue) : wait = timer[queue[i]].maxLeft
      /\ \A i \in 1..Len(queue) : timer[queue[i]].minLeft > 0
  BY <1>1 DEF ScanOK, PhaseOK
<1>4. CASE ScanEnds
  <2>1. phase' = "poll" /\ scan' = 0 /\ wait' = wait
    BY <1>4 DEF Scan
  <2>2. TypeOK'
    BY <1>1, <2>1 DEF TypeOK, Phases
  <2>3. \A i \in 1..Len(queue) : wait <= timer[queue[i]].maxLeft
    <3>1. SUFFICES ASSUME NEW i \in 1..Len(queue), i >= scan
          PROVE  wait <= timer[queue[i]].maxLeft
      BY <1>3, QueueFacts
    <3>2. scan \in 1..Len(queue) /\ timer[queue[scan]].minLeft >= wait
      BY <1>3, <1>4, <3>1, QueueFacts DEF ScanEnds
    <3>3. timer[queue[scan]].minLeft <= timer[queue[i]].minLeft
      BY <1>1, <3>1, <3>2, QueueFacts DEF Sorted, SortedBy
    <3>4. /\ timer[queue[i]].minLeft \in Int /\ timer[queue[i]].maxLeft \in Int
          /\ timer[queue[i]].minLeft <= timer[queue[i]].maxLeft
          /\ timer[queue[scan]].minLeft \in Int
      BY <3>2, QueueFacts
    <3>5. QED
      BY SMTT(30), <1>3, <3>2, <3>3, <3>4
  <2>4. WaitMeetsMaxima'
    <3>1. \A t \in Range(queue) : wait <= timer[t].maxLeft
      BY <2>3, QueueFacts
    <3>2. \E t \in Range(queue) : timer[t].minLeft <= wait
      BY <1>3, QueueFacts
    <3>3. QED
      BY <1>1, <2>1, <3>1, <3>2 DEF WaitMeetsMaxima
  <2>5. PhaseOK' /\ ScanOK'
    BY <1>1, <1>3, <2>1 DEF PhaseOK, ScanOK
  <2>6. QED
    BY <1>2, <2>2, <2>4, <2>5 DEF IInv
<1>5. CASE ~ ScanEnds
  <2> DEFINE left == timer[queue[scan]].maxLeft
  <2>1. /\ scan \in 1..Len(queue) /\ Len(queue) \in Nat
        /\ left \in Int /\ left > 0
    BY <1>3, <1>5, QueueFacts DEF ScanEnds
  <2>2. /\ wait' = IF left < wait THEN left ELSE wait
        /\ scan' = scan + 1 /\ phase' = phase
    BY <1>5 DEF Scan
  <2> HIDE DEF left
  <2>3. wait' \in Nat /\ wait' <= wait /\ wait' <= left
    BY <1>3, <2>1, <2>2
  <2>4. TypeOK'
    BY <1>1, <2>1, <2>2, <2>3 DEF TypeOK
  <2>5. \A i \in 1..scan' - 1 : wait' <= timer[queue[i]].maxLeft
    <3>1. SUFFICES ASSUME NEW i \in 1..scan
          PROVE  wait' <= timer[queue[i]].maxLeft
      BY <2>1, <2>2
    <3>2. CASE i = scan
      BY <2>3, <3>2 DEF left
    <3>3. CASE i < scan
      <4>1. i \in 1..scan - 1 /\ i \in 1..Len(queue)
        BY <2>1, <3>3
      <4>2. QED
        BY SMTT(30), <1>3, <2>3, <4>1, QueueFacts
    <3>4. QED
      BY <2>1, <3>2, <3>3
  <2>6. \E i \in 1..Len(queue) : wait' = timer[queue[i]].maxLeft
    BY <1>3, <2>1, <2>2 DEF left
  <2>7. ScanOK'
    BY <1>1, <1>3, <2>1, <2>2, <2>5, <2>6 DEF ScanOK
  <2>8. PhaseOK' /\ WaitMeetsMaxima'
    BY <1>1, <1>3, <2>2, <2>3 DEF PhaseOK, WaitMeetsMaxima
  <2>9. QED
    BY <1>2, <2>4, <2>7, <2>8 DEF IInv
<1>6. QED
  BY <1>4, <1>5

\* Real time d passes: ages grow, up to the bound.
LEMMA OlderAges ==
    ASSUME IInv, NEW d \in Nat
    PROVE  /\ Older(d) \in [Timers -> 0..MaxAge]
           /\ \A t \in Range(queue) :
                 \/ Older(d)[t] >= timer[t].minTime
                 \/ Older(d)[t] >= age[t] + d
<1>1. /\ age \in [Timers -> 0..MaxAge] /\ MaxAge \in Nat
      /\ timer \in [Timers -> TimerRecord]
      /\ \A t \in Timers : timer[t].minTime <= MaxAge
  BY TimersAssumption DEF IInv, TypeOK, ListInv, TimesOK
<1>2. \A t \in Timers : age[t] \in 0..MaxAge
  BY <1>1
<1>3. Older(d) \in [Timers -> 0..MaxAge]
  BY <1>1, <1>2 DEF Older
<1>4. ASSUME NEW t \in Range(queue)
      PROVE  Older(d)[t] >= timer[t].minTime \/ Older(d)[t] >= age[t] + d
  <2>1. t \in Timers
    BY QueueFacts
  <2>2. Older(d)[t] = IF age[t] + d <= MaxAge THEN age[t] + d ELSE MaxAge
    BY <2>1 DEF Older
  <2>3. QED
    BY <1>1, <1>2, <2>1, <2>2
<1>5. QED
  BY <1>3, <1>4

LEMMA PollInv == ASSUME IInv, Poll PROVE IInv'
<1>1. /\ TypeOK /\ ListInv /\ PhaseOK /\ phase = "poll" /\ phase' = "check"
      /\ UNCHANGED <<queue, timer, cur, scan, wait, last>>
  BY DEF IInv, Poll
<1>2. wait \in Nat /\ elapsed = 0 /\ queue # <<>>
  BY <1>1 DEF PhaseOK
<1>3. PICK d \in 0..wait + MaxOverrun :
         elapsed' = d /\ now' = (now + d) % TicksPerSecond /\ age' = Older(d)
  BY DEF Poll
<1>4. d \in Nat
  BY <1>2, TimersAssumption
<1>5. TypeOK'
  <2>1. now + d \in Nat /\ TicksPerSecond \in Nat \ {0}
    BY <1>1, <1>4, TimersAssumption DEF TypeOK
  <2>2. now' \in 0..TicksPerSecond - 1
    BY <1>3, <2>1
  <2>3. QED
    BY <1>1, <1>3, <1>4, <2>2, OlderAges DEF TypeOK, Phases
<1>6. NoDuplicates' /\ ActiveIffQueued' /\ Sorted' /\ TimesOK' /\ LeftOK'
  BY <1>1 DEF ListInv, NoDuplicates, ActiveIffQueued, Sorted, SortedBy, TimesOK, LeftOK
<1>7. AgeOK'
  <2>1. SUFFICES ASSUME NEW t \in Range(queue)
        PROVE  \/ age'[t] >= timer[t].minTime
               \/ age'[t] + timer[t].minLeft >= timer[t].minTime + d
    BY <1>1, <1>3 DEF AgeOK
  <2>2. /\ t \in Timers /\ timer[t].minTime \in Nat /\ timer[t].minLeft \in Int
        /\ age[t] \in Nat /\ age'[t] \in Nat
    BY <1>1, <1>5, QueueFacts DEF TypeOK, TimerRecord
  <2>3. age[t] >= timer[t].minTime \/ age[t] + timer[t].minLeft >= timer[t].minTime
    BY <1>1, <1>2, <2>2 DEF ListInv, AgeOK
  <2>4. age'[t] >= timer[t].minTime \/ age'[t] >= age[t] + d
    BY <1>3, <1>4, OlderAges
  <2>5. QED
    BY <1>4, <2>2, <2>3, <2>4
<1>8. PhaseOK' /\ ScanOK' /\ WaitMeetsMaxima'
  BY <1>1, <1>2 DEF PhaseOK, ScanOK, WaitMeetsMaxima
<1>9. QED
  BY <1>5, <1>6, <1>7, <1>8 DEF IInv, ListInv

LEMMA WorkInv == ASSUME IInv, Work PROVE IInv'
<1>1. /\ TypeOK /\ ListInv /\ PhaseOK /\ phase \in {"events", "callback"}
      /\ UNCHANGED <<queue, timer, phase, cur, scan, wait, last, elapsed>>
  BY DEF IInv, Work
<1>2. elapsed = 0
  BY <1>1 DEF PhaseOK
<1>3. PICK d \in 1..MaxStep : now' = (now + d) % TicksPerSecond /\ age' = Older(d)
  BY DEF Work
<1>4. d \in Nat
  BY TimersAssumption
<1>5. TypeOK'
  <2>1. now + d \in Nat /\ TicksPerSecond \in Nat \ {0}
    BY <1>1, <1>4, TimersAssumption DEF TypeOK
  <2>2. now' \in 0..TicksPerSecond - 1
    BY <1>3, <2>1
  <2>3. QED
    BY <1>1, <1>3, <1>4, <2>2, OlderAges DEF TypeOK, Phases
<1>6. NoDuplicates' /\ ActiveIffQueued' /\ Sorted' /\ TimesOK' /\ LeftOK'
  BY <1>1 DEF ListInv, NoDuplicates, ActiveIffQueued, Sorted, SortedBy, TimesOK, LeftOK
<1>7. AgeOK'
  <2>1. SUFFICES ASSUME NEW t \in Range(queue)
        PROVE  \/ age'[t] >= timer[t].minTime
               \/ age'[t] + timer[t].minLeft >= timer[t].minTime
    BY <1>1, <1>2, QueueFacts DEF AgeOK, TypeOK, TimerRecord
  <2>2. /\ t \in Timers /\ timer[t].minTime \in Nat /\ timer[t].minLeft \in Int
        /\ age[t] \in Nat /\ age'[t] \in Nat
    BY <1>1, <1>5, QueueFacts DEF TypeOK, TimerRecord
  <2>3. age[t] >= timer[t].minTime \/ age[t] + timer[t].minLeft >= timer[t].minTime
    BY <1>1, <1>2, <2>2 DEF ListInv, AgeOK
  <2>4. age'[t] >= timer[t].minTime \/ age'[t] >= age[t] + d
    BY <1>3, <1>4, OlderAges
  <2>5. QED
    BY <1>4, <2>2, <2>3, <2>4
<1>8. PhaseOK' /\ ScanOK' /\ WaitMeetsMaxima'
  BY <1>1, <1>2 DEF PhaseOK, ScanOK, WaitMeetsMaxima
<1>9. QED
  BY <1>5, <1>6, <1>7, <1>8 DEF IInv, ListInv

LEMMA CheckInv == ASSUME IInv, Check PROVE IInv'
<1>1. /\ TypeOK /\ ListInv /\ PhaseOK /\ phase = "check" /\ queue # <<>>
      /\ elapsed' = 0 /\ wait' = 0
      /\ UNCHANGED <<queue, cur, scan, now, last, age>>
  BY DEF IInv, PhaseOK, Check
<1>2. phase' \in {"fire", "events"}
  BY DEF Check
<1>3. Charged \in Nat /\ Charged <= elapsed /\ elapsed \in Nat
  BY <1>1, ChargedBound DEF TypeOK
<1>4. \A t \in Timers :
         /\ timer'[t] = IF t \in Range(queue) THEN Charge(timer[t], Charged) ELSE timer[t]
         /\ timer[t] \in TimerRecord
  BY <1>1 DEF Check, TypeOK
<1>5. \A r \in TimerRecord, d \in Nat :
         /\ Charge(r, d) \in TimerRecord
         /\ Charge(r, d).active = r.active
         /\ Charge(r, d).minTime = r.minTime /\ Charge(r, d).maxTime = r.maxTime
         /\ Charge(r, d).minLeft = r.minLeft - d
         /\ Charge(r, d).maxLeft = r.maxLeft - d
  <2>1. SUFFICES ASSUME NEW r \in TimerRecord, NEW d \in Nat
        PROVE  /\ Charge(r, d) \in TimerRecord
               /\ Charge(r, d).active = r.active
               /\ Charge(r, d).minTime = r.minTime /\ Charge(r, d).maxTime = r.maxTime
               /\ Charge(r, d).minLeft = r.minLeft - d
               /\ Charge(r, d).maxLeft = r.maxLeft - d
    OBVIOUS
  <2> DEFINE x == r.minLeft - d
             y == r.maxLeft - d
  <2>2. x \in Int /\ y \in Int
    BY DEF TimerRecord
  <2>3. Charge(r, d) = [r EXCEPT !.minLeft = x, !.maxLeft = y]
    BY DEF Charge, TimerRecord
  <2> HIDE DEF x, y
  <2>4. Charge(r, d) \in TimerRecord
    BY <2>2, <2>3 DEF TimerRecord
  <2>5. /\ Charge(r, d).active = r.active
        /\ Charge(r, d).minTime = r.minTime /\ Charge(r, d).maxTime = r.maxTime
        /\ Charge(r, d).minLeft = x /\ Charge(r, d).maxLeft = y
    BY <2>2, <2>3 DEF TimerRecord
  <2>6. QED
    BY <2>4, <2>5 DEF x, y
<1>6. \A t \in Timers :
         /\ timer'[t] \in TimerRecord
         /\ timer'[t].active = timer[t].active
         /\ timer'[t].minTime = timer[t].minTime
         /\ timer'[t].maxTime = timer[t].maxTime
  BY <1>3, <1>4, <1>5
<1>7. \A t \in Range(queue) :
         /\ t \in Timers
         /\ timer'[t].minLeft = timer[t].minLeft - Charged
         /\ timer'[t].maxLeft = timer[t].maxLeft - Charged
  <2>1. ASSUME NEW t \in Range(queue)
        PROVE  t \in Timers /\ timer'[t] = Charge(timer[t], Charged)
    BY <1>4, <2>1, QueueFacts
  <2>2. QED
    BY <1>3, <1>4, <1>5, <2>1
<1>8. TypeOK'
  <2>1. timer' \in [Timers -> TimerRecord]
    BY <1>6 DEF Check
  <2>2. QED
    BY <1>1, <1>2, <2>1 DEF TypeOK, Phases
<1>9. NoDuplicates' /\ ActiveIffQueued' /\ TimesOK'
  BY <1>1, <1>6 DEF ListInv, NoDuplicates, ActiveIffQueued, TimesOK
<1>10. Sorted'
  <2>1. SUFFICES ASSUME NEW i \in 1..Len(queue), NEW j \in 1..Len(queue), i < j
        PROVE  timer'[queue[i]].minLeft <= timer'[queue[j]].minLeft
    BY <1>1 DEF Sorted, SortedBy
  <2>2. timer[queue[i]].minLeft <= timer[queue[j]].minLeft
    BY <1>1, <2>1 DEF ListInv, Sorted, SortedBy
  <2>3. /\ queue[i] \in Range(queue) /\ timer[queue[i]].minLeft \in Int
        /\ queue[j] \in Range(queue) /\ timer[queue[j]].minLeft \in Int
    BY <2>1, QueueFacts
  <2>4. /\ timer'[queue[i]].minLeft = timer[queue[i]].minLeft - Charged
        /\ timer'[queue[j]].minLeft = timer[queue[j]].minLeft - Charged
    BY <1>7, <2>3
  <2>5. QED
    BY <1>3, <2>2, <2>3, <2>4
<1>11. LeftOK'
  <2>1. SUFFICES ASSUME NEW t \in Range(queue)
        PROVE  timer'[t].minLeft <= timer'[t].maxLeft
    BY <1>1 DEF LeftOK
  <2>2. /\ timer[t].minLeft \in Int /\ timer[t].maxLeft \in Int
        /\ timer[t].minLeft <= timer[t].maxLeft
    BY QueueFacts
  <2>3. QED
    BY <1>3, <1>7, <2>2
<1>12. AgeOK'
  <2>1. SUFFICES ASSUME NEW t \in Range(queue)
        PROVE  \/ age[t] >= timer'[t].minTime
               \/ age[t] + timer'[t].minLeft >= timer'[t].minTime + 0
    BY <1>1 DEF AgeOK
  <2>2. /\ t \in Timers /\ timer[t].minTime \in Nat /\ timer[t].minLeft \in Int
        /\ age[t] \in Nat
    BY <1>1, QueueFacts DEF TypeOK, TimerRecord
  <2>3. \/ age[t] >= timer[t].minTime
        \/ age[t] + timer[t].minLeft >= timer[t].minTime + elapsed
    BY <1>1 DEF ListInv, AgeOK
  <2>4. QED
    BY <1>3, <1>6, <1>7, <2>2, <2>3
<1>13. PhaseOK' /\ ScanOK' /\ WaitMeetsMaxima'
  BY <1>1, <1>2 DEF PhaseOK, ScanOK, WaitMeetsMaxima
<1>14. QED
  BY <1>8, <1>9, <1>10, <1>11, <1>12, <1>13 DEF IInv, ListInv

\* Taking the front off the list.
LEMMA TailList ==
    ASSUME IInv, queue # <<>>
    PROVE  /\ Head(queue) \in Timers /\ Head(queue) \in Range(queue)
           /\ Tail(queue) \in Seq(Timers)
           /\ IsInjective(Tail(queue))
           /\ Range(Tail(queue)) = Range(queue) \ {Head(queue)}
           /\ SortedBy(Tail(queue), timer)
<1> DEFINE s == Tail(queue)
<1>1. /\ s \in Seq(Timers) /\ Len(s) = Len(queue) - 1
      /\ \A i \in 1..Len(s) : s[i] = queue[i + 1]
  BY QueueFacts, HeadTailProperties
<1>2. DOMAIN s = 1..Len(queue) - 1
  BY <1>1, LenProperties
<1>3. /\ Len(queue) \in Nat /\ Head(queue) = queue[1] /\ 1 \in 1..Len(queue)
      /\ DOMAIN queue = 1..Len(queue)
      /\ Head(queue) \in Range(queue) /\ Head(queue) \in Timers
  BY QueueFacts
<1> HIDE DEF s
<1>4. \A i, j \in 1..Len(queue) : queue[i] = queue[j] => i = j
  BY <1>3 DEF IInv, ListInv, NoDuplicates, IsInjective
<1>5. IsInjective(s)
  BY <1>1, <1>2, <1>3, <1>4 DEF IsInjective
<1>6. Range(s) = Range(queue) \ {Head(queue)}
  <2>1. \A x : x \in Range(s) <=> \E i \in 1..Len(queue) - 1 : x = queue[i + 1]
    BY <1>1, <1>2, <1>3 DEF Range
  <2>2. \A x : x \in Range(queue) <=> \E i \in 1..Len(queue) : x = queue[i]
    BY <1>3 DEF Range
  <2>3. ASSUME NEW i \in 1..Len(queue), queue[i] # queue[1]
        PROVE  i - 1 \in 1..Len(queue) - 1 /\ queue[(i - 1) + 1] = queue[i]
    BY <1>3, <2>3
  <2>4. \A i \in 1..Len(queue) - 1 : i + 1 \in 1..Len(queue) /\ queue[i + 1] # queue[1]
    BY <1>3, <1>4
  <2>5. QED
    BY <1>3, <2>1, <2>2, <2>3, <2>4
<1>7. SortedBy(s, timer)
  <2>1. SUFFICES ASSUME NEW i \in 1..Len(s), NEW j \in 1..Len(s), i < j
        PROVE  timer[s[i]].minLeft <= timer[s[j]].minLeft
    BY DEF SortedBy
  <2>2. /\ i + 1 \in 1..Len(queue) /\ j + 1 \in 1..Len(queue) /\ i + 1 < j + 1
        /\ s[i] = queue[i + 1] /\ s[j] = queue[j + 1]
    BY <1>1, <1>3, <2>1
  <2>3. QED
    BY <2>2 DEF IInv, ListInv, Sorted, SortedBy
<1>8. QED
  BY <1>1, <1>3, <1>5, <1>6, <1>7 DEF s

LEMMA FireInv == ASSUME IInv, Fire PROVE IInv'
<1>1. /\ TypeOK /\ ListInv /\ PhaseOK /\ phase = "fire" /\ elapsed = 0
      /\ UNCHANGED <<scan, now, last, elapsed>>
  BY DEF IInv, Fire, PhaseOK
<1>2. CASE queue # <<>> /\ timer[Head(queue)].minLeft <= 0
  <2> DEFINE h == Head(queue)
             r == [timer[h] EXCEPT !.active = FALSE]
  <2>1. /\ queue' = Tail(queue) /\ timer' = [timer EXCEPT ![h] = r]
        /\ age' = [age EXCEPT ![h] = 0]
        /\ cur' = h /\ phase' = "callback" /\ wait' = wait
    BY <1>2 DEF Fire
  <2>2. /\ h \in Timers /\ h \in Range(queue)
        /\ queue' \in Seq(Timers) /\ IsInjective(queue')
        /\ Range(queue') = Range(queue) \ {h}
        /\ SortedBy(queue', timer)
    BY <1>2, <2>1, TailList
  <2>3. /\ r \in TimerRecord /\ ~ r.active
        /\ r.minTime = timer[h].minTime /\ r.maxTime = timer[h].maxTime
    BY <1>1, <2>2 DEF TypeOK, TimerRecord
  <2> HIDE DEF h, r
  <2>4. TypeOK'
    BY <1>1, <2>1, <2>2, <2>3, TimersAssumption DEF TypeOK, Phases
  <2>5. \A u \in Range(queue') :
           u \in Range(queue) /\ timer'[u] = timer[u] /\ age'[u] = age[u]
    BY <1>1, <2>1, <2>2, QueueFacts DEF TypeOK
  <2>6. \A i \in 1..Len(queue') : queue'[i] \in Range(queue')
    BY <2>2, LenProperties DEF Range
  <2>7. NoDuplicates' /\ Sorted'
    BY <2>2, <2>5, <2>6 DEF NoDuplicates, Sorted, SortedBy
  <2>8. ActiveIffQueued' /\ TimesOK'
    BY <1>1, <2>1, <2>2, <2>3 DEF ActiveIffQueued, TimesOK, ListInv, TypeOK
  <2>9. LeftOK' /\ AgeOK'
    BY <1>1, <2>5 DEF LeftOK, AgeOK, ListInv
  <2>10. PhaseOK' /\ ScanOK' /\ WaitMeetsMaxima'
    BY <1>1, <2>1, <2>2 DEF PhaseOK, ScanOK, WaitMeetsMaxima
  <2>11. QED
    BY <2>4, <2>7, <2>8, <2>9, <2>10 DEF IInv, ListInv
<1>3. CASE ~ (queue # <<>> /\ timer[Head(queue)].minLeft <= 0)
  <2>1. phase' = "prepare" /\ wait' = 0 /\ UNCHANGED <<queue, timer, age, cur>>
    BY <1>3 DEF Fire
  <2>2. TypeOK'
    BY <1>1, <2>1 DEF TypeOK, Phases
  <2>3. ListInv'
    BY <1>1, <2>1, ListUnchanged
  <2>4. PhaseOK' /\ ScanOK' /\ WaitMeetsMaxima'
    BY <1>1, <2>1 DEF PhaseOK, ScanOK, WaitMeetsMaxima
  <2>5. QED
    BY <2>2, <2>3, <2>4 DEF IInv
<1>4. QED
  BY <1>2, <1>3

LEMMA ReturnInv == ASSUME IInv, Return PROVE IInv'
<1>1. /\ TypeOK /\ ListInv /\ PhaseOK /\ phase = "callback" /\ elapsed = 0
      /\ cur \in Timers /\ cur' = NoTimer /\ phase' = "fire"
      /\ UNCHANGED <<scan, wait, now, last, elapsed, age>>
  BY DEF IInv, Return, PhaseOK
<1>2. PhaseOK' /\ ScanOK' /\ WaitMeetsMaxima'
  BY <1>1 DEF PhaseOK, ScanOK, WaitMeetsMaxima
<1>3. CASE UNCHANGED <<queue, timer>>
  <2>1. TypeOK'
    BY <1>1, <1>3 DEF TypeOK, Phases
  <2>2. ListInv'
    BY <1>1, <1>3, ListUnchanged
  <2>3. QED
    BY <1>2, <2>1, <2>2 DEF IInv
<1> DEFINE n == [IF cur \in Range(queue) THEN timer[cur] ELSE Reloaded(timer[cur])
                    EXCEPT !.active = TRUE]
<1>4. CASE /\ queue' = AddTimer(queue, timer, cur, timer[cur].minTime)
           /\ timer' = [timer EXCEPT ![cur] = n]
  <2>1. timer[cur] \in TimerRecord
    BY <1>1 DEF TypeOK
  <2>2. CASE cur \in Range(queue)
    <3>1. queue' = queue
      BY <1>4, <2>2 DEF AddTimer
    <3>2. timer[cur].active = TRUE
      BY <1>1, <2>1, <2>2 DEF ListInv, ActiveIffQueued, TimerRecord
    <3>3. n = timer[cur]
      BY <2>1, <2>2, <3>2 DEF TimerRecord
    <3>4. timer' = timer
      BY <1>1, <1>4, <3>3 DEF TypeOK
    <3>5. QED
      BY <1>3, <3>1, <3>4
  <2>3. CASE cur \notin Range(queue)
    <3> DEFINE r == timer[cur]
    <3>1. n = Reloaded([r EXCEPT !.active = TRUE])
      BY <2>1, <2>3 DEF Reloaded, TimerRecord
    <3>2. /\ n \in TimerRecord /\ n.active
          /\ n.minTime = r.minTime /\ n.maxTime = r.maxTime
          /\ n.minLeft = r.minTime /\ n.maxLeft = r.maxTime
          /\ r.minTime \in Nat
      BY <2>1, <3>1, ReloadedRecord DEF TimerRecord
    <3> HIDE DEF n
    <3>3. timer'[cur] = n /\ \A u \in Range(queue) : u # cur /\ timer'[u] = timer[u]
      BY <1>1, <1>4, <2>3, QueueFacts DEF TypeOK
    <3>4. /\ queue \in Seq(Timers) /\ IsInjective(queue) /\ SortedBy(queue, timer)
      BY <1>1 DEF TypeOK, ListInv, NoDuplicates, Sorted
    <3>5. \A u \in Range(queue) :
             timer[u].minLeft \in Int /\ timer'[u].minLeft = timer[u].minLeft
      BY <1>1, <3>3, QueueFacts DEF TypeOK, TimerRecord
    <3>6. r.minTime \in Int /\ timer'[cur].minLeft = r.minTime
      BY <3>2, <3>3
    <3>7. /\ queue' \in Seq(Timers)
          /\ IsInjective(queue')
          /\ Range(queue') = Range(queue) \cup {cur}
          /\ SortedBy(queue', timer')
      <4>1. cur \in Timers /\ cur \notin Range(queue)
        BY <1>1, <2>3
      <4>2. \A min \in Int :
               timer'[cur].minLeft = min =>
                  /\ AddTimer(queue, timer, cur, min) \in Seq(Timers)
                  /\ IsInjective(AddTimer(queue, timer, cur, min))
                  /\ Range(AddTimer(queue, timer, cur, min)) = Range(queue) \cup {cur}
                  /\ SortedBy(AddTimer(queue, timer, cur, min), timer')
        BY <3>4, <3>5, <4>1, AddTimerList
      <4>3. QED
        BY <1>4, <3>6, <4>2
    <3>8. TypeOK'
      BY <1>1, <1>4, <3>2, <3>7 DEF TypeOK, Phases
    <3>9. NoDuplicates' /\ Sorted'
      BY <3>7 DEF NoDuplicates, Sorted
    <3>10. ActiveIffQueued' /\ TimesOK'
      BY <1>1, <1>4, <3>2, <3>7 DEF ActiveIffQueued, TimesOK, ListInv, TypeOK
    <3>11. LeftOK'
      BY <1>1, <3>2, <3>3, <3>7 DEF LeftOK, ListInv, TimesOK
    <3>12. AgeOK'
      <4>1. age'[cur] \in Nat /\ age'[cur] + timer'[cur].minLeft >= timer'[cur].minTime
        BY <1>1, <3>2, <3>3 DEF TypeOK
      <4>2. QED
        BY <1>1, <3>2, <3>3, <3>7, <4>1 DEF AgeOK, ListInv
    <3>13. QED
      BY <1>2, <3>8, <3>9, <3>10, <3>11, <3>12 DEF IInv, ListInv
  <2>4. QED
    BY <2>2, <2>3
<1>5. QED
  BY <1>3, <1>4 DEF Return

LEMMA InitInv == ASSUME Init PROVE IInv
<1> DEFINE p == PersistentTimer
<1>1. /\ p \in TimerRecord /\ p.active
      /\ p.minTime <= p.maxTime /\ p.minTime <= MaxAge
      /\ p.minLeft = p.minTime /\ p.maxLeft = p.maxTime
  <2> DEFINE b == [NewTimer EXCEPT !.active = TRUE, !.hasCb = TRUE]
             w == WithTimes(b, PingInterval)
  <2>1. b \in TimerRecord /\ b.active = TRUE
    <3>1. NewTimer \in TimerRecord
      BY DEF NewTimer, TimerRecord
    <3>2. QED
      BY <3>1 DEF TimerRecord
  <2> HIDE DEF b
  <2>2. /\ w \in TimerRecord /\ w.active = TRUE
        /\ w.minTime <= w.maxTime /\ w.minTime <= MaxAge
    BY <2>1, WithTimesRecord
  <2>3. p = Reloaded(w)
    BY DEF PersistentTimer, b
  <2> HIDE DEF w, p
  <2>4. [w EXCEPT !.active = TRUE] = w
    BY <2>2 DEF TimerRecord
  <2>5. QED
    BY <2>2, <2>3, <2>4, ReloadedRecord
<1>2. /\ NewTimer \in TimerRecord /\ ~ NewTimer.active
      /\ NewTimer.minTime <= NewTimer.maxTime /\ NewTimer.minTime <= MaxAge
  BY TimersAssumption DEF NewTimer, TimerRecord
<1> HIDE DEF p
<1>3. /\ queue = Startup /\ queue \in Seq(Timers) /\ IsInjective(queue)
      /\ Range(queue) = Persistent
      /\ timer = [t \in Timers |-> IF t \in Persistent THEN p ELSE NewTimer]
      /\ phase = "events" /\ elapsed = 0 /\ age = [t \in Timers |-> 0]
  BY TimersAssumption DEF Init, Persistent, p
<1>4. \A t \in Range(queue) : t \in Timers /\ timer[t] = p
  BY <1>3, RangeOfSeq
<1>5. \A i \in 1..Len(queue) : queue[i] \in Range(queue)
  BY <1>3, LenProperties DEF Range
<1>6. TypeOK
  BY <1>1, <1>2, <1>3, TimersAssumption DEF TypeOK, Init, Phases
<1>7. NoDuplicates /\ ActiveIffQueued /\ TimesOK
  BY <1>1, <1>2, <1>3 DEF NoDuplicates, ActiveIffQueued, TimesOK
<1>8. Sorted
  BY <1>1, <1>3, <1>4, <1>5 DEF Sorted, SortedBy, TimerRecord
<1>9. LeftOK
  BY <1>1, <1>4 DEF LeftOK, TimerRecord
<1>10. AgeOK
  BY <1>1, <1>3, <1>4 DEF AgeOK, TimerRecord
<1>11. PhaseOK /\ ScanOK /\ WaitMeetsMaxima
  BY <1>3 DEF PhaseOK, ScanOK, WaitMeetsMaxima
<1>12. QED
  BY <1>6, <1>7, <1>8, <1>9, <1>10, <1>11 DEF IInv, ListInv

LEMMA NextInv == ASSUME IInv, [Next]_vars PROVE IInv'
<1>1. CASE Call
  BY <1>1, CallInv
<1>2. CASE Prepare
  BY <1>2, PrepareInv
<1>3. CASE Scan
  BY <1>3, ScanInv
<1>4. CASE Poll
  BY <1>4, PollInv
<1>5. CASE Check
  BY <1>5, CheckInv
<1>6. CASE Fire
  BY <1>6, FireInv
<1>7. CASE Return
  BY <1>7, ReturnInv
<1>8. CASE EventsDone
  <2>1. ListInv'
    BY <1>8, ListUnchanged DEF EventsDone
  <2>2. QED
    BY <1>8, <2>1
       DEF EventsDone, IInv, TypeOK, Phases, PhaseOK, ScanOK, WaitMeetsMaxima
<1>9. CASE Work
  BY <1>9, WorkInv
<1>10. CASE UNCHANGED vars
  <2>1. ListInv'
    BY <1>10, ListUnchanged DEF vars
  <2>2. QED
    BY <1>10, <2>1
       DEF vars, IInv, TypeOK, PhaseOK, ScanOK, ScanEnds, WaitMeetsMaxima
<1>11. QED
  BY <1>1, <1>2, <1>3, <1>4, <1>5, <1>6, <1>7, <1>8, <1>9, <1>10 DEF Next, Loop

-----------------------------------------------------------------------------
(* The theorems.                                                           *)

\* The inductive invariant holds in every reachable state.
THEOREM Inductive == Spec => []IInv
<1>1. Init => IInv
  BY InitInv
<1>2. IInv /\ [Next]_vars => IInv'
  BY NextInv
<1>3. QED
  BY <1>1, <1>2, PTL DEF Spec

\* CompTimer and CompTimeoutSource keep every field within its type.
THEOREM TypeCorrect == Spec => []TypeOK
<1>1. IInv => TypeOK
  BY DEF IInv
<1>2. QED
  BY <1>1, Inductive, PTL

\* However callbacks and handlers start, stop, change and delete timers, the
\* list of the screen holds each active timer once, no other, in the order of
\* the time left; check never takes the front of an empty list.
THEOREM ListCorrect == Spec => []ListAgrees
<1>1. IInv => ListAgrees
  BY DEF IInv, ListInv, PhaseOK, CheckHasTimer, ListAgrees
<1>2. QED
  BY <1>1, Inductive, PTL

\* The loop of prepare computes a wait that overshoots no queued timer's
\* maximum and ends no sooner than some timer's minimum.
THEOREM WaitCorrect == Spec => []WaitMeetsMaxima
<1>1. IInv => WaitMeetsMaxima
  BY DEF IInv
<1>2. QED
  BY <1>1, Inductive, PTL

\* No callback runs before its minimum time has really passed, although
\* TIMESPECDIFF measures that time wrongly across seconds.
THEOREM NeverEarlyHolds == Spec => NeverEarly
<1>1. IInv /\ [Next]_vars
        => [phase = "fire" /\ phase' = "callback" => age[cur'] >= timer[cur'].minTime]_vars
  <2>1. SUFFICES ASSUME IInv, Fire, phase' = "callback"
        PROVE  age[cur'] >= timer[cur'].minTime
    BY DEF Next, Call, SetCallback, Start, Stop, Destroy, SetTimes, StartCallback, loop,
           Loop, Prepare, Scan, Poll, Check, Return, EventsDone, Work, vars
  <2>2. /\ queue # <<>> /\ cur' = Head(queue) /\ timer[cur'].minLeft <= 0
        /\ phase = "fire"
    BY <2>1 DEF Fire
  <2>3. cur' \in Range(queue) /\ cur' \in Timers
    BY <2>1, <2>2, TailList
  <2>4. \/ age[cur'] >= timer[cur'].minTime
        \/ age[cur'] + timer[cur'].minLeft >= timer[cur'].minTime + 0
    BY <2>1, <2>2, <2>3 DEF IInv, ListInv, AgeOK, PhaseOK
  <2>5. /\ age[cur'] \in Nat /\ timer[cur'].minLeft \in Int
        /\ timer[cur'].minTime \in Nat
    BY <2>1, <2>3 DEF IInv, TypeOK, TimerRecord
  <2>6. QED
    BY <2>2, <2>4, <2>5
<1>2. QED
  BY <1>1, Inductive, PTL DEF Spec, NeverEarly

\* When the source's dispatch ends, no timer in the list is due.
THEOREM AllDueFiredHolds == Spec => AllDueFired
<1>1. IInv /\ [Next]_vars
        => [phase = "fire" /\ phase' = "prepare" =>
              \A t \in Range(queue) : timer[t].minLeft > 0]_vars
  <2>1. SUFFICES ASSUME IInv, Fire, phase' = "prepare", NEW t \in Range(queue)
        PROVE  timer[t].minLeft > 0
    BY DEF Next, Call, SetCallback, Start, Stop, Destroy, SetTimes, StartCallback, loop,
           Loop, Prepare, Scan, Poll, Check, Return, EventsDone, Work, vars
  <2>2. PICK i \in 1..Len(queue) : t = queue[i]
    BY <2>1, QueueFacts
  <2>3. queue # <<>> /\ Len(queue) \in Nat /\ 1 \in 1..Len(queue) /\ Head(queue) = queue[1]
    BY <2>1, <2>2, QueueFacts
  <2>4. ~ (timer[queue[1]].minLeft <= 0)
    BY <2>1, <2>3 DEF Fire
  <2>5. timer[queue[1]].minLeft <= timer[t].minLeft
    BY <2>1, <2>2, <2>3, QueueFacts DEF IInv, ListInv, Sorted, SortedBy
  <2>6. timer[queue[1]].minLeft \in Int /\ timer[t].minLeft \in Int
    BY <2>1, <2>2, <2>3, QueueFacts
  <2>7. QED
    BY <2>4, <2>5, <2>6
<1>2. QED
  BY <1>1, Inductive, PTL DEF Spec, AllDueFired

-----------------------------------------------------------------------------
(* The promise of the interface: Timers implements TimerPromise.           *)

Asked == [t \in Timers |-> IF timer[t].active THEN timer[t].minTime ELSE -1]
Waited == [t \in Timers |-> IF timer[t].active THEN age[t] ELSE 0]
Running == IF phase = "callback" THEN cur ELSE NoTimer

\* What one timer's change of record means for the promise.
LEMMA OneChanges ==
    ASSUME TypeOK, NEW t \in Timers, NEW x \in TimerRecord,
           timer' = [timer EXCEPT ![t] = x], age' = [age EXCEPT ![t] = 0]
    PROVE  /\ Asked' = [Asked EXCEPT ![t] = IF x.active THEN x.minTime ELSE -1]
           /\ Waited' = [Waited EXCEPT ![t] = 0]
BY DEF TypeOK, Asked, Waited

\* An operation that leaves the timer idle ends its turn.
LEMMA EndStep ==
    ASSUME TypeOK, NEW t \in Timers, CanCall(t), UNCHANGED loop,
           NEW x \in TimerRecord, ~ x.active,
           timer' = [timer EXCEPT ![t] = x], age' = [age EXCEPT ![t] = 0]
    PROVE  P!End(t)
<1>1. Asked' = [Asked EXCEPT ![t] = -1] /\ Waited' = [Waited EXCEPT ![t] = 0]
  BY OneChanges
<1>2. Running' = Running
  BY DEF Running, loop
<1>3. QED
  BY <1>1, <1>2 DEF P!End, P!Off, CanCall, Asked, Waited, Running

\* One that starts it begins its turn.
LEMMA BeginStep ==
    ASSUME TypeOK, NEW t \in Timers, CanCall(t), UNCHANGED loop,
           NEW x \in TimerRecord, x.active, x.minTime <= MaxAge,
           timer' = [timer EXCEPT ![t] = x], age' = [age EXCEPT ![t] = 0]
    PROVE  P!Begin(t)
<1>1. Asked' = [Asked EXCEPT ![t] = x.minTime] /\ Waited' = [Waited EXCEPT ![t] = 0]
  BY OneChanges
<1>2. Running' = Running
  BY DEF Running, loop
<1>3. x.minTime \in 0..MaxAge
  BY TimersAssumption DEF TimerRecord
<1>4. QED
  BY <1>1, <1>2, <1>3 DEF P!Begin, P!Minima, CanCall, Asked, Waited, Running

\* start: the timer waits anew, or is idle for want of a callback.
LEMMA RestartStep ==
    ASSUME TypeOK, NEW t \in Timers, CanCall(t), UNCHANGED loop,
           NEW r \in TimerRecord, r.minTime <= MaxAge, Restart(t, r)
    PROVE  P!Begin(t) \/ P!End(t)
<1>1. CASE r.hasCb
  <2> DEFINE x == Reloaded([r EXCEPT !.active = TRUE])
  <2>1. x \in TimerRecord /\ x.active /\ x.minTime = r.minTime
    BY ReloadedRecord
  <2>2. timer' = [timer EXCEPT ![t] = x] /\ age' = [age EXCEPT ![t] = 0]
    BY <1>1 DEF Restart
  <2> HIDE DEF x
  <2>3. QED
    BY <2>1, <2>2, BeginStep
<1>2. CASE ~ r.hasCb
  <2> DEFINE x == [r EXCEPT !.active = FALSE]
  <2>1. x \in TimerRecord /\ ~ x.active
    BY DEF TimerRecord
  <2>2. timer' = [timer EXCEPT ![t] = x] /\ age' = [age EXCEPT ![t] = 0]
    BY <1>2 DEF Restart
  <2> HIDE DEF x
  <2>3. QED
    BY <2>1, <2>2, EndStep
<1>3. QED
  BY <1>1, <1>2

\* A setter of an idle timer is not seen.
LEMMA ChangeStep ==
    ASSUME TypeOK, NEW t \in Timers, CanCall(t), UNCHANGED loop,
           NEW r \in TimerRecord, r.minTime <= MaxAge, r.active = timer[t].active, Change(t, r)
    PROVE  P!Begin(t) \/ P!End(t) \/ UNCHANGED P!vars
<1>1. CASE timer[t].active
  BY <1>1, RestartStep DEF Change
<1>2. CASE ~ timer[t].active
  <2>1. timer' = [timer EXCEPT ![t] = r] /\ age' = age /\ ~ r.active
    BY <1>2 DEF Change, TypeOK, TimerRecord
  <2>2. Asked' = Asked /\ Waited' = Waited
    BY <1>2, <2>1 DEF TypeOK, Asked, Waited
  <2>3. Running' = Running
    BY DEF Running, loop
  <2>4. QED
    BY <2>2, <2>3 DEF P!vars, Asked, Waited, Running
<1>3. QED
  BY <1>1, <1>2

\* Every operation of CompTimer is a start, an end, or not seen.
LEMMA CallStep ==
    ASSUME IInv, Call
    PROVE  P!Next \/ UNCHANGED P!vars
<1>1. PICK t \in Timers :
         \/ SetCallback(t) \/ Start(t) \/ Stop(t) \/ Destroy(t)
         \/ \E iv \in Intervals : SetTimes(t, iv) \/ StartCallback(t, iv)
  BY DEF Call
<1>2. TypeOK /\ timer[t] \in TimerRecord /\ timer[t].minTime <= MaxAge
  BY DEF IInv, TypeOK, ListInv, TimesOK
<1>3. \A iv \in Intervals :
         /\ WithTimes(timer[t], iv) \in TimerRecord
         /\ WithTimes(timer[t], iv).minTime <= MaxAge
         /\ WithTimes(timer[t], iv).active = timer[t].active
  BY <1>2, WithTimesRecord
<1> DEFINE Seen == P!Begin(t) \/ P!End(t) \/ UNCHANGED P!vars
<1> SUFFICES Seen
  BY DEF P!Next
<1> HIDE DEF Seen
<1>4. CASE SetCallback(t)
  <2> DEFINE r == [timer[t] EXCEPT !.hasCb = TRUE]
  <2>1. r \in TimerRecord /\ r.active = timer[t].active /\ r.minTime <= MaxAge
    BY <1>2 DEF TimerRecord
  <2>2. CanCall(t) /\ UNCHANGED loop /\ Change(t, r)
    BY <1>4 DEF SetCallback
  <2> HIDE DEF r
  <2>3. QED
    BY <1>2, <2>1, <2>2, ChangeStep DEF Seen
<1>5. CASE Start(t)
  BY <1>2, <1>3, <1>5, RestartStep DEF Start, Seen
<1>6. CASE Stop(t)
  <2> DEFINE r == [timer[t] EXCEPT !.active = FALSE]
  <2>1. r \in TimerRecord /\ ~ r.active
    BY <1>2 DEF TimerRecord
  <2>2. CanCall(t) /\ UNCHANGED loop /\ Unlink(t, r)
    BY <1>6 DEF Stop
  <2> HIDE DEF r
  <2>3. QED
    BY <1>2, <2>1, <2>2, EndStep DEF Unlink, Seen
<1>7. CASE Destroy(t)
  <2>1. NewTimer \in TimerRecord /\ ~ NewTimer.active
    BY DEF NewTimer, TimerRecord
  <2>2. QED
    BY <1>2, <1>7, <2>1, EndStep DEF Destroy, Unlink, Seen
<1>8. ASSUME NEW iv \in Intervals, SetTimes(t, iv) PROVE Seen
  BY <1>2, <1>3, <1>8, ChangeStep DEF SetTimes, Seen
<1>9. ASSUME NEW iv \in Intervals, StartCallback(t, iv) PROVE Seen
  <2> DEFINE w == WithTimes(timer[t], iv)
             r == [w EXCEPT !.hasCb = TRUE]
  <2> HIDE DEF w
  <2>1. w \in TimerRecord /\ w.minTime <= MaxAge
    BY <1>3 DEF w
  <2>2. r \in TimerRecord /\ r.minTime <= MaxAge
    BY <2>1 DEF TimerRecord
  <2>3. CanCall(t) /\ UNCHANGED loop /\ Restart(t, r)
    BY <1>9 DEF StartCallback, w
  <2> HIDE DEF r
  <2>4. QED
    BY <1>2, <2>2, <2>3, RestartStep DEF Seen
<1>10. QED
  BY <1>1, <1>4, <1>5, <1>6, <1>7, <1>8, <1>9

\* The loop between two callbacks only looks at the timers, or charges them.
LEMMA QuietStep ==
    ASSUME IInv, Prepare \/ Scan \/ Check \/ EventsDone
    PROVE  UNCHANGED P!vars
<1>1. /\ age' = age /\ phase # "callback" /\ phase' # "callback"
      /\ timer \in [Timers -> TimerRecord]
  BY DEF Prepare, Scan, Check, EventsDone, IInv, TypeOK
<1>2. \A t \in Timers :
         timer'[t].active = timer[t].active /\ timer'[t].minTime = timer[t].minTime
  BY <1>1 DEF Prepare, Scan, Check, EventsDone, Charge, TimerRecord
<1>3. Asked' = Asked /\ Waited' = Waited /\ Running' = Running
  BY <1>1, <1>2 DEF Asked, Waited, Running
<1>4. QED
  BY <1>3 DEF P!vars, Asked, Waited, Running

\* The list holds the timers that wait for the abstract specification.
LEMMA AskedOff ==
    ASSUME IInv, NEW t \in Timers
    PROVE  /\ Asked[t] = -1 <=> ~ timer[t].active
           /\ timer[t].active <=> t \in Range(queue)
           /\ Asked[t] = IF timer[t].active THEN timer[t].minTime ELSE -1
           /\ Waited[t] = IF timer[t].active THEN age[t] ELSE 0
           /\ timer[t].minTime \in 0..MaxAge /\ age[t] \in 0..MaxAge
BY SMTT(30), TimersAssumption
   DEF IInv, TypeOK, TimerRecord, ListInv, TimesOK, ActiveIffQueued, Asked, Waited

\* Time passes for both in the same way, up to the bound of the count.
LEMMA TimeStep ==
    ASSUME IInv, NEW d \in Nat, age' = Older(d),
           UNCHANGED <<queue, timer, cur>>, Running' = Running
    PROVE  P!Wait
<1> DEFINE e == IF d <= MaxAge THEN d ELSE MaxAge
<1>1. e \in 0..MaxAge /\ MaxAge \in Nat
  BY TimersAssumption
<1>2. \A t \in Timers :
         Waited'[t] = IF Asked[t] = -1 THEN 0
                      ELSE IF Waited[t] + e <= MaxAge THEN Waited[t] + e ELSE MaxAge
  <2>1. SUFFICES ASSUME NEW t \in Timers
        PROVE  Waited'[t] = IF Asked[t] = -1 THEN 0
                            ELSE IF Waited[t] + e <= MaxAge THEN Waited[t] + e ELSE MaxAge
    OBVIOUS
  <2>2. Waited'[t] = IF timer[t].active THEN age'[t] ELSE 0
    BY DEF Waited
  <2>3. age'[t] = IF t \notin Range(queue) THEN 0
                  ELSE IF age[t] + d <= MaxAge THEN age[t] + d ELSE MaxAge
    BY DEF Older
  <2>4. QED
    BY <1>1, <2>2, <2>3, AskedOff
<1>3. Asked' = Asked
  BY DEF Asked
<1> HIDE DEF e
<1>4. Waited' = [t \in Timers |->
                    IF Asked[t] = -1 THEN 0
                    ELSE IF Waited[t] + e <= MaxAge THEN Waited[t] + e ELSE MaxAge]
  <2>1. DOMAIN Waited' = Timers /\ Waited' = [t \in Timers |-> Waited'[t]]
    BY DEF Waited
  <2>2. QED
    BY <1>2, <2>1
<1>5. QED
  BY <1>1, <1>3, <1>4 DEF P!Wait, P!Off, Asked, Waited, Running


\* The front of the list has waited long enough when the callback takes it.
LEMMA FireStep ==
    ASSUME IInv, Fire
    PROVE  P!Next \/ UNCHANGED P!vars
<1>1. CASE queue # <<>> /\ timer[Head(queue)].minLeft <= 0
  <2> PICK h \in Timers : h = Head(queue)
    BY <1>1, TailList
  <2> DEFINE r == [timer[h] EXCEPT !.active = FALSE]
  <2>1. /\ timer' = [timer EXCEPT ![h] = r] /\ age' = [age EXCEPT ![h] = 0]
        /\ phase = "fire" /\ phase' = "callback" /\ cur' = h
    BY <1>1 DEF Fire
  <2>2. h \in Range(queue) /\ timer[h].minLeft <= 0
    BY <1>1, TailList
  <2>3. /\ TypeOK /\ r \in TimerRecord /\ ~ r.active
        /\ timer[h].minLeft \in Int /\ timer[h].minTime \in Nat /\ age[h] \in Int
    <3>1. TypeOK /\ timer[h] \in TimerRecord /\ age[h] \in 0..MaxAge
      BY DEF IInv, TypeOK
    <3>2. timer[h].minLeft \in Int /\ timer[h].minTime \in Nat
      BY <3>1 DEF TimerRecord
    <3>3. r \in TimerRecord /\ ~ r.active
      BY <3>1 DEF TimerRecord
    <3>4. QED
      BY <3>1, <3>2, <3>3, TimersAssumption
  <2> HIDE DEF r
  <2>4. age[h] >= timer[h].minTime
    <3>1. \/ age[h] >= timer[h].minTime
          \/ age[h] + timer[h].minLeft >= timer[h].minTime + 0
      BY <2>1, <2>2 DEF IInv, ListInv, AgeOK, PhaseOK
    <3>2. QED
      BY <2>2, <2>3, <3>1
  <2>5. Asked' = [Asked EXCEPT ![h] = -1] /\ Waited' = [Waited EXCEPT ![h] = 0]
    BY <2>1, <2>2, <2>3, OneChanges
  <2>6. Asked[h] # -1 /\ Waited[h] >= Asked[h]
    BY <2>2, <2>4, AskedOff
  <2>7. Running = NoTimer /\ Running' = h
    BY <2>1 DEF Running
  <2>8. P!Run(h)
    BY <2>5, <2>6, <2>7 DEF P!Run, P!Off, Asked, Waited, Running
  <2>9. QED
    BY <2>8 DEF P!Next
<1>2. CASE ~ (queue # <<>> /\ timer[Head(queue)].minLeft <= 0)
  <2>1. UNCHANGED <<timer, age>> /\ phase = "fire" /\ phase' = "prepare"
    BY <1>2 DEF Fire
  <2>2. Asked' = Asked /\ Waited' = Waited /\ Running' = Running
    BY <2>1 DEF Asked, Waited, Running
  <2>3. QED
    BY <2>2 DEF P!vars, Asked, Waited, Running
<1>3. QED
  BY <1>1, <1>2

\* A timer that does not wait has no age, so none to begin with when it is
\* queued by what its callback returns.
IdleOK == \A t \in Timers : t \notin Range(queue) => age[t] = 0

LEMMA IdleInit == ASSUME Init PROVE IdleOK
BY DEF Init, IdleOK

LEMMA IdleNext == ASSUME IInv, IInv', IdleOK, [Next]_vars PROVE IdleOK'
<1>1. age \in [Timers -> 0..MaxAge] /\ queue \in Seq(Timers)
  BY DEF IInv, TypeOK
<1>2. \A t \in Timers :
         /\ timer[t].active <=> t \in Range(queue)
         /\ timer'[t].active <=> t \in Range(queue')
         /\ timer[t] \in TimerRecord
  BY DEF IInv, TypeOK, ListInv, ActiveIffQueued
<1>3. ASSUME NEW t \in Timers, NEW r, age' = [age EXCEPT ![t] = 0],
             timer' = [timer EXCEPT ![t] = r]
      PROVE  IdleOK'
  BY <1>1, <1>2, <1>3 DEF IdleOK, IInv, TypeOK
<1>4. CASE UNCHANGED <<queue, age>>
  BY <1>4 DEF IdleOK
<1>5. ASSUME NEW t \in Timers, NEW r, Restart(t, r) PROVE IdleOK'
  BY <1>3, <1>5 DEF Restart
<1>6. ASSUME NEW t \in Timers, NEW r, r.active = timer[t].active, Change(t, r)
      PROVE  IdleOK'
  BY <1>4, <1>5, <1>6 DEF Change
<1>7. ASSUME NEW t \in Timers, NEW r, Unlink(t, r) PROVE IdleOK'
  BY <1>3, <1>7 DEF Unlink
<1>8. CASE Call
  <2>1. PICK t \in Timers :
           \/ SetCallback(t) \/ Start(t) \/ Stop(t) \/ Destroy(t)
           \/ \E iv \in Intervals : SetTimes(t, iv) \/ StartCallback(t, iv)
    BY <1>8 DEF Call
  <2>2. \/ \E r : Restart(t, r) \/ Unlink(t, r)
        \/ UNCHANGED <<queue, age>>
    BY <2>1 DEF SetCallback, Start, Stop, Destroy, SetTimes, StartCallback, Change
  <2>3. QED
    BY <1>4, <1>5, <1>7, <2>2
<1>9. CASE Poll \/ Work
  BY <1>1, <1>9 DEF Poll, Work, Older, IdleOK
<1>10. CASE Fire
  <2>1. CASE queue # <<>> /\ timer[Head(queue)].minLeft <= 0
    <3>1. /\ Head(queue) \in Timers /\ age' = [age EXCEPT ![Head(queue)] = 0]
          /\ Range(queue') = Range(queue) \ {Head(queue)}
      BY <1>10, <2>1, TailList DEF Fire
    <3>2. QED
      BY <1>1, <3>1 DEF IdleOK
  <2>2. QED
    BY <1>4, <1>10, <2>1 DEF Fire
<1>11. CASE Return
  <2>1. age' = age /\ cur \in Timers
    BY <1>11 DEF Return, IInv, PhaseOK
  <2>2. ASSUME NEW t \in Range(queue) PROVE t \in Timers /\ t \in Range(queue')
    <3>1. t \in Timers /\ timer[t].active
      BY <1>2, QueueFacts
    <3>2. timer'[t].active
      BY <1>11, <2>1, <3>1 DEF Return, IInv, TypeOK, TimerRecord
    <3>3. QED
      BY <1>2, <3>1, <3>2
  <2>3. QED
    BY <2>1, <2>2 DEF IdleOK
<1>12. QED
  BY <1>4, <1>8, <1>9, <1>10, <1>11
     DEF Next, Loop, Prepare, Scan, Check, EventsDone, vars

\* What the callback returns queues the timer, or leaves it as it is.
LEMMA ReturnStep ==
    ASSUME IInv, IdleOK, Return
    PROVE  P!Next
<1>1. /\ TypeOK /\ phase = "callback" /\ cur \in Timers /\ cur # NoTimer
      /\ cur' = NoTimer /\ phase' = "fire" /\ age' = age
      /\ timer[cur] \in TimerRecord
  BY TimersAssumption DEF IInv, PhaseOK, Return, TypeOK
<1> PICK c \in Timers : c = cur
  BY <1>1
<1>2. Running = c /\ Running' = NoTimer
  BY <1>1 DEF Running
<1>3. CASE UNCHANGED <<queue, timer>> /\ c \notin Persistent
  <2>1. Asked' = Asked /\ Waited' = Waited
    BY <1>1, <1>3 DEF Asked, Waited
  <2>2. P!Return(c)
    BY <1>2, <1>3, <2>1 DEF P!Return, P!Off, Asked, Waited, Running
  <2>3. QED
    BY <2>2 DEF P!Next
<1> DEFINE n == [IF c \in Range(queue) THEN timer[c] ELSE Reloaded(timer[c])
                    EXCEPT !.active = TRUE]
<1>4. CASE timer' = [timer EXCEPT ![c] = n]
  <2>1. n.active /\ n.minTime = timer[c].minTime
    BY <1>1 DEF Reloaded, TimerRecord
  <2> HIDE DEF n
  <2>2. /\ Asked' = [Asked EXCEPT ![c] = timer[c].minTime]
        /\ Waited' = [Waited EXCEPT ![c] = age[c]]
    BY <1>1, <1>4, <2>1 DEF TypeOK, Asked, Waited
  <2>3. /\ timer[c].minTime \in 0..MaxAge
        /\ Asked[c] = IF timer[c].active THEN timer[c].minTime ELSE -1
        /\ Waited[c] = age[c]
    BY AskedOff DEF IdleOK
  <2>4. Waited' = Waited
    BY <2>2, <2>3 DEF Waited
  <2>5. CASE timer[c].active
    <3>1. Asked' = [Asked EXCEPT ![c] = Asked[c]] /\ Asked[c] # -1
      BY <2>2, <2>3, <2>5
    <3>2. Asked' = Asked
      BY <3>1 DEF Asked
    <3>3. QED
      <4>1. P!Return(c)
        BY <1>2, <2>4, <3>1, <3>2 DEF P!Return, P!Off, Asked, Waited, Running
      <4>2. QED
        BY <4>1 DEF P!Next
  <2>6. CASE ~ timer[c].active
    <3>1. Asked[c] = -1
      BY <2>3, <2>6
    <3>2. P!Return(c)
      BY <1>2, <2>2, <2>3, <2>4, <3>1
         DEF P!Return, P!Off, P!Minima, Asked, Waited, Running
    <3>3. QED
      BY <3>2 DEF P!Next
  <2>7. QED
    BY <2>5, <2>6
<1>5. QED
  BY <1>3, <1>4 DEF Return

\* At the start the persistent timers wait, and no other.
LEMMA PromiseInit == ASSUME Init PROVE P!Init
<1>1. IInv /\ TypeOK
  BY InitInv DEF IInv
<1>2. \A t \in Timers : Asked[t] \in 0..MaxAge \cup {-1} /\ Waited[t] = 0
  BY <1>1, AskedOff, IdleInit DEF IdleOK, Init
<1>3. \A t \in Persistent : t \in Timers /\ Asked[t] # -1
  <2>1. queue = Startup /\ Range(queue) = Persistent
    BY DEF Init, Persistent
  <2>2. QED
    BY <1>1, <2>1, QueueFacts, AskedOff
<1>4. /\ Asked \in [Timers -> 0..MaxAge \cup {-1}]
      /\ Waited = [t \in Timers |-> 0]
  <2>1. Asked = [t \in Timers |-> Asked[t]] /\ Waited = [t \in Timers |-> Waited[t]]
    BY DEF Asked, Waited
  <2>2. QED
    BY <1>2, <2>1
<1>5. Running = NoTimer
  BY DEF Init, Running
<1>6. QED
  BY <1>3, <1>4, <1>5 DEF P!Init, P!Minima, P!Off, Asked, Waited, Running

\* Every step of the timers and of the loop keeps the promise or is not seen.
LEMMA PromiseNext ==
    ASSUME IInv, IdleOK, [Next]_vars
    PROVE  P!Next \/ UNCHANGED P!vars
<1>1. CASE Call
  BY <1>1, CallStep
<1>2. CASE Prepare \/ Scan \/ Check \/ EventsDone
  BY <1>2, QuietStep
<1>3. CASE Poll
  <2>1. PICK d \in 0..wait + MaxOverrun : age' = Older(d)
    BY <1>3 DEF Poll
  <2>2. /\ d \in Nat /\ UNCHANGED <<queue, timer, cur>> /\ Running' = Running
    BY <1>3, TimersAssumption DEF Poll, Running, IInv, PhaseOK
  <2>3. P!Wait
    BY <2>1, <2>2, TimeStep
  <2>4. QED
    BY <2>3 DEF P!Next
<1>4. CASE Work
  <2>1. PICK d \in 1..MaxStep : age' = Older(d)
    BY <1>4 DEF Work
  <2>2. d \in Nat /\ UNCHANGED <<queue, timer, cur>> /\ Running' = Running
    BY <1>4, TimersAssumption DEF Work, Running
  <2>3. P!Wait
    BY <2>1, <2>2, TimeStep
  <2>4. QED
    BY <2>3 DEF P!Next
<1>5. CASE Fire
  BY <1>5, FireStep
<1>6. CASE Return
  BY <1>6, ReturnStep
<1>7. CASE UNCHANGED vars
  <2>1. Asked' = Asked /\ Waited' = Waited /\ Running' = Running
    BY <1>7 DEF vars, Asked, Waited, Running
  <2>2. QED
    BY <2>1 DEF P!vars, Asked, Waited, Running
<1>8. QED
  BY <1>1, <1>2, <1>3, <1>4, <1>5, <1>6, <1>7 DEF Next, Loop

\* CompTimer and CompTimeoutSource implement what timer.h promises: a timer
\* that was started waits for its minimum time, counted from its last start,
\* and then its callback runs, alone; one that was stopped does not run.
THEOREM PromiseKept == Spec => KeepsPromise
<1>1. Init => P!Init /\ IdleOK
  BY PromiseInit, IdleInit
<1>2. IInv /\ IInv' /\ IdleOK /\ [Next]_vars => IdleOK'
  BY IdleNext
<1>3. IInv /\ IdleOK /\ [Next]_vars => [P!Next]_(P!vars)
  BY PromiseNext
<1>4. QED
  BY <1>1, <1>2, <1>3, Inductive, PTL DEF Spec, KeepsPromise, P!Spec

=============================================================================
