------------------------ MODULE PluginManagerProofs ------------------------
(***************************************************************************)
(* Proofs about PluginManager, for any plugins, any dependencies between   *)
(* them, any that cannot be loaded or fail, and any lists.                 *)
(***************************************************************************)
EXTENDS PluginManager, DataLemmas

-----------------------------------------------------------------------------
(* Lemmas about sequences.                                                 *)

\* What Without keeps: the elements outside S, each as often as before.
LEMMA WithoutSeq ==
    ASSUME NEW N, NEW s \in Seq(N), NEW S
    PROVE  /\ Without(s, S) \in Seq(N)
           /\ Range(Without(s, S)) = Range(s) \ S
           /\ IsInjective(s) => IsInjective(Without(s, S))
<1> DEFINE n == Len(s)
           V == Seq(N)
           step == [p \in V \X (1..n) |->
                      IF s[p[2]] \in S THEN p[1] ELSE Append(p[1], s[p[2]])]
           Kept(f) == f = [k \in 0..n |-> IF k = 0 THEN <<>>
                                          ELSE IF s[k] \in S THEN f[k - 1]
                                          ELSE Append(f[k - 1], s[k])]
<1>1. n \in Nat /\ DOMAIN s = 1..n /\ \A k \in 1..n : s[k] \in N
  BY LenProperties, ElementOfSeq
<1>2. <<>> \in V /\ step \in Steps(n, V)
  <2>1. ASSUME NEW p \in V \X (1..n)
        PROVE  (IF s[p[2]] \in S THEN p[1] ELSE Append(p[1], s[p[2]])) \in V
    BY <1>1, AppendSeq
  <2>2. QED
    BY <2>1 DEF Steps
<1>3. \E f \in [0..n -> V] : Kept(f)
  <2>1. PICK f \in [0..n -> V] : Computes(f, n, <<>>, step)
    <3> HIDE DEF V, step, n
    <3>1. QED
      BY <1>1, <1>2, Recursion
  <2>2. ASSUME NEW k \in 0..n
        PROVE  f[k] = IF k = 0 THEN <<>> ELSE IF s[k] \in S THEN f[k - 1]
                                         ELSE Append(f[k - 1], s[k])
    <3>1. CASE k = 0
      BY <2>1, <3>1 DEF Computes
    <3>2. CASE k \in 1..n
      <4>1. <<f[k - 1], k>> \in V \X (1..n)
        <5>1. k - 1 \in 0..n
          BY <1>1, <3>2
        <5>2. QED
          BY <2>1, <3>2, <5>1
      <4>2. f[k] = step[<<f[k - 1], k>>]
        BY <2>1, <3>2 DEF Computes
      <4>3. QED
        BY <3>2, <4>1, <4>2
    <3>3. QED
      BY <1>1, <3>1, <3>2
  <2>3. Kept(f)
    BY <2>2
  <2>4. QED
    BY <2>3
<1> DEFINE f == CHOOSE g : Kept(g)
<1>4. Without(s, S) = f[n] /\ Kept(f)
  BY <1>3 DEF Without
<1>5. \A k \in 0..n : f[k] = IF k = 0 THEN <<>> ELSE IF s[k] \in S THEN f[k - 1]
                                               ELSE Append(f[k - 1], s[k])
  BY <1>4
<1> HIDE DEF f
<1> DEFINE Good(k) == /\ f[k] \in Seq(N)
                      /\ Range(f[k]) = {s[i] : i \in 1..k} \ S
                      /\ IsInjective(s) => IsInjective(f[k])
           T == {k \in Nat : k <= n => Good(k)}
<1>6. 0 \in T
  <2>1. f[0] = <<>>
    BY <1>1, <1>5
  <2>2. Range(<<>>) = {} /\ IsInjective(<<>>) /\ <<>> \in Seq(N)
    BY DEF Range, IsInjective
  <2>3. {s[i] : i \in 1..0} = {}
    OBVIOUS
  <2>4. QED
    BY <2>1, <2>2, <2>3
<1>7. ASSUME NEW k \in Nat, k \in T PROVE k + 1 \in T
  <2>1. SUFFICES ASSUME k + 1 <= n PROVE Good(k + 1)
    OBVIOUS
  <2>2. Good(k)
    BY <1>1, <1>7, <2>1
  <2>3. f[k + 1] = IF s[k + 1] \in S THEN f[k] ELSE Append(f[k], s[k + 1])
    BY <1>1, <1>5, <2>1
  <2>4. CASE s[k + 1] \in S
    BY <2>2, <2>3, <2>4
  <2>5. CASE s[k + 1] \notin S
    <3>1. f[k + 1] = Append(f[k], s[k + 1]) /\ s[k + 1] \in N
      BY <1>1, <2>1, <2>3, <2>5
    <3>2. f[k + 1] \in Seq(N) /\ Range(f[k + 1]) = {s[i] : i \in 1..k + 1} \ S
      BY <2>2, <2>5, <3>1, AppendSeq
    <3>3. ASSUME IsInjective(s) PROVE IsInjective(f[k + 1])
      <4>1. s[k + 1] \notin Range(f[k])
        BY <1>1, <2>1, <2>2, <3>3 DEF IsInjective
      <4>2. DOMAIN f[k] = 1..Len(f[k]) /\ DOMAIN f[k + 1] = 1..Len(f[k]) + 1 /\ Len(f[k]) \in Nat
        BY <2>2, <3>1, <3>2, AppendSeq, LenProperties
      <4>3. \A i \in 1..Len(f[k]) : f[k + 1][i] = f[k][i]
        BY <2>2, <3>1, AppendSeq
      <4>4. f[k + 1][Len(f[k]) + 1] = s[k + 1]
        BY <2>2, <3>1, AppendSeq
      <4>5. SUFFICES ASSUME NEW i \in DOMAIN f[k + 1], NEW j \in DOMAIN f[k + 1],
                            f[k + 1][i] = f[k + 1][j], i < j
                     PROVE  FALSE
        BY <4>2 DEF IsInjective
      <4>6. i \in DOMAIN f[k] /\ f[k + 1][i] = f[k][i] /\ f[k][i] \in Range(f[k])
        BY <4>2, <4>3, <4>5 DEF Range
      <4>7. j \in DOMAIN f[k]
        <5>1. f[k + 1][j] # s[k + 1]
          BY <4>1, <4>5, <4>6
        <5>2. QED
          BY <4>2, <4>4, <5>1
      <4>8. IsInjective(f[k])
        BY <2>2, <3>3
      <4>9. i \in 1..Len(f[k]) /\ j \in 1..Len(f[k])
        BY <4>2, <4>6, <4>7
      <4>10. f[k][i] = f[k][j] /\ i # j
        BY <4>2, <4>3, <4>5, <4>9
      <4>11. QED
        BY <4>6, <4>7, <4>8, <4>10 DEF IsInjective
    <3>4. QED
      BY <3>2, <3>3
  <2>6. QED
    BY <2>4, <2>5
<1>8. n \in T
  BY <1>1, <1>6, <1>7, NatInduct
<1>9. Range(s) = {s[i] : i \in 1..n}
  BY <1>1 DEF Range
<1>10. QED
  BY <1>1, <1>4, <1>8, <1>9

\* Outcome tries the elements of the list in order.
LEMMA OutcomeFcn ==
    ASSUME NEW l \in Seq(Names), NEW failing
    PROVE  \E f : /\ Outcome(l, failing) = f[Len(l)]
                  /\ f[0] = <<>>
                  /\ \A k \in 1..Len(l) :
                        f[k] = IF Can(f[k - 1], l[k], failing) THEN Append(f[k - 1], l[k])
                                                              ELSE f[k - 1]
                  /\ \A k \in 0..Len(l) : f[k] \in Seq(Names)
<1> DEFINE n == Len(l)
           V == Seq(Names)
           step == [p \in V \X (1..n) |->
                      IF Can(p[1], l[p[2]], failing) THEN Append(p[1], l[p[2]]) ELSE p[1]]
           Made(f) == f = [k \in 0..n |-> IF k = 0 THEN <<>>
                                          ELSE IF Can(f[k - 1], l[k], failing)
                                          THEN Append(f[k - 1], l[k]) ELSE f[k - 1]]
<1>1. n \in Nat /\ \A k \in 1..n : l[k] \in Names
  BY LenProperties, ElementOfSeq
<1>2. <<>> \in V /\ step \in Steps(n, V)
  <2>1. ASSUME NEW p \in V \X (1..n)
        PROVE  (IF Can(p[1], l[p[2]], failing) THEN Append(p[1], l[p[2]]) ELSE p[1]) \in V
    BY <1>1, AppendSeq
  <2>2. QED
    BY <2>1 DEF Steps
<1>3. PICK f \in [0..n -> V] : Computes(f, n, <<>>, step)
  <2> HIDE DEF V, step, n
  <2>1. QED
    BY <1>1, <1>2, Recursion
<1>4. ASSUME NEW k \in 0..n
      PROVE  f[k] = IF k = 0 THEN <<>> ELSE IF Can(f[k - 1], l[k], failing)
                                       THEN Append(f[k - 1], l[k]) ELSE f[k - 1]
  <2>1. CASE k = 0
    BY <1>3, <2>1 DEF Computes
  <2>2. CASE k \in 1..n
    <3>1. k - 1 \in 0..n
      BY <1>1, <2>2
    <3>2. <<f[k - 1], k>> \in V \X (1..n)
      BY <1>3, <2>2, <3>1
    <3>3. f[k] = step[<<f[k - 1], k>>]
      BY <1>3, <2>2 DEF Computes
    <3>4. QED
      BY <2>2, <3>2, <3>3
  <2>3. QED
    BY <1>1, <2>1, <2>2
<1>5. Made(f)
  BY <1>4
<1> DEFINE g == CHOOSE h : Made(h)
<1>6. Outcome(l, failing) = g[n] /\ Made(g)
  BY <1>5 DEF Outcome
<1>7. \A k \in 0..n : g[k] = IF k = 0 THEN <<>> ELSE IF Can(g[k - 1], l[k], failing)
                                               THEN Append(g[k - 1], l[k]) ELSE g[k - 1]
  BY <1>6
<1> HIDE DEF g
<1> DEFINE T == {k \in Nat : k <= n => g[k] \in V}
<1>8. 0 \in T
  <2>1. g[0] = <<>>
    BY <1>1, <1>7
  <2>2. QED
    BY <1>2, <2>1
<1>9. ASSUME NEW k \in Nat, k \in T PROVE k + 1 \in T
  <2>1. SUFFICES ASSUME k + 1 <= n PROVE g[k + 1] \in V
    OBVIOUS
  <2>2. g[k] \in V /\ l[k + 1] \in Names
    BY <1>1, <1>9, <2>1
  <2>3. g[k + 1] = Append(g[k], l[k + 1]) \/ g[k + 1] = g[k]
    <3>1. k + 1 \in 0..n /\ k + 1 # 0 /\ k + 1 - 1 = k
      BY <1>1, <2>1
    <3>2. g[k + 1] = IF Can(g[k + 1 - 1], l[k + 1], failing)
                     THEN Append(g[k + 1 - 1], l[k + 1]) ELSE g[k + 1 - 1]
      BY <1>7, <3>1
    <3>3. QED
      BY <3>1, <3>2
  <2>4. Append(g[k], l[k + 1]) \in V
    BY <2>2, AppendSeq
  <2>5. QED
    BY <2>2, <2>3, <2>4
<1>10. \A k \in Nat : k \in T
  <2> HIDE DEF T
  <2>1. QED
    BY <1>8, <1>9, NatInduct
<1>11. /\ g[0] = <<>>
       /\ \A k \in 1..n : g[k] = IF Can(g[k - 1], l[k], failing)
                                 THEN Append(g[k - 1], l[k]) ELSE g[k - 1]
  BY <1>1, <1>7
<1>12. \A k \in 0..n : g[k] \in V
  BY <1>1, <1>10
<1>13. QED
  BY <1>6, <1>11, <1>12

\* What one more name does to the outcome.
LEMMA OutcomeAppend ==
    ASSUME NEW l \in Seq(Names), NEW n \in Names, NEW failing
    PROVE  LET done == Outcome(l, failing) IN
           Outcome(Append(l, n), failing) =
               IF Can(done, n, failing) THEN Append(done, n) ELSE done
<1> DEFINE m == Append(l, n)
<1>1. m \in Seq(Names) /\ Len(m) = Len(l) + 1 /\ m[Len(l) + 1] = n /\ Len(l) \in Nat
      /\ \A i \in 1..Len(l) : m[i] = l[i]
  BY AppendSeq, LenProperties
<1>2. PICK f : /\ Outcome(l, failing) = f[Len(l)]
               /\ f[0] = <<>>
               /\ \A k \in 1..Len(l) :
                     f[k] = IF Can(f[k - 1], l[k], failing) THEN Append(f[k - 1], l[k])
                                                           ELSE f[k - 1]
               /\ \A k \in 0..Len(l) : f[k] \in Seq(Names)
  BY OutcomeFcn
<1>3. PICK g : /\ Outcome(m, failing) = g[Len(m)]
               /\ g[0] = <<>>
               /\ \A k \in 1..Len(m) :
                     g[k] = IF Can(g[k - 1], m[k], failing) THEN Append(g[k - 1], m[k])
                                                           ELSE g[k - 1]
               /\ \A k \in 0..Len(m) : g[k] \in Seq(Names)
  <2> HIDE DEF m
  <2>1. QED
    BY <1>1, OutcomeFcn
<1> HIDE DEF m
<1> DEFINE T == {k \in Nat : k <= Len(l) => g[k] = f[k]}
<1>4. 0 \in T
  BY <1>2, <1>3
<1>5. ASSUME NEW k \in Nat, k \in T PROVE k + 1 \in T
  <2>1. SUFFICES ASSUME k + 1 <= Len(l) PROVE g[k + 1] = f[k + 1]
    OBVIOUS
  <2>2. g[k] = f[k] /\ m[k + 1] = l[k + 1] /\ k + 1 \in 1..Len(l) /\ k + 1 \in 1..Len(m)
    BY <1>1, <1>5, <2>1
  <2>3. k + 1 - 1 = k
    OBVIOUS
  <2>4. QED
    BY <1>2, <1>3, <2>2, <2>3
<1>6. \A k \in Nat : k \in T
  <2> HIDE DEF T
  <2>1. QED
    BY <1>4, <1>5, NatInduct
<1>7. g[Len(l)] = f[Len(l)]
  BY <1>1, <1>6
<1>8. g[Len(m)] = IF Can(g[Len(l)], n, failing) THEN Append(g[Len(l)], n) ELSE g[Len(l)]
  <2>1. Len(m) \in 1..Len(m) /\ Len(m) - 1 = Len(l) /\ m[Len(m)] = n
    BY <1>1
  <2>2. QED
    BY <1>3, <2>1
<1>9. QED
  BY <1>2, <1>3, <1>7, <1>8 DEF m

-----------------------------------------------------------------------------
(* The inductive invariant.                                                *)

\* plugins is a stack and plugin a list: the two in opposite orders, core at
\* the bottom.
Mirrored ==
    /\ map = Range(plugins)
    /\ IsInjective(plugins)
    /\ map \subseteq Loadable
    /\ Running =>
         /\ Len(plugin) = Len(plugins)
         /\ \A i \in 1..Len(plugin) : plugin[i] = plugins[Len(plugins) + 1 - i]
         /\ Len(plugin) > 0 /\ plugin[1] = Core

\* The screen exists from CompScreen::init on; before it there is no window.
Phases ==
    /\ pc \in {"boot", "created"} => ~ ready
    /\ pc \in {"initScreens", "start", "idle", "shutdown", "done"} => ready
    /\ ~ ready => windows = {}

Updating == pc \in {"pop", "push", "loaded", "unload"}

\* How much of the wanted list the update has dealt with
Done == Len(want) - Len(next)

\* next is the rest of the wanted list; what was popped is below what remains
\* of the old list, and what is active afterwards comes from the wanted list.
Planned ==
    /\ Updating =>
         /\ Done \in 1..Len(want)
         /\ want[1] = Core
         /\ \A j \in 1..Len(next) : next[j] = want[Done + j]
    /\ pc = "pop" =>
         /\ Len(plugin) = nPop + Done
         /\ \A i \in 1..Done : plugin[i] = want[i]
    /\ pc \in {"push", "loaded", "unload"} =>
         \A i \in 1..Len(plugin) : \E j \in 1..Done : plugin[i] = want[j]
    /\ pc = "loaded" => next # <<>> /\ Head(next) \in Loadable \ Range(pop)
    /\ pc = "unload" => next = <<>>
    /\ ~ Updating /\ pc # "aborted" => pop = <<>>

\* A popped plugin is not active and has a library.
Popped == Range(pop) \cap map = {} /\ Range(pop) \subseteq Loadable

\* The second half of LoadedOnce
Objects ==
    \A n \in Names :
        loaded[n] = (IF n \in map THEN 1 ELSE 0) + (IF n \in Range(pop) THEN 1 ELSE 0)
                        + (IF pc = "loaded" /\ n = Head(next) THEN 1 ELSE 0)

\* The plugins that may be started before the screen
Early == {Core} \cup Range(initial \o Default)

\* What screenInitPlugins has still to start, and what was active before it
Screens ==
    /\ pc = "boot" => Range(active) \subseteq Early
    /\ ~ ready =>
         /\ map \subseteq Early
         /\ Updating => Range(want) \subseteq Early
    /\ pc = "initScreens" =>
         /\ map \subseteq Early
         /\ Range(next) \subseteq map
         /\ map \ scr \subseteq Range(next) \cup Broken

\* The option shows what is active, or the list is dirty.
OptionTold == pc \in {"created", "initScreens", "start", "idle"} /\ ~ dirty => active = plugin

\* What is active is what the part of the wanted list that is dealt with
\* comes to.
Forgets ==
    pc \in {"push", "loaded", "unload"} /\ map \cap Broken = {} =>
        plugin = Outcome(SubSeq(want, 1, Done), Failing)

\* The lists users give name a plugin once.
DistinctLists == \A l \in AllLists : IsInjective(l)

\* So does every list that is wanted.
Distinct ==
    /\ IsInjective(active) /\ IsInjective(file)
    /\ Updating => IsInjective(want)
    /\ freed = {}

IInv ==
    /\ TypeOK /\ Mirrored /\ DependenciesBelow /\ Phases /\ Planned /\ Popped
    /\ Objects /\ WindowsCovered /\ HalvesLeft /\ Screens /\ ScreenCovered
    /\ OptionTold /\ AskedKept

-----------------------------------------------------------------------------
(* What an update wants.                                                   *)

\* Two lists without a common name, each naming nothing twice
LEMMA ConcatInjective ==
    ASSUME NEW S, NEW s \in Seq(S), NEW t \in Seq(S), IsInjective(s), IsInjective(t),
           Range(s) \cap Range(t) = {}
    PROVE  IsInjective(s \o t)
<1>1. /\ Len(s) \in Nat /\ Len(t) \in Nat
      /\ DOMAIN s = 1..Len(s) /\ DOMAIN t = 1..Len(t) /\ DOMAIN (s \o t) = 1..Len(s) + Len(t)
      /\ \A i \in 1..Len(s) + Len(t) :
            (s \o t)[i] = IF i <= Len(s) THEN s[i] ELSE t[i - Len(s)]
  BY ConcatProperties, LenProperties
<1>2. \A i \in 1..Len(s) : (s \o t)[i] = s[i] /\ s[i] \in Range(s)
  BY <1>1 DEF Range
<1>3. \A i \in Len(s) + 1..Len(s) + Len(t) :
          i - Len(s) \in 1..Len(t) /\ (s \o t)[i] = t[i - Len(s)] /\ t[i - Len(s)] \in Range(t)
  BY <1>1 DEF Range
<1>4. SUFFICES ASSUME NEW i \in 1..Len(s) + Len(t), NEW j \in 1..Len(s) + Len(t),
                      (s \o t)[i] = (s \o t)[j]
               PROVE  i = j
  BY <1>1 DEF IsInjective
<1>5. CASE i <= Len(s) /\ j <= Len(s)
  <2>1. s[i] = s[j] /\ i \in DOMAIN s /\ j \in DOMAIN s
    BY <1>1, <1>2, <1>4, <1>5
  <2>2. QED
    BY <2>1 DEF IsInjective
<1>6. CASE i > Len(s) /\ j > Len(s)
  <2>1. i - Len(s) \in DOMAIN t /\ j - Len(s) \in DOMAIN t /\ t[i - Len(s)] = t[j - Len(s)]
    BY <1>1, <1>3, <1>4, <1>6
  <2>2. i - Len(s) = j - Len(s)
    BY <2>1 DEF IsInjective
  <2>3. QED
    BY <1>1, <2>2
<1>7. CASE i <= Len(s) /\ j > Len(s)
  BY <1>1, <1>2, <1>3, <1>4, <1>7
<1>8. CASE i > Len(s) /\ j <= Len(s)
  BY <1>1, <1>2, <1>3, <1>4, <1>8
<1>9. QED
  BY <1>1, <1>5, <1>6, <1>7, <1>8

\* The facts about a concatenation that the wanted list needs
LEMMA ConcatFacts ==
    ASSUME NEW S, NEW s \in Seq(S), NEW t \in Seq(S), Len(s) > 0
    PROVE  /\ s \o t \in Seq(S) /\ Len(s \o t) \in Nat \ {0} /\ (s \o t)[1] = s[1]
           /\ Range(s \o t) = Range(s) \cup Range(t)
           /\ IsInjective(s) /\ IsInjective(t) /\ Range(s) \cap Range(t) = {}
                 => IsInjective(s \o t)
<1>1. Len(s) \in Nat /\ Len(t) \in Nat
  BY LenProperties
<1>2. s \o t \in Seq(S) /\ Len(s \o t) = Len(s) + Len(t)
  BY ConcatProperties
<1>3. (s \o t)[1] = s[1]
  BY <1>1, ConcatProperties
<1>4. Range(s \o t) = Range(s) \cup Range(t)
  BY RangeConcatenation
<1>5. QED
  BY <1>1, <1>2, <1>3, <1>4, ConcatInjective

\* The names on the command line
LEMMA InitialSeq ==
    ASSUME initial \in Initials
    PROVE  initial \in Seq(Names) /\ (DistinctLists => IsInjective(initial))
BY PluginAssumption DEF AllLists, DistinctLists

\* updatePlugins' list: core first, then only what the command line and the
\* option name.
LEMMA WantedSeq ==
    ASSUME active \in Seq(Names), initial \in Initials
    PROVE  /\ Wanted \in Seq(Names)
           /\ Len(Wanted) \in Nat \ {0}
           /\ Wanted[1] = Core
           /\ Range(Wanted) \subseteq {Core} \cup Range(initial) \cup Range(active)
           /\ IsInjective(initial) /\ IsInjective(active) => IsInjective(Wanted)
<1> DEFINE A == <<Core>>
           B == Without(initial, {Core})
           C == Without(active, {Core} \cup Range(initial))
<1>1. Core \in Names /\ initial \in Seq(Names)
  BY PluginAssumption, InitialSeq
<1>2. A \in Seq(Names) /\ Len(A) = 1 /\ A[1] = Core /\ Range(A) = {Core} /\ IsInjective(A)
  <2>1. A \in Seq(Names) /\ Len(A) = 1 /\ A[1] = Core /\ DOMAIN A = 1..1
    BY <1>1
  <2>2. QED
    BY <2>1 DEF Range, IsInjective
<1>3. /\ B \in Seq(Names) /\ Range(B) = Range(initial) \ {Core}
      /\ IsInjective(initial) => IsInjective(B)
  BY <1>1, WithoutSeq
<1>4. /\ C \in Seq(Names) /\ Range(C) = Range(active) \ ({Core} \cup Range(initial))
      /\ IsInjective(active) => IsInjective(C)
  BY WithoutSeq
<1>5. Wanted = (A \o B) \o C
  BY DEF Wanted
<1> HIDE DEF A, B, C
<1> DEFINE D == A \o B
<1>6. /\ D \in Seq(Names) /\ Len(D) \in Nat \ {0} /\ D[1] = Core
      /\ Range(D) = Range(A) \cup Range(B)
      /\ IsInjective(initial) => IsInjective(D)
  <2>1. Len(A) > 0 /\ Range(A) \cap Range(B) = {}
    BY <1>2, <1>3
  <2>2. /\ A \o B \in Seq(Names) /\ Len(A \o B) \in Nat \ {0} /\ (A \o B)[1] = A[1]
        /\ Range(A \o B) = Range(A) \cup Range(B)
        /\ IsInjective(A) /\ IsInjective(B) => IsInjective(A \o B)
    BY <1>2, <1>3, <2>1, ConcatFacts
  <2>3. QED
    BY <1>2, <1>3, <2>2
<1> HIDE DEF D
<1>7. /\ D \o C \in Seq(Names) /\ Len(D \o C) \in Nat \ {0} /\ (D \o C)[1] = Core
      /\ Range(D \o C) = Range(D) \cup Range(C)
      /\ IsInjective(D) /\ IsInjective(C) => IsInjective(D \o C)
  BY <1>2, <1>3, <1>4, <1>6, ConcatFacts
<1>8. Wanted = D \o C
  BY <1>5 DEF D
<1>9. QED
  BY <1>2, <1>3, <1>4, <1>6, <1>7, <1>8

\* How much of the two lists is kept: it is the longest common prefix there
\* is, but here it matters only that it is one.
LEMMA PrefixMax ==
    ASSUME NEW l \in Seq(Names), plugin \in Seq(Names), Len(l) > 0, Len(plugin) > 0
    PROVE  /\ PrefixLength(l) \in 1..Len(l)
           /\ PrefixLength(l) <= Len(plugin)
           /\ \A i \in 2..PrefixLength(l) : plugin[i] = l[i]
<1> DEFINE K == {k \in 1..Len(l) : k <= Len(plugin) /\ \A i \in 2..k : plugin[i] = l[i]}
<1>1. Len(l) \in Nat /\ Len(plugin) \in Nat
  BY LenProperties
<1>2. 1 \in K /\ K \in SUBSET Nat /\ \A k \in K : k <= Len(l)
  BY <1>1
<1>3. \E k \in K : \A j \in K : k >= j
  <2> HIDE DEF K
  <2>1. \E k \in K : \A j \in K : j <= k
    BY <1>1, <1>2, GreatestInteger
  <2>2. QED
    BY <1>2, <2>1
<1>4. Max(K) \in K
  BY <1>3 DEF Max
<1>5. QED
  BY <1>1, <1>4 DEF PrefixLength

-----------------------------------------------------------------------------
(* What the actions do, in the terms the invariant needs.                  *)

\* What users and clients do
Calls ==
    \/ \E w \in Windows : AddWindow(w) \/ DeleteWindow(w)
    \/ \E l \in Lists : SetOption(l) \/ EditFile(l)

\* The ends nobody wants
Aborts == Crash \/ \E w \in Windows : AddWindowFails(w)

\* Every step is of one of these.
LEMMA NextCases ==
    ASSUME [Next]_vars
    PROVE  Update \/ Screen \/ Calls \/ Aborts \/ UNCHANGED vars
BY DEF Next, Events, Calls, Aborts, Terminated

\* Only pc changes when the program is aborted.
LEMMA AbortFacts ==
    ASSUME Aborts
    PROVE  /\ pc \in {"idle", "pop", "push", "shutdown"} /\ pc' = "aborted"
           /\ UNCHANGED <<plugins, map, loaded, freed, scr, wins, windows, left, plugin>>
           /\ UNCHANGED <<active, dirty, asked, initial, file, ready>>
           /\ UNCHANGED <<want, next, nPop, pop, changes>>
BY DEF Aborts, Crash, AddWindowFails, stack, objects, options, update

\* The actions that read or write the options through the plugins' code
LEMMA OptionTypes ==
    ASSUME TypeOK, NEW n \in Names, LoadsConfig(n) \/ UNCHANGED options
    PROVE  /\ active' \in Seq(Names) /\ dirty' \in BOOLEAN /\ asked' \in Seq(Names)
           /\ initial' = initial
BY DEF TypeOK, LoadsConfig, Ask, SetActive, options

\* CompPlugin::pop
LEMMA PopFacts ==
    ASSUME TypeOK, map = Range(plugins), IsInjective(plugins), Pop
    PROVE  /\ plugins # <<>> /\ Head(plugins) \in map /\ Head(plugins) \in Names
           /\ Head(plugins) = plugins[1] /\ Len(plugins) \in Nat \ {0}
           /\ plugins' \in Seq(Names) /\ Len(plugins') = Len(plugins) - 1
           /\ \A i \in 1..Len(plugins') : plugins'[i] = plugins[i + 1]
           /\ map' = map \ {Head(plugins)} /\ map' = Range(plugins')
           /\ IsInjective(plugins')
           /\ freed' = freed \ {Head(plugins)}
           /\ scr' = scr \ {Head(plugins)}
           /\ wins' = [wins EXCEPT ![Head(plugins)] = {}]
           /\ windows' = windows /\ left' = left
<1>1. plugins \in Seq(Names) /\ plugins # <<>> /\ plugins' = Tail(plugins)
  BY DEF TypeOK, Pop
<1>2. /\ Len(plugins) \in Nat \ {0} /\ Head(plugins) = plugins[1] /\ Head(plugins) \in Names
      /\ Tail(plugins) \in Seq(Names) /\ Len(Tail(plugins)) = Len(plugins) - 1
      /\ \A i \in 1..Len(plugins) - 1 : Tail(plugins)[i] = plugins[i + 1]
      /\ Range(plugins) = {Head(plugins)} \cup Range(Tail(plugins))
      /\ IsInjective(Tail(plugins)) /\ Head(plugins) \notin Range(Tail(plugins))
  BY <1>1, TailSeq
<1>3. /\ map' = map \ {Head(plugins)} /\ freed' = freed \ {Head(plugins)}
      /\ scr' = scr \ {Head(plugins)} /\ wins' = [wins EXCEPT ![Head(plugins)] = {}]
      /\ windows' = windows /\ left' = left
  BY DEF Pop, FiniPlugin
<1>4. QED
  BY <1>1, <1>2, <1>3

\* CompPlugin::push, when it succeeds
LEMMA PushFacts ==
    ASSUME TypeOK, map = Range(plugins), IsInjective(plugins), NEW n \in Names, Push(n)
    PROVE  /\ n \notin map /\ Needs[n] \subseteq map \cup {n} /\ n \notin Failing
           /\ plugins' \in Seq(Names) /\ Len(plugins') = Len(plugins) + 1
           /\ Len(plugins) \in Nat /\ plugins'[1] = n
           /\ \A i \in 1..Len(plugins) : plugins'[i + 1] = plugins[i]
           /\ map' = map \cup {n} /\ map' = Range(plugins')
           /\ IsInjective(plugins')
           /\ scr' = (IF ready THEN scr \cup {n} ELSE scr)
           /\ wins' = [wins EXCEPT ![n] = IF ready THEN windows ELSE @]
           /\ windows' = windows /\ left' = left
           /\ LoadsConfig(n) \/ UNCHANGED options
<1>1. plugins \in Seq(Names) /\ plugins' = <<n>> \o plugins /\ n \notin Range(plugins)
  BY DEF TypeOK, Push
<1>2. /\ plugins' \in Seq(Names) /\ Len(plugins') = Len(plugins) + 1 /\ plugins'[1] = n
      /\ \A i \in 1..Len(plugins) : plugins'[i + 1] = plugins[i]
      /\ Range(plugins') = Range(plugins) \cup {n} /\ IsInjective(plugins')
  BY <1>1, FrontedSeq
<1>3. Len(plugins) \in Nat
  BY <1>1, LenProperties
<1>4. QED
  BY <1>1, <1>2, <1>3 DEF Push, InitPlugin

\* CompPlugin::push, when it fails: only what it leaves on the screen and on
\* windows is new.
LEMMA FailFacts ==
    ASSUME TypeOK, NEW n \in Names, PushFails(n)
    PROVE  /\ UNCHANGED <<plugins, map, plugin, scr, wins, windows, active, dirty, asked, initial>>
           /\ freed' = IF n \in map THEN freed \cup {n} ELSE freed
           /\ left' \in [Names -> SUBSET (Windows \cup {"screen"})]
           /\ left' = left \/ (n \in Failing \ Broken /\ LeavesHalf(n))
<1>1. /\ UNCHANGED <<plugins, map, plugin, scr, wins, windows, active, dirty, asked, initial>>
      /\ freed' = IF n \in map THEN freed \cup {n} ELSE freed
      /\ left' = left \/ (n \in Failing \ Broken /\ LeavesHalf(n))
  BY DEF PushFails, InitPluginFails, objects, options
<1>2. left' \in [Names -> SUBSET (Windows \cup {"screen"})]
  <2>1. CASE left' = left
    BY <2>1 DEF TypeOK
  <2>2. CASE LeavesHalf(n)
    <3>1. PICK behind \in SUBSET (windows \ Refused[n]) :
              left' = [left EXCEPT ![n] = @ \cup {"screen"} \cup behind]
      BY <2>2 DEF LeavesHalf
    <3>2. behind \subseteq Windows /\ left[n] \subseteq Windows \cup {"screen"}
      BY <3>1 DEF TypeOK
    <3>3. QED
      BY <3>1, <3>2 DEF TypeOK
  <2>3. QED
    BY <1>1, <2>1, <2>2
<1>3. QED
  BY <1>1, <1>2

\* What is taken from the popped plugins and from the list
LEMMA TakeFacts ==
    ASSUME TypeOK, Planned, next # <<>>, Take(Head(next))
    PROVE  /\ Head(next) \in Names /\ Head(next) = next[1] /\ Len(next) \in Nat \ {0}
           /\ next' \in Seq(Names) /\ Len(next') = Len(next) - 1
           /\ \A i \in 1..Len(next') : next'[i] = next[i + 1]
           /\ Range(next) = {Head(next)} \cup Range(next')
           /\ pop' \in Seq(Names) /\ Range(pop') = Range(pop) \ {Head(next)}
           /\ pc \in {"push", "loaded"} /\ pc' = "push"
           /\ pc = "push" => Head(next) \in Range(pop)
           /\ pc = "loaded" => Head(next) \in Loadable \ Range(pop)
<1>1. next \in Seq(Names) /\ pop \in Seq(Names) /\ next' = Tail(next) /\ pc' = "push"
      /\ pop' = Without(pop, {Head(next)})
  BY DEF TypeOK, Take
<1>2. /\ Head(next) \in Names /\ Head(next) = next[1] /\ Len(next) \in Nat \ {0}
      /\ next' \in Seq(Names) /\ Len(next') = Len(next) - 1
      /\ \A i \in 1..Len(next) - 1 : next'[i] = next[i + 1]
      /\ Range(next) = {Head(next)} \cup Range(next')
  BY <1>1, TailSeq
<1>3. pop' \in Seq(Names) /\ Range(pop') = Range(pop) \ {Head(next)}
  BY <1>1, WithoutSeq
<1>4. pc \in {"push", "loaded"} /\ (pc = "push" => Head(next) \in Range(pop))
  BY DEF Take
<1>5. pc = "loaded" => Head(next) \in Loadable \ Range(pop)
  BY DEF Planned
<1>6. QED
  BY <1>1, <1>2, <1>3, <1>4, <1>5

\* The loop that pops ends above core.
LEMMA FrontFacts ==
    ASSUME NEW S, NEW s \in Seq(S), Len(s) > 0
    PROVE  /\ Front(s) \in Seq(S) /\ Len(Front(s)) = Len(s) - 1
           /\ \A i \in 1..Len(s) - 1 : Front(s)[i] = s[i]
<1>1. Len(s) \in Nat /\ \A i \in 1..Len(s) - 1 : s[i] \in S
  BY LenProperties, ElementOfSeq
<1>2. /\ SubSeq(s, 1, Len(s) - 1) \in Seq(S)
      /\ Len(SubSeq(s, 1, Len(s) - 1)) = IF 1 <= Len(s) - 1 THEN Len(s) - 1 - 1 + 1 ELSE 0
      /\ \A i \in 1..Len(s) - 1 - 1 + 1 : SubSeq(s, 1, Len(s) - 1)[i] = s[1 + i - 1]
  <2>1. 1 \in Int /\ Len(s) - 1 \in Int
    BY <1>1
  <2>2. QED
    BY <1>1, <2>1, SubSeqProperties
<1>3. Len(Front(s)) = Len(s) - 1
  <2>1. PICK n \in Nat : n = Len(s)
    BY <1>1
  <2>2. (IF 1 <= n - 1 THEN n - 1 - 1 + 1 ELSE 0) = n - 1
    BY <2>1
  <2>3. QED
    BY <1>2, <2>1, <2>2 DEF Front
<1>4. \A i \in 1..Len(s) - 1 : Front(s)[i] = s[i]
  BY <1>1, <1>2 DEF Front
<1>5. QED
  BY <1>2, <1>3, <1>4 DEF Front

\* updatePlugins up to its loop that pops
LEMMA StartFacts ==
    ASSUME TypeOK, Len(plugin) > 0, StartUpdate
    PROVE  /\ want' \in Seq(Names) /\ Len(want') \in Nat \ {0} /\ want'[1] = Core
           /\ Range(want') \subseteq {Core} \cup Range(initial) \cup Range(active)
           /\ IsInjective(initial) /\ IsInjective(active) => IsInjective(want')
           /\ next' \in Seq(Names) /\ Done' \in 1..Len(want')
           /\ \A j \in 1..Len(next') : next'[j] = want'[Done' + j]
           /\ Done' <= Len(plugin) /\ nPop' = Len(plugin) - Done'
           /\ \A i \in 2..Done' : plugin[i] = want'[i]
<1> DEFINE W == Wanted
           p == PrefixLength(W)
<1>1. /\ W \in Seq(Names) /\ Len(W) \in Nat \ {0} /\ W[1] = Core
      /\ Range(W) \subseteq {Core} \cup Range(initial) \cup Range(active)
      /\ IsInjective(initial) /\ IsInjective(active) => IsInjective(W)
  BY WantedSeq DEF TypeOK
<1>2. want' = W /\ next' = SubSeq(W, p + 1, Len(W)) /\ nPop' = Len(plugin) - p
  BY DEF StartUpdate
<1> HIDE DEF W
<1>3. /\ p \in 1..Len(W) /\ p <= Len(plugin) /\ \A i \in 2..p : plugin[i] = W[i]
  <2>1. W \in Seq(Names) /\ plugin \in Seq(Names) /\ Len(W) > 0 /\ Len(plugin) > 0
    BY <1>1 DEF TypeOK
  <2>2. QED
    BY <2>1, PrefixMax
<1> HIDE DEF p
<1>4. \A i \in p + 1..Len(W) : W[i] \in Names
  BY <1>1, <1>3, ElementOfSeq
<1>5. /\ next' \in Seq(Names) /\ Len(next') = Len(W) - p
      /\ \A j \in 1..Len(W) - p : next'[j] = W[p + 1 + j - 1]
  <2>1. p + 1 \in Int /\ Len(W) \in Int
    BY <1>1, <1>3
  <2>2. /\ SubSeq(W, p + 1, Len(W)) \in Seq(Names)
        /\ Len(SubSeq(W, p + 1, Len(W))) = IF p + 1 <= Len(W) THEN Len(W) - (p + 1) + 1 ELSE 0
        /\ \A i \in 1..Len(W) - (p + 1) + 1 : SubSeq(W, p + 1, Len(W))[i] = W[p + 1 + i - 1]
    BY <1>4, <2>1, SubSeqProperties
  <2>3. QED
    BY <1>1, <1>2, <1>3, <2>2
<1>6. Done' = p
  BY <1>1, <1>2, <1>3, <1>5 DEF Done
<1>7. \A j \in 1..Len(next') : next'[j] = want'[Done' + j]
  BY <1>1, <1>2, <1>3, <1>5, <1>6
<1>8. QED
  BY <1>1, <1>2, <1>3, <1>5, <1>6, <1>7

-----------------------------------------------------------------------------
(* The invariant is preserved.                                             *)

\* A name that is active or popped has an object.
LEMMA ObjectExists ==
    ASSUME Objects, NEW n \in Names, n \in map \/ n \in Range(pop)
    PROVE  loaded[n] \in Nat /\ loaded[n] > 0
<1> DEFINE A == IF n \in map THEN 1 ELSE 0
           B == IF n \in Range(pop) THEN 1 ELSE 0
           C == IF pc = "loaded" /\ n = Head(next) THEN 1 ELSE 0
<1>1. loaded[n] = A + B + C
  BY DEF Objects
<1>2. A \in Nat /\ B \in Nat /\ C \in Nat /\ (A = 1 \/ B = 1)
  OBVIOUS
<1> HIDE DEF A, B, C
<1>3. QED
  BY <1>1, <1>2

\* Type correctness; that no count of objects gets negative rests on Objects.
LEMMA TypeStep ==
    ASSUME TypeOK, Mirrored, Planned, Objects, [Next]_vars
    PROVE  TypeOK'
<1> USE DEF TypeOK
<1>1. MaxChanges \in Nat /\ AllLists \subseteq Seq(Names) /\ Lists \subseteq AllLists
  BY PluginAssumption DEF AllLists
<1>2. Running => Len(plugin) > 0
  BY DEF Mirrored
<1>3. CASE UNCHANGED vars
  BY <1>3 DEF vars, stack, objects, options, update
<1>4. CASE StartUpdate
  <2>1. Len(plugin) > 0
    BY <1>4, <1>2 DEF StartUpdate, Running
  <2>2. want' \in Seq(Names) /\ next' \in Seq(Names)
    BY <1>4, <2>1, StartFacts
  <2>3. nPop' \in Nat
    <3>1. /\ Len(want') \in Nat /\ Done' \in 1..Len(want') /\ Done' <= Len(plugin)
          /\ nPop' = Len(plugin) - Done'
      BY <1>4, <2>1, StartFacts
    <3>2. Len(plugin) \in Nat
      BY LenProperties
    <3>3. QED
      BY SMTT(30), <3>1, <3>2
  <2>4. pop' = <<>> /\ pc' = "pop" /\ dirty' = FALSE
    BY <1>4 DEF StartUpdate
  <2>5. QED
    <3>1. /\ UNCHANGED <<plugins, map, loaded, freed, scr, wins, windows, left>>
          /\ UNCHANGED <<plugin, active, initial, file, ready, changes>>
      BY <1>4 DEF StartUpdate, stack, objects
    <3>2. pop' \in Seq(Names) /\ pc' \in Points /\ dirty' \in BOOLEAN /\ asked' \in Seq(Names)
      BY <1>4, <2>4, EmptySeq DEF Points, StartUpdate
    <3>3. QED
      BY <2>2, <2>3, <3>1, <3>2
<1>5. CASE PopOne
  <2>1. /\ plugins' \in Seq(Names) /\ Head(plugins) \in Names /\ map' \in SUBSET Names
        /\ freed' \in SUBSET Names /\ scr' \in SUBSET Names
        /\ windows' = windows /\ left' = left
        /\ wins' \in [Names -> SUBSET Windows]
    BY <1>5, PopFacts DEF PopOne, Mirrored
  <2>2. pop' \in Seq(Names)
    BY <1>5, <2>1, AppendSeq DEF PopOne
  <2>3. plugin' \in Seq(Names)
    <3>1. Len(plugin) > 0
      BY <1>5, <1>2 DEF PopOne, Running
    <3>2. QED
      BY <1>5, <3>1, FrontFacts DEF PopOne
  <2>4. nPop' \in Nat
    BY <1>5 DEF PopOne
  <2>5. QED
    BY <1>5, <2>1, <2>2, <2>3, <2>4 DEF PopOne, options
<1>6. CASE PopsDone \/ LoadFails \/ PushesDone \/ InitScreensDone \/ Started \/ ShutdownDone
  <2>1. next' \in Seq(Names)
    <3>1. CASE LoadFails
      BY <3>1, TailSeq DEF LoadFails
    <3>2. CASE ~ LoadFails
      BY <1>6, <3>2 DEF PopsDone, PushesDone, InitScreensDone, Started, ShutdownDone, update
    <3>3. QED
      BY <3>1, <3>2
  <2>2. QED
    BY <1>6, <2>1 DEF PopsDone, LoadFails, PushesDone, InitScreensDone, Started, ShutdownDone,
                      update, stack, objects, options, Points
<1>7. CASE LoadOne
  <2>1. Head(next) \in Names
    BY <1>7, TailSeq DEF LoadOne
  <2>2. loaded' \in [Names -> Nat] /\ pc' \in Points
    BY SMTT(30), <1>7, <2>1 DEF LoadOne, Points
  <2>3. /\ UNCHANGED <<plugins, map, freed, scr, wins, windows, left, plugin>>
        /\ UNCHANGED <<active, dirty, asked, initial, file>>
        /\ UNCHANGED <<ready, want, next, nPop, pop, changes>>
    BY <1>7 DEF LoadOne, objects, options, update
  <2>4. QED
    BY <2>2, <2>3
<1>8. CASE PushOne
  <2>1. /\ Head(next) \in Names /\ next' \in Seq(Names) /\ pop' \in Seq(Names) /\ pc' = "push"
    BY <1>8, TakeFacts DEF PushOne
  <2>2. /\ plugins' \in Seq(Names) /\ map' \in SUBSET Names /\ scr' \in SUBSET Names
        /\ wins' \in [Names -> SUBSET Windows] /\ windows' = windows /\ left' = left
        /\ LoadsConfig(Head(next)) \/ UNCHANGED options
    <3>1. map = Range(plugins) /\ IsInjective(plugins) /\ Push(Head(next))
      BY <1>8 DEF PushOne, Mirrored
    <3>2. /\ plugins' \in Seq(Names) /\ map' = map \cup {Head(next)}
          /\ scr' = (IF ready THEN scr \cup {Head(next)} ELSE scr)
          /\ wins' = [wins EXCEPT ![Head(next)] = IF ready THEN windows ELSE @]
          /\ windows' = windows /\ left' = left
          /\ LoadsConfig(Head(next)) \/ UNCHANGED options
      BY <2>1, <3>1, PushFacts
    <3>3. QED
      BY <2>1, <3>2
  <2>3. /\ active' \in Seq(Names) /\ dirty' \in BOOLEAN /\ asked' \in Seq(Names)
        /\ initial' = initial
    BY <2>1, <2>2, OptionTypes
  <2>4. plugin' \in Seq(Names)
    BY <1>8, <2>1, AppendSeq DEF PushOne
  <2>5. QED
    BY <1>8, <2>1, <2>2, <2>3, <2>4 DEF PushOne, Points
<1>9. CASE PushOneFails
  <2>1. /\ Head(next) \in Names /\ next' \in Seq(Names) /\ pop' \in Seq(Names) /\ pc' = "push"
        /\ pc \in {"push", "loaded"}
        /\ pc = "push" => Head(next) \in Range(pop)
    BY <1>9, TakeFacts DEF PushOneFails
  <2>2. loaded[Head(next)] > 0
    <3>1. CASE pc = "push"
      BY <2>1, <3>1, ObjectExists
    <3>2. CASE pc = "loaded"
      <4>1. loaded[Head(next)] = (IF Head(next) \in map THEN 1 ELSE 0)
                 + (IF Head(next) \in Range(pop) THEN 1 ELSE 0) + 1
        BY <2>1, <3>2 DEF Objects
      <4>2. QED
        BY <4>1
    <3>3. QED
      BY <2>1, <3>1, <3>2
  <2>3. loaded' \in [Names -> Nat]
    BY SMTT(30), <1>9, <2>1, <2>2 DEF PushOneFails, Unload
  <2>4. /\ UNCHANGED <<plugins, map, plugin, scr, wins, windows, active, dirty, asked, initial>>
        /\ freed' \in SUBSET Names /\ left' \in [Names -> SUBSET (Windows \cup {"screen"})]
    BY <1>9, <2>1, FailFacts DEF PushOneFails
  <2>5. QED
    BY <1>9, <2>1, <2>3, <2>4 DEF PushOneFails, Points
<1>10. CASE EndUpdate
  <2>1. \A n \in Range(pop) : n \in Names /\ loaded[n] > 0
    BY RangeOfSeq, ObjectExists
  <2>2. loaded' \in [Names -> Nat]
    BY <1>10, <2>1 DEF EndUpdate
  <2>3. /\ active' \in Seq(Names) /\ dirty' \in BOOLEAN /\ asked' \in Seq(Names)
        /\ initial' = initial
    BY <1>10 DEF EndUpdate, SetActive, options
  <2>4. QED
    BY <1>10, <2>2, <2>3 DEF EndUpdate, objects, Points
<1>11. CASE ScreenInit
  <2>1. Reverse(plugins) \in Seq(Names)
    <3>1. Len(plugins) \in Nat /\ \A i \in 1..Len(plugins) : plugins[Len(plugins) - i + 1] \in Names
      BY LenProperties, ElementOfSeq
    <3>2. QED
      BY <3>1, IsASeq DEF Reverse
  <2>2. QED
    BY <1>11, <2>1 DEF ScreenInit, stack, objects, options, Points
<1>12. CASE InitScreen
  <2>1. Head(next) \in Names /\ next' \in Seq(Names)
    BY <1>12, TailSeq DEF InitScreen
  <2>2. scr' \in SUBSET Names
    BY <1>12, <2>1 DEF InitScreen
  <2>3. LoadsConfig(Head(next)) \/ UNCHANGED options
    BY <1>12 DEF InitScreen
  <2>4. /\ active' \in Seq(Names) /\ dirty' \in BOOLEAN /\ asked' \in Seq(Names)
        /\ initial' = initial
    BY <2>1, <2>3, OptionTypes
  <2>5. QED
    BY <1>12, <2>1, <2>2, <2>4 DEF InitScreen, stack
<1>13. CASE Shutdown
  BY <1>13 DEF Shutdown, stack, options, update, Points
<1>14. CASE ShutdownPop
  <2>1. /\ plugins' \in Seq(Names) /\ Head(plugins) \in Names /\ Head(plugins) \in map
        /\ map' \in SUBSET Names
        /\ freed' \in SUBSET Names /\ scr' \in SUBSET Names
        /\ windows' = windows /\ left' = left
        /\ wins' \in [Names -> SUBSET Windows]
    BY <1>14, PopFacts DEF ShutdownPop, Mirrored
  <2>2. loaded[Head(plugins)] > 0
    BY <2>1, ObjectExists
  <2>3. loaded' \in [Names -> Nat]
    BY SMTT(30), <1>14, <2>1, <2>2 DEF ShutdownPop, Unload
  <2>4. QED
    BY <1>14, <2>1, <2>3 DEF ShutdownPop, options, update
<1>15. CASE Calls
  <2>1. changes' \in 0..MaxChanges
    BY <1>15, <1>1 DEF Calls, AddWindow, DeleteWindow, SetOption, EditFile, Change
  <2>2. CASE \E w \in Windows : AddWindow(w) \/ DeleteWindow(w)
    <3>1. PICK w \in Windows : AddWindow(w) \/ DeleteWindow(w)
      BY <2>2
    <3>2. /\ UNCHANGED <<plugins, map, loaded, freed, scr, plugin, active, dirty, asked, initial>>
          /\ UNCHANGED <<file, ready, pc, want, next, nPop, pop>>
      BY <3>1 DEF AddWindow, DeleteWindow, stack, options, update
    <3>3. windows' \in SUBSET Windows
      BY <3>1 DEF AddWindow, DeleteWindow
    <3>4. wins' \in [Names -> SUBSET Windows]
      BY <3>1 DEF AddWindow, DeleteWindow
    <3>5. left' \in [Names -> SUBSET (Windows \cup {"screen"})]
      BY <3>1 DEF AddWindow, DeleteWindow
    <3>6. QED
      BY <2>1, <3>2, <3>3, <3>4, <3>5
  <2>3. CASE \E l \in Lists : SetOption(l) \/ EditFile(l)
    BY <2>1, <2>3, <1>1 DEF SetOption, EditFile, Ask, SetActive, stack, objects, options, update
  <2>4. QED
    BY <1>15, <2>2, <2>3 DEF Calls
<1>16. CASE Aborts
  BY <1>16, AbortFacts DEF Points
<1>17. QED
  BY <1>3, <1>4, <1>5, <1>6, <1>7, <1>8, <1>9, <1>10, <1>11, <1>12, <1>13, <1>14, <1>15, <1>16,
     NextCases
  DEF Update, Turns, Screen

\* Before the screen, with it, and while the stack is taken down
LEMMA PhaseStep ==
    ASSUME TypeOK, Phases, [Next]_vars
    PROVE  Phases'
<1> USE DEF Phases
<1>1. CASE UNCHANGED vars
  BY <1>1 DEF vars, objects
<1>2. CASE Update
  <2>1. CASE StartUpdate \/ PopOne \/ PopsDone \/ LoadOne \/ LoadFails \/ PushesDone
    BY <2>1 DEF StartUpdate, PopOne, Pop, FiniPlugin, PopsDone, LoadOne, LoadFails, PushesDone,
                objects
  <2>2. CASE PushOne
    BY <2>2 DEF PushOne, Push, InitPlugin, Take
  <2>3. CASE PushOneFails
    BY <2>3 DEF PushOneFails, PushFails, InitPluginFails, Take, objects
  <2>4. CASE EndUpdate
    BY <2>4 DEF EndUpdate, objects
  <2>5. QED
    BY <1>2, <2>1, <2>2, <2>3, <2>4 DEF Update, Turns
<1>3. CASE Screen
  BY <1>3 DEF Screen, ScreenInit, InitScreen, InitScreensDone, Started, Shutdown, ShutdownPop,
              Pop, FiniPlugin, ShutdownDone, objects
<1>4. CASE Calls
  BY <1>4 DEF Calls, AddWindow, DeleteWindow, SetOption, EditFile, Change, objects
<1>5. CASE Aborts
  BY <1>5, AbortFacts
<1>6. QED
  BY <1>1, <1>2, <1>3, <1>4, <1>5, NextCases

\* The stack, the map and the list: what is pushed or popped on one side is
\* appended or cut off on the other.
LEMMA MirrorStep ==
    ASSUME TypeOK, Mirrored, Planned, Popped, [Next]_vars
    PROVE  Mirrored'
<1>1. /\ map = Range(plugins) /\ IsInjective(plugins) /\ map \subseteq Loadable
      /\ plugins \in Seq(Names) /\ plugin \in Seq(Names)
  BY DEF Mirrored, TypeOK
<1>2. Running => /\ Len(plugin) = Len(plugins)
                 /\ \A i \in 1..Len(plugin) : plugin[i] = plugins[Len(plugins) + 1 - i]
                 /\ Len(plugin) > 0 /\ plugin[1] = Core
  BY DEF Mirrored
<1>3. Len(plugin) \in Nat /\ Len(plugins) \in Nat
  BY <1>1, LenProperties
<1>4. CASE UNCHANGED <<plugins, map, plugin>> /\ (Running' => Running)
  BY <1>4 DEF Mirrored
<1>5. CASE PopOne
  <2>1. Running /\ Len(plugin) > 1
    <3>1. Len(plugin) = nPop + Done /\ nPop > 0 /\ nPop \in Nat /\ Done \in 1..Len(want)
      BY <1>5 DEF PopOne, Planned, Updating, TypeOK
    <3>2. QED
      BY <1>5, <1>3, <3>1 DEF PopOne, Running
  <2>2. /\ plugin' = Front(plugin) /\ Len(plugin') = Len(plugin) - 1
        /\ \A i \in 1..Len(plugin) - 1 : plugin'[i] = plugin[i]
    BY <1>5, <1>1, <2>1, FrontFacts DEF PopOne
  <2>3. /\ Len(plugins') = Len(plugins) - 1
        /\ \A i \in 1..Len(plugins') : plugins'[i] = plugins[i + 1]
        /\ map' \subseteq map /\ map' = Range(plugins') /\ IsInjective(plugins')
    BY <1>5, <1>1, PopFacts DEF PopOne
  <2>4. ASSUME NEW i \in 1..Len(plugin')
        PROVE  plugin'[i] = plugins'[Len(plugins') + 1 - i]
    <3>1. i \in 1..Len(plugin) /\ i \in 1..Len(plugin) - 1
          /\ Len(plugins') + 1 - i \in 1..Len(plugins') /\ Len(plugin) = Len(plugins)
      BY <1>2, <1>3, <2>1, <2>2, <2>3
    <3>2. plugins'[Len(plugins') + 1 - i] = plugins[Len(plugins') + 1 - i + 1]
      BY <2>3, <3>1
    <3>3. Len(plugins') + 1 - i + 1 = Len(plugins) + 1 - i
      BY <1>3, <2>3, <3>1
    <3>4. QED
      BY <1>2, <2>1, <2>2, <3>1, <3>2, <3>3
  <2>5. Len(plugin') > 0 /\ plugin'[1] = Core /\ Len(plugin') = Len(plugins')
    BY <1>2, <1>3, <2>1, <2>2, <2>3
  <2>6. QED
    BY <1>1, <2>3, <2>4, <2>5 DEF Mirrored
<1>6. CASE PushOne
  <2> DEFINE n == Head(next)
  <2>1. next # <<>> /\ Take(n) /\ Push(n) /\ plugin' = Append(plugin, n)
    BY <1>6 DEF PushOne
  <2>2. /\ n \in Names
        /\ pc \in {"push", "loaded"}
        /\ pc = "push" => n \in Range(pop)
        /\ pc = "loaded" => n \in Loadable \ Range(pop)
    BY <2>1, TakeFacts
  <2>3. Running /\ n \in Loadable
    BY <2>2 DEF Running, Popped
  <2> HIDE DEF n
  <2>4. /\ Len(plugins') = Len(plugins) + 1 /\ plugins'[1] = n
        /\ \A i \in 1..Len(plugins) : plugins'[i + 1] = plugins[i]
        /\ map' = map \cup {n} /\ map' = Range(plugins') /\ IsInjective(plugins')
    BY <1>1, <2>1, <2>2, PushFacts
  <2>5. /\ Len(plugin') = Len(plugin) + 1 /\ plugin'[Len(plugin) + 1] = n
        /\ \A i \in 1..Len(plugin) : plugin'[i] = plugin[i]
    BY <1>1, <2>1, <2>2, AppendSeq
  <2>6. ASSUME NEW i \in 1..Len(plugin')
        PROVE  plugin'[i] = plugins'[Len(plugins') + 1 - i]
    <3>1. CASE i = Len(plugin) + 1
      <4>1. Len(plugins') + 1 - i = 1
        BY <1>2, <1>3, <2>3, <2>4, <3>1
      <4>2. QED
        BY <2>4, <2>5, <3>1, <4>1
    <3>2. CASE i \in 1..Len(plugin)
      <4>1. /\ Len(plugins) + 1 - i \in 1..Len(plugins)
            /\ Len(plugins') + 1 - i = Len(plugins) + 1 - i + 1
        BY <1>2, <1>3, <2>3, <2>4, <3>2
      <4>2. plugins'[Len(plugins') + 1 - i] = plugins[Len(plugins) + 1 - i]
        BY <2>4, <4>1
      <4>3. QED
        BY <1>2, <2>3, <2>5, <3>2, <4>2
    <3>3. QED
      BY <1>3, <2>5, <3>1, <3>2
  <2>7. Len(plugin') > 0 /\ plugin'[1] = Core /\ Len(plugin') = Len(plugins')
    BY <1>2, <1>3, <2>3, <2>4, <2>5
  <2>8. QED
    BY <1>1, <2>3, <2>4, <2>6, <2>7 DEF Mirrored
<1>7. CASE ShutdownPop
  <2>1. map' \subseteq map /\ map' = Range(plugins') /\ IsInjective(plugins')
    BY <1>7, <1>1, PopFacts DEF ShutdownPop
  <2>2. ~ Running'
    BY <1>7 DEF ShutdownPop, Running
  <2>3. QED
    BY <1>1, <2>1, <2>2 DEF Mirrored
<1>8. CASE UNCHANGED vars
  BY <1>4, <1>8 DEF vars, stack, Running
<1>9. CASE Update /\ ~ PopOne /\ ~ PushOne
  <2>1. UNCHANGED <<plugins, map, plugin>>
    BY <1>9 DEF Update, Turns, StartUpdate, PopsDone, LoadOne, LoadFails, PushOneFails,
       PushFails,
                PushesDone, EndUpdate, stack
  <2>2. pc \in {"boot", "start", "idle", "pop", "push", "loaded", "unload"}
    BY <1>9 DEF Update, Turns, StartUpdate, PopsDone, LoadOne, LoadFails, PushOneFails, Take,
                PushesDone, EndUpdate
  <2>3. QED
    BY <1>4, <2>1, <2>2 DEF Running
<1>10. CASE Screen /\ ~ ShutdownPop
  BY <1>4, <1>10 DEF Screen, ScreenInit, InitScreen, InitScreensDone, Started, Shutdown,
                    ShutdownDone, stack, Running
<1>11. CASE Calls
  BY <1>4, <1>11 DEF Calls, AddWindow, DeleteWindow, SetOption, EditFile, stack, Running
<1>12. CASE Aborts
  BY <1>4, <1>12, AbortFacts DEF Running
<1>13. QED
  BY <1>5, <1>6, <1>7, <1>8, <1>9, <1>10, <1>11, <1>12, NextCases DEF Update, Turns, Screen

\* A popped plugin is not active, one that is pushed is not among the popped.
LEMMA PopStep ==
    ASSUME TypeOK, Mirrored, Planned, Popped, [Next]_vars
    PROVE  Popped'
<1>1. /\ map = Range(plugins) /\ IsInjective(plugins) /\ map \subseteq Loadable
      /\ Range(pop) \cap map = {} /\ Range(pop) \subseteq Loadable /\ pop \in Seq(Names)
  BY DEF Mirrored, TypeOK, Popped
<1>2. CASE map' = map /\ (pop' = pop \/ pop' = <<>>)
  <2>1. Range(<<>>) = {}
    BY DEF Range
  <2>2. QED
    BY <1>2, <1>1, <2>1 DEF Popped
<1>3. CASE PopOne
  <2>1. /\ Head(plugins) \in map /\ Head(plugins) \in Names /\ map' = map \ {Head(plugins)}
    BY <1>3, <1>1, PopFacts DEF PopOne
  <2>2. Range(pop') = Range(pop) \cup {Head(plugins)}
    BY <1>3, <1>1, <2>1, AppendSeq DEF PopOne
  <2>3. QED
    BY <1>1, <2>1, <2>2 DEF Popped
<1>4. CASE PushOne \/ PushOneFails
  <2>1. next # <<>> /\ Take(Head(next))
    BY <1>4 DEF PushOne, PushOneFails
  <2>2. Range(pop') = Range(pop) \ {Head(next)}
    BY <2>1, TakeFacts
  <2>3. map' = map \/ map' = map \cup {Head(next)}
    BY <1>4 DEF PushOne, Push, PushOneFails, PushFails
  <2>4. QED
    BY <1>1, <2>2, <2>3 DEF Popped
<1>5. CASE ShutdownPop
  <2>1. map' \subseteq map /\ pop' = pop
    BY <1>5, <1>1, PopFacts DEF ShutdownPop, update
  <2>2. QED
    BY <1>1, <2>1 DEF Popped
<1>6. CASE UNCHANGED vars
  BY <1>2, <1>6 DEF vars, stack, update
<1>7. CASE Update /\ ~ PopOne /\ ~ PushOne /\ ~ PushOneFails
  BY <1>2, <1>7 DEF Update, Turns, StartUpdate, PopsDone, LoadOne, LoadFails,
     PushesDone, EndUpdate,
                    stack, update
<1>8. CASE Screen /\ ~ ShutdownPop
  BY <1>2, <1>8 DEF Screen, ScreenInit, InitScreen, InitScreensDone, Started, Shutdown,
                    ShutdownDone, stack, update
<1>9. CASE Calls
  BY <1>2, <1>9 DEF Calls, AddWindow, DeleteWindow, SetOption, EditFile, stack, update
<1>10. CASE Aborts
  BY <1>2, <1>10, AbortFacts
<1>11. QED
  BY <1>3, <1>4, <1>5, <1>6, <1>7, <1>8, <1>9, <1>10, NextCases DEF Update, Turns, Screen

\* What a plugin needs stays below it.
LEMMA NeedsStep ==
    ASSUME TypeOK, Mirrored, Planned, DependenciesBelow, [Next]_vars
    PROVE  DependenciesBelow'
<1>1. map = Range(plugins) /\ IsInjective(plugins) /\ Len(plugins) \in Nat
  BY LenProperties DEF Mirrored, TypeOK
<1>2. CASE UNCHANGED plugins
  BY <1>2 DEF DependenciesBelow
<1>3. CASE Pop
  <2>1. /\ Len(plugins) \in Nat \ {0} /\ Len(plugins') = Len(plugins) - 1
        /\ \A i \in 1..Len(plugins') : plugins'[i] = plugins[i + 1]
    BY <1>3, <1>1, PopFacts
  <2>2. ASSUME NEW i \in 1..Len(plugins')
        PROVE  Needs[plugins'[i]] \subseteq {plugins'[j] : j \in i..Len(plugins')}
    <3>1. i + 1 \in 1..Len(plugins) /\ plugins'[i] = plugins[i + 1]
      BY <2>1
    <3>2. Needs[plugins[i + 1]] \subseteq {plugins[j] : j \in i + 1..Len(plugins)}
      BY <3>1 DEF DependenciesBelow
    <3>3. ASSUME NEW j \in i + 1..Len(plugins)
          PROVE  plugins[j] \in {plugins'[k] : k \in i..Len(plugins')}
      <4>1. j - 1 \in i..Len(plugins') /\ j - 1 \in 1..Len(plugins') /\ j - 1 + 1 = j
        BY <2>1
      <4>2. plugins'[j - 1] = plugins[j]
        BY <2>1, <4>1
      <4>3. QED
        BY <4>1, <4>2
    <3> DEFINE A == {plugins[j] : j \in i + 1..Len(plugins)}
               B == {plugins'[j] : j \in i..Len(plugins')}
    <3>4. A \subseteq B
      BY <3>3
    <3>5. Needs[plugins'[i]] \subseteq A
      BY <3>1, <3>2
    <3> HIDE DEF A
    <3>6. QED
      BY <3>4, <3>5
  <2>3. QED
    BY <2>2 DEF DependenciesBelow
<1>4. CASE PushOne
  <2> DEFINE n == Head(next)
  <2>1. next # <<>> /\ Take(n) /\ Push(n)
    BY <1>4 DEF PushOne
  <2>2. n \in Names
    BY <2>1, TakeFacts
  <2> HIDE DEF n
  <2>3. /\ Needs[n] \subseteq map \cup {n} /\ plugins' \in Seq(Names)
        /\ Len(plugins') = Len(plugins) + 1 /\ plugins'[1] = n
        /\ \A i \in 1..Len(plugins) : plugins'[i + 1] = plugins[i]
        /\ map' = map \cup {n} /\ map' = Range(plugins')
    BY <1>1, <2>1, <2>2, PushFacts
  <2>4. ASSUME NEW i \in 1..Len(plugins')
        PROVE  Needs[plugins'[i]] \subseteq {plugins'[j] : j \in i..Len(plugins')}
    <3>1. CASE i = 1
      <4>1. Range(plugins') = {plugins'[j] : j \in 1..Len(plugins')}
        BY <2>3, RangeEquality
      <4>2. QED
        BY <2>3, <3>1, <4>1
    <3>2. CASE i # 1
      <4>1. i - 1 \in 1..Len(plugins) /\ i - 1 + 1 = i
        BY <1>1, <2>3, <3>2
      <4>2. plugins'[i] = plugins[i - 1]
        BY <2>3, <4>1
      <4>3. Needs[plugins[i - 1]] \subseteq {plugins[j] : j \in i - 1..Len(plugins)}
        BY <4>1 DEF DependenciesBelow
      <4>4. ASSUME NEW j \in i - 1..Len(plugins)
            PROVE  plugins[j] \in {plugins'[k] : k \in i..Len(plugins')}
        <5>1. j + 1 \in i..Len(plugins') /\ j \in 1..Len(plugins)
          BY <1>1, <2>3, <4>1
        <5>2. plugins'[j + 1] = plugins[j]
          BY <2>3, <5>1
        <5>3. QED
          BY <5>1, <5>2
      <4>5. QED
        BY <4>2, <4>3, <4>4
    <3>3. QED
      BY <3>1, <3>2
  <2>5. QED
    BY <2>4 DEF DependenciesBelow
<1>5. CASE UNCHANGED vars
  BY <1>2, <1>5 DEF vars, stack
<1>6. CASE Update /\ ~ PopOne /\ ~ PushOne
  BY <1>2, <1>6 DEF Update, Turns, StartUpdate, PopsDone, LoadOne, LoadFails,
     PushOneFails, PushFails,
                    PushesDone, EndUpdate, stack
<1>7. CASE Screen /\ ~ ShutdownPop
  BY <1>2, <1>7 DEF Screen, ScreenInit, InitScreen, InitScreensDone, Started, Shutdown,
                    ShutdownDone, stack
<1>8. CASE Calls
  BY <1>2, <1>8 DEF Calls, AddWindow, DeleteWindow, SetOption, EditFile, stack
<1>9. CASE Aborts
  BY <1>2, <1>9, AbortFacts
<1>10. QED
  BY <1>3, <1>4, <1>5, <1>6, <1>7, <1>8, <1>9, NextCases
  DEF Update, Turns, Screen, PopOne, ShutdownPop

\* The rest of the wanted list and what of the old one remains to be popped
LEMMA PlanStep ==
    ASSUME TypeOK, Mirrored, Planned, Popped, [Next]_vars
    PROVE  Planned'
<1>1. /\ next \in Seq(Names) /\ want \in Seq(Names) /\ Len(next) \in Nat /\ Len(want) \in Nat
      /\ plugin \in Seq(Names) /\ Len(plugin) \in Nat /\ nPop \in Nat
  BY LenProperties DEF TypeOK
<1>2. Running => Len(plugin) > 0 /\ plugin[1] = Core
  BY DEF Mirrored
<1>3. /\ Updating => /\ Done \in 1..Len(want) /\ want[1] = Core
                     /\ \A j \in 1..Len(next) : next[j] = want[Done + j]
      /\ pc = "pop" => /\ Len(plugin) = nPop + Done
                       /\ \A i \in 1..Done : plugin[i] = want[i]
      /\ pc \in {"push", "loaded", "unload"} =>
            \A i \in 1..Len(plugin) : \E j \in 1..Done : plugin[i] = want[j]
      /\ pc = "loaded" => next # <<>> /\ Head(next) \in Loadable \ Range(pop)
      /\ pc = "unload" => next = <<>>
      /\ ~ Updating /\ pc # "aborted" => pop = <<>>
  BY DEF Planned
<1>4. CASE StartUpdate
  <2>1. Len(plugin) > 0 /\ plugin[1] = Core
    BY <1>4, <1>2 DEF StartUpdate, Running
  <2>2. /\ want'[1] = Core /\ Done' \in 1..Len(want') /\ Len(want') \in Nat
        /\ \A j \in 1..Len(next') : next'[j] = want'[Done' + j]
        /\ Done' <= Len(plugin) /\ nPop' = Len(plugin) - Done'
        /\ \A i \in 2..Done' : plugin[i] = want'[i]
    BY <1>4, <2>1, StartFacts
  <2>3. plugin' = plugin /\ pc' = "pop"
    BY <1>4 DEF StartUpdate
  <2>4. Len(plugin') = nPop' + Done' /\ \A i \in 1..Done' : plugin'[i] = want'[i]
    BY <1>1, <2>1, <2>2, <2>3
  <2>5. QED
    BY <2>2, <2>3, <2>4 DEF Planned, Updating
<1>5. CASE PopOne
  <2>1. /\ pc = "pop" /\ pc' = "pop" /\ want' = want /\ next' = next /\ nPop' = nPop - 1
        /\ plugin' = Front(plugin) /\ nPop > 0 /\ Done' = Done
    BY <1>5 DEF PopOne, Done
  <2>2. Done \in 1..Len(want) /\ Len(plugin) = nPop + Done
    BY <1>3, <2>1 DEF Updating
  <2>3. Len(plugin') = Len(plugin) - 1 /\ \A i \in 1..Len(plugin) - 1 : plugin'[i] = plugin[i]
    BY <1>1, <1>2, <2>1, FrontFacts DEF Running
  <2>4. Len(plugin') = nPop' + Done' /\ \A i \in 1..Done' : plugin'[i] = want'[i]
    BY <1>1, <1>3, <2>1, <2>2, <2>3
  <2>5. QED
    BY <1>3, <2>1, <2>4 DEF Planned, Updating
<1>6. CASE PopsDone
  <2>1. /\ pc = "pop" /\ pc' = "push" /\ nPop = 0 /\ Done' = Done
        /\ UNCHANGED <<plugin, want, next, pop>>
    BY <1>6 DEF PopsDone, update, Done
  <2>2. \A i \in 1..Len(plugin) : i \in 1..Done /\ plugin[i] = want[i]
    BY <1>1, <1>3, <2>1 DEF Updating
  <2>3. QED
    BY <1>3, <2>1, <2>2 DEF Planned, Updating
<1>7. CASE LoadOne
  <2>1. /\ pc = "push" /\ pc' = "loaded" /\ Done' = Done
        /\ UNCHANGED <<plugin, want, next, pop>>
        /\ next # <<>> /\ Head(next) \in Loadable \ Range(pop)
    BY <1>7 DEF LoadOne, update, Done
  <2>2. QED
    BY <1>3, <2>1 DEF Planned, Updating
<1>8. CASE LoadFails \/ PushOne \/ PushOneFails
  <2>1. /\ pc \in {"push", "loaded"} /\ pc' = "push" /\ want' = want /\ next # <<>>
        /\ next' = Tail(next)
        /\ plugin' = plugin \/ plugin' = Append(plugin, Head(next))
    BY <1>8 DEF LoadFails, PushOne, PushOneFails, PushFails, Take
  <2>2. /\ Len(next) \in Nat \ {0} /\ Head(next) = next[1] /\ Head(next) \in Names
        /\ Len(next') = Len(next) - 1
        /\ \A i \in 1..Len(next) - 1 : next'[i] = next[i + 1]
    BY <1>1, <2>1, TailSeq
  <2>3. Done \in 1..Len(want) /\ want[1] = Core /\ Done' = Done + 1 /\ Done' \in 1..Len(want)
    BY <1>1, <1>3, <2>1, <2>2 DEF Updating, Done
  <2>4. ASSUME NEW j \in 1..Len(next') PROVE next'[j] = want'[Done' + j]
    <3>1. j \in 1..Len(next) - 1 /\ j + 1 \in 1..Len(next) /\ Done' + j = Done + (j + 1)
      BY <1>1, <2>2, <2>3
    <3>2. next[j + 1] = want[Done + (j + 1)]
      BY <1>3, <2>1, <3>1 DEF Updating
    <3>3. QED
      BY <2>1, <2>2, <3>1, <3>2
  <2>5. Head(next) = want[Done']
    <3>1. 1 \in 1..Len(next)
      BY <2>2
    <3>2. next[1] = want[Done + 1]
      BY <1>3, <2>1, <3>1 DEF Updating
    <3>3. QED
      BY <2>2, <2>3, <3>2
  <2>6. ASSUME NEW i \in 1..Len(plugin') PROVE \E j \in 1..Done' : plugin'[i] = want'[j]
    <3>1. /\ Len(plugin') \in {Len(plugin), Len(plugin) + 1}
          /\ \A k \in 1..Len(plugin) : plugin'[k] = plugin[k]
          /\ Len(plugin') = Len(plugin) + 1 => plugin'[Len(plugin) + 1] = Head(next)
      <4>1. CASE plugin' = plugin
        BY <1>1, <4>1
      <4>2. CASE plugin' = Append(plugin, Head(next))
        BY <1>1, <2>2, <4>2, AppendSeq
      <4>3. QED
        BY <2>1, <4>1, <4>2
    <3>2. CASE i \in 1..Len(plugin)
      <4>1. PICK j \in 1..Done : plugin[i] = want[j]
        BY <1>3, <2>1, <3>2
      <4>2. j \in 1..Done'
        BY <2>3
      <4>3. QED
        BY <2>1, <3>1, <3>2, <4>1, <4>2
    <3>3. CASE i \notin 1..Len(plugin)
      <4>1. i = Len(plugin) + 1 /\ Len(plugin') = Len(plugin) + 1
        BY <1>1, <3>1, <3>3
      <4>2. plugin'[i] = want'[Done'] /\ Done' \in 1..Done'
        BY <2>1, <2>3, <2>5, <3>1, <4>1
      <4>3. QED
        BY <4>2
    <3>4. QED
      BY <3>2, <3>3
  <2>7. QED
    BY <2>1, <2>3, <2>4, <2>6 DEF Planned, Updating
<1>9. CASE PushesDone
  <2>1. /\ pc = "push" /\ pc' = "unload" /\ next = <<>> /\ Done' = Done
        /\ UNCHANGED <<plugin, want, next, pop>>
    BY <1>9 DEF PushesDone, update, Done
  <2>2. QED
    BY <1>3, <2>1 DEF Planned, Updating
<1>10. CASE EndUpdate
  BY <1>10 DEF EndUpdate, Planned, Updating
<1>11. CASE ~ Updating /\ pc # "aborted" /\ ~ Updating' /\ pop' = pop
  BY <1>11, <1>3 DEF Planned, Updating
<1>12. CASE UNCHANGED vars
  <2>1. UNCHANGED <<pc, want, next, nPop, pop, plugin>> /\ Done' = Done
    BY <1>12 DEF vars, update, Done
  <2>2. QED
    BY <1>3, <2>1 DEF Planned, Updating
<1>13. CASE Screen
  BY <1>11, <1>13 DEF Screen, ScreenInit, InitScreen, InitScreensDone, Started, Shutdown,
                     ShutdownPop, ShutdownDone, update, Updating
<1>14. CASE Calls
  BY <1>11, <1>14 DEF Calls, AddWindow, DeleteWindow, SetOption, EditFile, Change,
     update, Updating
<1>15. CASE Aborts
  BY <1>15, AbortFacts DEF Planned, Updating
<1>16. QED
  BY <1>4, <1>5, <1>6, <1>7, <1>8, <1>9, <1>10, <1>12, <1>13, <1>14, <1>15, NextCases
  DEF Update, Turns

\* One object for a name in the map, one for a popped name, one just loaded
Held(n, m, p, l) == (IF n \in m THEN 1 ELSE 0) + (IF n \in p THEN 1 ELSE 0)
                        + (IF l THEN 1 ELSE 0)

\* Plugin objects are those of the plugins that are loaded, after every step too.
LEMMA ObjectsStep ==
    ASSUME TypeOK, Mirrored, Planned, Popped, Objects, [Next]_vars
    PROVE  Objects'
<1> DEFINE Fresh(n) == pc = "loaded" /\ n = Head(next)
           P == Range(pop)
<1>1. /\ map = Range(plugins) /\ IsInjective(plugins) /\ P \cap map = {}
      /\ map \subseteq Names /\ loaded \in [Names -> Nat] /\ pop \in Seq(Names)
      /\ P \subseteq Names
  BY RangeOfSeq DEF Mirrored, TypeOK, Popped
<1>2. ASSUME NEW n \in Names PROVE loaded[n] = Held(n, map, P, Fresh(n))
  BY DEF Objects, Held
<1>3. SUFFICES ASSUME NEW n \in Names
               PROVE  loaded'[n] = Held(n, map', Range(pop'), pc' = "loaded" /\ n = Head(next'))
  BY DEF Objects, Held
<1>4. pc # "loaded" => Held(n, map, P, Fresh(n)) = Held(n, map, P, FALSE)
  BY DEF Held
<1>5. pc = "loaded" => Head(next) \notin P
  BY DEF Planned
<1>6. Range(<<>>) = {}
  BY DEF Range
<1>7. CASE /\ UNCHANGED <<map, loaded>> /\ Range(pop') = P
           /\ pc # "loaded" /\ pc' # "loaded"
  BY <1>7, <1>2, <1>4 DEF Held
<1>8. CASE StartUpdate
  <2>1. P = {}
    BY <1>8, <1>6 DEF StartUpdate, Planned, Updating
  <2>2. QED
    BY <1>7, <1>8, <1>6, <2>1 DEF StartUpdate, stack
<1>9. CASE PopOne
  <2>1. /\ Head(plugins) \in map /\ map' = map \ {Head(plugins)}
    BY <1>9, <1>1, PopFacts DEF PopOne
  <2>2. /\ Range(pop') = P \cup {Head(plugins)} /\ loaded' = loaded /\ pc = "pop" /\ pc' = "pop"
    BY <1>9, <1>1, <2>1, AppendSeq DEF PopOne
  <2>3. Head(plugins) \notin P
    BY <1>1, <2>1
  <2>4. QED
    BY <1>1, <1>2, <1>4, <2>1, <2>2, <2>3 DEF Held
<1>10. CASE LoadOne
  <2>1. /\ Head(next) \in Names
        /\ loaded' = [loaded EXCEPT ![Head(next)] = @ + 1] /\ map' = map
        /\ Range(pop') = P /\ next' = next /\ pc = "push" /\ pc' = "loaded"
    BY <1>10, TailSeq DEF LoadOne, update, TypeOK
  <2>2. CASE n = Head(next)
    <3>1. loaded'[n] = loaded[n] + 1
      BY <1>1, <2>1, <2>2
    <3>2. Held(n, map, P, TRUE) = Held(n, map, P, FALSE) + 1
      BY DEF Held
    <3>3. QED
      BY <1>2, <1>4, <2>1, <2>2, <3>1, <3>2
  <2>3. CASE n # Head(next)
    <3>1. loaded'[n] = loaded[n]
      BY <1>1, <2>1, <2>3
    <3>2. QED
      BY <1>2, <1>4, <2>1, <2>3, <3>1
  <2>4. QED
    BY <2>2, <2>3
<1>11. CASE PushOne
  <2>1. next # <<>> /\ Take(Head(next)) /\ Push(Head(next)) /\ loaded' = loaded
    BY <1>11 DEF PushOne
  <2>2. /\ Head(next) \in Names /\ Range(pop') = P \ {Head(next)}
        /\ pc \in {"push", "loaded"} /\ pc' = "push"
        /\ pc = "push" => Head(next) \in P
    BY <2>1, TakeFacts
  <2>3. map' = map \cup {Head(next)} /\ Head(next) \notin map
    BY <2>1 DEF Push
  <2>4. CASE n = Head(next)
    <3>1. Held(n, map, P, Fresh(n)) = 1
      BY <1>5, <2>2, <2>3, <2>4 DEF Held
    <3>2. Held(n, map', Range(pop'), FALSE) = 1
      BY <2>2, <2>3, <2>4 DEF Held
    <3>3. QED
      BY <1>2, <2>1, <2>2, <3>1, <3>2 DEF Held
  <2>5. CASE n # Head(next)
    BY <1>2, <2>1, <2>2, <2>3, <2>5 DEF Held
  <2>6. QED
    BY <2>4, <2>5
<1>12. CASE PushOneFails
  <2>1. /\ next # <<>> /\ Take(Head(next)) /\ map' = map
        /\ loaded' = [loaded EXCEPT ![Head(next)] = @ - 1]
    BY <1>12 DEF PushOneFails, PushFails, Unload
  <2>2. /\ Head(next) \in Names /\ Range(pop') = P \ {Head(next)}
        /\ pc \in {"push", "loaded"} /\ pc' = "push"
        /\ pc = "push" => Head(next) \in P
    BY <2>1, TakeFacts
  <2>3. CASE n = Head(next)
    <3>1. loaded'[n] = loaded[n] - 1
      BY <1>1, <2>1, <2>3
    <3>2. Held(n, map, P, Fresh(n)) = Held(n, map, P \ {n}, FALSE) + 1
      <4>1. CASE pc = "push"
        BY <2>2, <2>3, <4>1 DEF Held
      <4>2. CASE pc = "loaded"
        BY <1>5, <2>3, <4>2 DEF Held
      <4>3. QED
        BY <2>2, <4>1, <4>2
    <3>3. Held(n, map, P \ {n}, FALSE) \in Nat
      BY DEF Held
    <3>4. Held(n, map', Range(pop'), pc' = "loaded" /\ n = Head(next')) = Held(n, map, P \ {n}, FALSE)
      BY <2>1, <2>2, <2>3 DEF Held
    <3> DEFINE h == Held(n, map, P \ {n}, FALSE)
    <3>5. loaded[n] = h + 1 /\ h \in Nat
      BY <1>2, <3>2, <3>3
    <3>6. loaded'[n] = h
      <4> HIDE DEF h
      <4>1. QED
        BY <3>1, <3>5
    <3>7. QED
      BY <3>4, <3>6
  <2>4. CASE n # Head(next)
    <3>1. loaded'[n] = loaded[n]
      BY <1>1, <2>1, <2>4
    <3>2. QED
      BY <1>2, <2>1, <2>2, <2>4, <3>1 DEF Held
  <2>5. QED
    BY <2>3, <2>4
<1>13. CASE EndUpdate
  <2>1. /\ loaded'[n] = (IF n \in P THEN loaded[n] - 1 ELSE loaded[n])
        /\ map' = map /\ Range(pop') = {} /\ pc = "unload" /\ pc' # "loaded"
    BY <1>13, <1>6 DEF EndUpdate
  <2>2. QED
    BY <1>1, <1>2, <1>4, <2>1 DEF Held
<1>14. CASE ShutdownPop
  <2>1. /\ Head(plugins) \in map /\ Head(plugins) \in Names /\ map' = map \ {Head(plugins)}
        /\ loaded' = [loaded EXCEPT ![Head(plugins)] = @ - 1]
        /\ Range(pop') = P /\ pc = "shutdown" /\ pc' = "shutdown"
    BY <1>14, <1>1, PopFacts DEF ShutdownPop, Unload, update
  <2>2. CASE n = Head(plugins)
    <3>1. loaded'[n] = loaded[n] - 1 /\ n \notin P
      BY <1>1, <2>1, <2>2
    <3>2. QED
      BY <1>2, <1>4, <2>1, <2>2, <3>1 DEF Held
  <2>3. CASE n # Head(plugins)
    <3>1. loaded'[n] = loaded[n]
      BY <1>1, <2>1, <2>3
    <3>2. QED
      BY <1>2, <1>4, <2>1, <2>3, <3>1 DEF Held
  <2>4. QED
    BY <2>2, <2>3
<1>15. CASE UNCHANGED vars
  <2>1. /\ UNCHANGED <<map, loaded, pc, next>> /\ Range(pop') = P
    BY <1>15 DEF vars, stack, update
  <2>2. QED
    BY <1>2, <2>1
<1>16. CASE PopsDone \/ LoadFails \/ PushesDone
  BY <1>7, <1>16 DEF PopsDone, LoadFails, PushesDone, stack, update
<1>17. CASE Screen /\ ~ ShutdownPop
  BY <1>7, <1>17 DEF Screen, ScreenInit, InitScreen, InitScreensDone, Started, Shutdown,
                     ShutdownDone, stack, update
<1>18. CASE Calls
  BY <1>7, <1>18 DEF Calls, AddWindow, DeleteWindow, SetOption, EditFile, Change, stack, update
<1>19. CASE Aborts
  BY <1>7, <1>19, AbortFacts
<1>20. QED
  BY <1>8, <1>9, <1>10, <1>11, <1>12, <1>13, <1>14, <1>15, <1>16, <1>17, <1>18, <1>19, NextCases
  DEF Update, Turns, Screen

\* What a plugin has on the screen and on windows
LEMMA WindowsStep ==
    ASSUME TypeOK, Mirrored, Planned, Phases, Screens, WindowsCovered, [Next]_vars
    PROVE  WindowsCovered'
<1>1. /\ map = Range(plugins) /\ IsInjective(plugins) /\ scr \subseteq map
      /\ \A n \in Names : wins[n] = IF n \in map THEN windows ELSE {}
      /\ wins \in [Names -> SUBSET Windows]
      /\ ~ ready => windows = {}
  BY DEF Mirrored, WindowsCovered, TypeOK, Phases
<1>2. CASE UNCHANGED <<map, scr, wins, windows>>
  BY <1>2 DEF WindowsCovered
<1>3. CASE Pop
  <2>1. /\ Head(plugins) \in Names /\ map' = map \ {Head(plugins)}
        /\ scr' = scr \ {Head(plugins)} /\ windows' = windows
        /\ wins' = [wins EXCEPT ![Head(plugins)] = {}]
    BY <1>3, <1>1, PopFacts
  <2>2. QED
    BY <1>1, <2>1 DEF WindowsCovered
<1>4. CASE PushOne
  <2> DEFINE n == Head(next)
  <2>1. next # <<>> /\ Take(n) /\ Push(n)
    BY <1>4 DEF PushOne
  <2>2. n \in Names
    BY <2>1, TakeFacts
  <2> HIDE DEF n
  <2>3. /\ n \notin map /\ map' = map \cup {n} /\ windows' = windows
        /\ scr' = (IF ready THEN scr \cup {n} ELSE scr)
        /\ wins' = [wins EXCEPT ![n] = IF ready THEN windows ELSE @]
    BY <1>1, <2>1, <2>2, PushFacts
  <2>4. wins'[n] = windows
    BY <1>1, <2>2, <2>3
  <2>5. \A m \in Names : m # n => wins'[m] = wins[m]
    BY <1>1, <2>3
  <2>6. QED
    BY <1>1, <2>3, <2>4, <2>5 DEF WindowsCovered
<1>5. CASE InitScreen
  <2>1. Head(next) \in map
    <3>1. Range(next) \subseteq map /\ next # <<>> /\ next \in Seq(Names)
      BY <1>5 DEF InitScreen, Screens, TypeOK
    <3>2. Head(next) \in Range(next)
      BY <3>1, TailSeq
    <3>3. QED
      BY <3>1, <3>2
  <2>2. scr' \subseteq map /\ UNCHANGED <<map, wins, windows>>
    BY <1>5, <1>1, <2>1 DEF InitScreen, stack
  <2>3. QED
    BY <1>1, <2>2 DEF WindowsCovered
<1>6. CASE Shutdown \/ (\E w \in Windows : AddWindow(w) \/ DeleteWindow(w))
  BY <1>6, <1>1 DEF Shutdown, AddWindow, DeleteWindow, stack, WindowsCovered
<1>7. CASE UNCHANGED vars
  BY <1>2, <1>7 DEF vars, stack, objects
<1>8. CASE Update /\ ~ PopOne /\ ~ PushOne
  BY <1>2, <1>8 DEF Update, Turns, StartUpdate, PopsDone, LoadOne, LoadFails,
     PushOneFails, PushFails,
                    InitPluginFails, PushesDone, EndUpdate, stack, objects
<1>9. CASE Screen /\ ~ ShutdownPop /\ ~ InitScreen /\ ~ Shutdown
  BY <1>2, <1>9 DEF Screen, ScreenInit, InitScreensDone, Started, ShutdownDone, stack, objects
<1>10. CASE \E l \in Lists : SetOption(l) \/ EditFile(l)
  BY <1>2, <1>10 DEF SetOption, EditFile, stack, objects
<1>11. CASE Aborts
  BY <1>2, <1>11, AbortFacts
<1>12. QED
  BY <1>3, <1>4, <1>5, <1>6, <1>7, <1>8, <1>9, <1>10, <1>11, NextCases
  DEF Update, Turns, Screen, Calls, PopOne, ShutdownPop

\* Nothing changes the names on the command line.
LEMMA InitialKept ==
    ASSUME [Next]_vars
    PROVE  initial' = initial
<1>1. CASE UNCHANGED options
  BY <1>1 DEF options
<1>2. CASE StartUpdate
  BY <1>2 DEF StartUpdate
<1>3. CASE PushOne \/ InitScreen
  BY <1>3 DEF PushOne, Push, InitPlugin, InitScreen, LoadsConfig, Ask, SetActive, options
<1>4. CASE PushOneFails
  BY <1>4 DEF PushOneFails, PushFails, InitPluginFails, options
<1>5. CASE EndUpdate
  BY <1>5 DEF EndUpdate, SetActive, options
<1>6. CASE Calls
  BY <1>6 DEF Calls, AddWindow, DeleteWindow, SetOption, EditFile, Ask, SetActive, options
<1>7. CASE PopOne \/ PopsDone \/ LoadOne \/ LoadFails \/ PushesDone
  BY <1>1, <1>7 DEF PopOne, PopsDone, LoadOne, LoadFails, PushesDone
<1>8. CASE Screen /\ ~ InitScreen
  BY <1>1, <1>8 DEF Screen, ScreenInit, InitScreensDone, Started, Shutdown, ShutdownPop,
                    ShutdownDone
<1>9. QED
  BY <1>1, <1>2, <1>3, <1>4, <1>5, <1>6, <1>7, <1>8, NextCases, AbortFacts
  DEF Update, Turns, Screen, vars

\* Which plugins are active without a screen object
LEMMA ScreensStep ==
    ASSUME TypeOK, Mirrored, Planned, Popped, Phases, WindowsCovered, Screens, ScreenCovered,
           [Next]_vars
    PROVE  Screens' /\ ScreenCovered'
<1> DEFINE R == Range(initial \o Default)
<1>1. /\ map = Range(plugins) /\ IsInjective(plugins) /\ scr \subseteq map
      /\ next \in Seq(Names) /\ plugins \in Seq(Names)
  BY DEF Mirrored, WindowsCovered, TypeOK
<1>2. Early = {Core} \cup R /\ Range(initial) \subseteq R
  <2>1. initial \in Seq(Names) /\ Default \in Seq(Names)
    BY PluginAssumption, InitialSeq DEF AllLists, TypeOK
  <2>2. QED
    BY <2>1, RangeConcatenation DEF Early
<1>3. /\ pc = "boot" => Range(active) \subseteq Early
      /\ ~ ready => map \subseteq Early /\ (Updating => Range(want) \subseteq Early)
      /\ pc = "initScreens" => /\ map \subseteq Early /\ Range(next) \subseteq map
                               /\ map \ scr \subseteq Range(next) \cup Broken
      /\ ready /\ pc # "initScreens" => map \ scr \subseteq Broken \cap R
  BY DEF Screens, ScreenCovered
<1>0. initial' = initial /\ Early' = Early
  BY InitialKept DEF Early
<1> USE <1>0
<1>4. Core \notin Broken
  BY PluginAssumption
<1>5. /\ pc \in {"boot", "created"} => ~ ready
      /\ pc \in {"initScreens", "start", "idle", "shutdown", "done"} => ready
  BY DEF Phases
<1> HIDE DEF R
<1> USE DEF Updating
<1>6. CASE UNCHANGED <<pc, ready, map, scr, active, want, next>>
  BY <1>6 DEF Screens, ScreenCovered
<1>7. CASE StartUpdate
  <2>1. Range(want') \subseteq {Core} \cup Range(initial) \cup Range(active)
    <3>1. Len(plugin) > 0
      BY <1>7 DEF StartUpdate, Mirrored, Running
    <3>2. QED
      BY <1>7, <3>1, StartFacts
  <2>2. pc' = "pop" /\ pc # "initScreens" /\ UNCHANGED <<map, scr, ready>>
        /\ pc \in {"boot", "start", "idle"}
    BY <1>7 DEF StartUpdate, stack, objects
  <2>3. QED
    BY <1>2, <1>3, <1>5, <2>1, <2>2 DEF Screens, ScreenCovered, R
<1>8. CASE PopOne
  <2>1. /\ map' = map \ {Head(plugins)} /\ scr' = scr \ {Head(plugins)}
        /\ pc = "pop" /\ pc' = "pop" /\ ready' = ready /\ want' = want
    BY <1>8, <1>1, PopFacts DEF PopOne
  <2>2. QED
    BY <1>3, <2>1 DEF Screens, ScreenCovered, R
<1>9. CASE PushOne
  <2> DEFINE n == Head(next)
  <2>1. next # <<>> /\ Take(n) /\ Push(n) /\ ready' = ready /\ want' = want
    BY <1>9 DEF PushOne
  <2>2. n \in Names /\ pc \in {"push", "loaded"} /\ pc' = "push" /\ n = next[1]
        /\ Len(next) \in Nat \ {0}
    BY <2>1, TakeFacts
  <2>3. n \in Range(want)
    <3>1. Done \in 1..Len(want) /\ next[1] = want[Done + 1] /\ Len(want) \in Nat
          /\ Len(next) = Len(want) - Done /\ want \in Seq(Names)
      BY SMTT(30), <1>1, <2>2, LenProperties DEF Planned, TypeOK, Done
    <3>2. Done + 1 \in 1..Len(want)
      BY <2>2, <3>1
    <3>3. want[Done + 1] \in Range(want)
      BY <3>1, <3>2, RangeEquality
    <3>4. QED
      BY <2>2, <3>1, <3>3
  <2> HIDE DEF n
  <2>4. /\ map' = map \cup {n} /\ scr' = (IF ready THEN scr \cup {n} ELSE scr)
    BY <1>1, <2>1, <2>2, PushFacts
  <2>5. QED
    BY <1>3, <2>1, <2>2, <2>3, <2>4 DEF Screens, ScreenCovered, R
<1>10. CASE PopsDone \/ LoadOne \/ LoadFails \/ PushOneFails \/ PushesDone \/ EndUpdate
  <2>1. /\ UNCHANGED <<map, scr, ready, want>>
        /\ pc \notin {"boot", "initScreens"} /\ pc' \notin {"boot", "initScreens"}
        /\ Updating
    BY <1>10 DEF PopsDone, LoadOne, LoadFails, PushOneFails, PushFails, Take, InitPluginFails,
                PushesDone, EndUpdate, stack, objects, update
  <2>2. QED
    BY <1>3, <2>1 DEF Screens, ScreenCovered, R
<1>11. CASE ScreenInit
  <2>1. /\ UNCHANGED <<map, scr>> /\ next' = Reverse(plugins)
        /\ pc = "created" /\ pc' = "initScreens"
    BY <1>11 DEF ScreenInit, stack, objects
  <2>2. Range(Reverse(plugins)) = Range(plugins)
    <3>1. Len(plugins) \in Nat /\ DOMAIN plugins = 1..Len(plugins)
      BY <1>1, LenProperties
    <3>2. \A i \in 1..Len(plugins) : /\ Len(plugins) - i + 1 \in 1..Len(plugins)
                                     /\ Reverse(plugins)[i] = plugins[Len(plugins) - i + 1]
                                     /\ Reverse(plugins)[Len(plugins) - i + 1] = plugins[i]
      BY <3>1 DEF Reverse
    <3>3. DOMAIN Reverse(plugins) = 1..Len(plugins)
      BY <3>1 DEF Reverse
    <3>4. QED
      BY <3>1, <3>2, <3>3 DEF Range
  <2>3. ready'
    BY <1>11 DEF ScreenInit
  <2>4. QED
    BY <1>1, <1>3, <1>5, <2>1, <2>2, <2>3 DEF Screens, ScreenCovered
<1>12. CASE InitScreen
  <2>1. /\ pc = "initScreens" /\ pc' = "initScreens" /\ map' = map /\ next # <<>>
        /\ next' = Tail(next) /\ ready' = ready
        /\ scr' = IF Head(next) \in Broken THEN scr ELSE scr \cup {Head(next)}
    BY <1>12 DEF InitScreen, stack
  <2>2. Range(next) = {Head(next)} \cup Range(next')
    BY <1>1, <2>1, TailSeq
  <2>3. QED
    BY <1>3, <1>5, <2>1, <2>2 DEF Screens, ScreenCovered
<1>13. CASE InitScreensDone
  <2>1. Range(next) = {}
    BY <1>13 DEF InitScreensDone, Range
  <2>2. /\ pc = "initScreens" /\ pc' = "start" /\ UNCHANGED <<map, scr, ready>>
    BY <1>13 DEF InitScreensDone, stack, objects
  <2>3. QED
    BY <1>2, <1>3, <1>4, <1>5, <2>1, <2>2 DEF Screens, ScreenCovered, R
<1>14. CASE ShutdownPop
  <2>1. /\ map' = map \ {Head(plugins)} /\ scr' = scr \ {Head(plugins)}
        /\ pc = "shutdown" /\ pc' = "shutdown" /\ ready' = ready
    BY <1>14, <1>1, PopFacts DEF ShutdownPop
  <2>2. QED
    BY <1>3, <1>5, <2>1 DEF Screens, ScreenCovered, R
<1>15. CASE Started \/ Shutdown \/ ShutdownDone \/ Calls
  <2>1. /\ UNCHANGED <<map, scr, ready>>
        /\ pc \in {"start", "idle", "shutdown"} /\ pc' \in {"idle", "shutdown", "done"}
    BY <1>15 DEF Started, Shutdown, ShutdownDone, Calls, AddWindow, DeleteWindow, SetOption,
                 EditFile, Change, stack, objects
  <2>2. QED
    BY <1>3, <1>5, <2>1 DEF Screens, ScreenCovered, R
<1>16. CASE UNCHANGED vars
  BY <1>6, <1>16 DEF vars, stack, objects, options, update
<1>17. CASE Aborts
  BY <1>3, <1>17, AbortFacts DEF Screens, ScreenCovered, R
<1>18. QED
  BY <1>7, <1>8, <1>9, <1>10, <1>11, <1>12, <1>13, <1>14, <1>15, <1>16, <1>17, NextCases
  DEF Update, Turns, Screen

\* The option and the list of what is active
LEMMA OptionStep ==
    ASSUME TypeOK, Phases, OptionTold, [Next]_vars
    PROVE  OptionTold'
<1>1. dirty \in BOOLEAN
  BY DEF TypeOK
<1> USE DEF OptionTold
<1>2. CASE UNCHANGED vars
  BY <1>2 DEF vars, options
<1>3. CASE Update
  <2>1. CASE EndUpdate
    BY <1>1, <2>1 DEF EndUpdate, SetActive, options
  <2>2. CASE ~ EndUpdate
    <3>1. pc' \in {"pop", "push", "loaded", "unload"}
      BY <1>3, <2>2 DEF Update, Turns, StartUpdate, PopOne, PopsDone, LoadOne,
         LoadFails, PushOne,
                        PushOneFails, Take, PushesDone
    <3>2. QED
      BY <3>1
  <2>3. QED
    BY <2>1, <2>2
<1>4. CASE InitScreen
  BY <1>4, <1>1 DEF InitScreen, LoadsConfig, Ask, SetActive, options
<1>5. CASE Screen /\ ~ InitScreen
  BY <1>5 DEF Screen, ScreenInit, InitScreensDone, Started, Shutdown, ShutdownPop, ShutdownDone,
              options
<1>6. CASE Calls
  <2>1. CASE \E w \in Windows : AddWindow(w) \/ DeleteWindow(w)
    BY <2>1 DEF AddWindow, DeleteWindow, Change, options
  <2>2. CASE \E l \in Lists : SetOption(l) \/ EditFile(l)
    BY <1>1, <2>2 DEF SetOption, EditFile, Ask, SetActive, Change, options
  <2>3. QED
    BY <1>6, <2>1, <2>2 DEF Calls
<1>7. CASE Aborts
  BY <1>7, AbortFacts
<1>8. QED
  BY <1>2, <1>3, <1>4, <1>5, <1>6, <1>7, NextCases

\* What a push that fails on a window leaves, and what goes with the windows
LEMMA HalvesStep ==
    ASSUME TypeOK, Mirrored, Planned, Phases, HalvesLeft, [Next]_vars
    PROVE  HalvesLeft'
<1>1. /\ map = Range(plugins) /\ IsInjective(plugins) /\ map \subseteq Names
      /\ \A n \in map : Refused[n] \cap windows = {}
      /\ \A n \in Names :
            left[n] # {} => /\ Refused[n] # {}
                            /\ "screen" \in left[n]
                            /\ left[n] \ {"screen"} \subseteq windows \ Refused[n]
      /\ left \in [Names -> SUBSET (Windows \cup {"screen"})] /\ windows \subseteq Windows
      /\ ~ ready => windows = {}
  BY DEF Mirrored, HalvesLeft, TypeOK, Phases
<1>2. "screen" \notin Windows
  BY PluginAssumption
<1>3. CASE map' \subseteq map /\ UNCHANGED <<windows, left>>
  BY <1>1, <1>3 DEF HalvesLeft
<1>4. CASE Pop
  BY <1>1, <1>3, <1>4, PopFacts
<1>5. CASE PushOne
  <2> DEFINE n == Head(next)
  <2>1. next # <<>> /\ Take(n) /\ Push(n)
    BY <1>5 DEF PushOne
  <2>2. n \in Names
    BY <2>1, TakeFacts
  <2> HIDE DEF n
  <2>3. /\ n \notin Failing /\ map' = map \cup {n} /\ windows' = windows /\ left' = left
    BY <1>1, <2>1, <2>2, PushFacts
  <2>4. Refused[n] \cap windows = {}
    BY <1>1, <2>2, <2>3 DEF Failing
  <2>5. QED
    BY <1>1, <2>3, <2>4 DEF HalvesLeft
<1>6. CASE PushOneFails
  <2> DEFINE n == Head(next)
  <2>1. next # <<>> /\ Take(n) /\ PushFails(n)
    BY <1>6 DEF PushOneFails
  <2>2. n \in Names
    BY <2>1, TakeFacts
  <2> HIDE DEF n
  <2>3. /\ map' = map /\ windows' = windows
        /\ left' = left \/ (n \in Failing \ Broken /\ LeavesHalf(n))
    BY <2>1, <2>2, FailFacts
  <2>4. CASE n \in Failing \ Broken /\ LeavesHalf(n)
    <3>1. Refused[n] # {}
      BY <2>4 DEF Failing
    <3>2. PICK behind \in SUBSET (windows \ Refused[n]) :
              left' = [left EXCEPT ![n] = @ \cup {"screen"} \cup behind]
      BY <2>4 DEF LeavesHalf
    <3>3. left'[n] = left[n] \cup {"screen"} \cup behind /\ \A m \in Names : m # n => left'[m] = left[m]
      BY <1>1, <2>2, <3>2
    <3>4. /\ "screen" \in left'[n]
          /\ left'[n] \ {"screen"} \subseteq windows \ Refused[n]
      BY <1>1, <2>2, <3>2, <3>3
    <3>5. QED
      BY <1>1, <2>3, <3>1, <3>3, <3>4 DEF HalvesLeft
  <2>5. QED
    BY <1>3, <2>3, <2>4
<1>7. CASE Shutdown
  <2>1. /\ map' = map /\ windows' = {} /\ \A n \in Names : left'[n] = left[n] \ windows
    BY <1>7 DEF Shutdown, stack
  <2>2. QED
    BY <1>1, <1>2, <2>1 DEF HalvesLeft
<1>8. CASE \E w \in Windows : AddWindow(w)
  BY <1>1, <1>8 DEF AddWindow, stack, HalvesLeft
<1>9. ASSUME NEW w \in Windows, DeleteWindow(w) PROVE HalvesLeft'
  <2>1. /\ map' = map /\ windows' = windows \ {w} /\ \A n \in Names : left'[n] = left[n] \ {w}
    BY <1>9 DEF DeleteWindow, stack
  <2>2. QED
    BY <1>1, <1>2, <2>1 DEF HalvesLeft
<1>10. CASE UNCHANGED vars
  BY <1>3, <1>10 DEF vars, stack, objects
<1>11. CASE Update /\ ~ PopOne /\ ~ PushOne /\ ~ PushOneFails
  BY <1>3, <1>11 DEF Update, Turns, StartUpdate, PopsDone, LoadOne, LoadFails, PushesDone,
                    EndUpdate, stack, objects
<1>12. CASE Screen /\ ~ ShutdownPop /\ ~ Shutdown
  BY <1>3, <1>12 DEF Screen, ScreenInit, InitScreen, InitScreensDone, Started, ShutdownDone,
                    stack, objects
<1>13. CASE \E l \in Lists : SetOption(l) \/ EditFile(l)
  BY <1>3, <1>13 DEF SetOption, EditFile, stack, objects
<1>14. CASE Aborts
  BY <1>3, <1>14, AbortFacts
<1>15. QED
  BY <1>4, <1>5, <1>6, <1>7, <1>8, <1>9, <1>10, <1>11, <1>12, <1>13, <1>14, NextCases
  DEF Update, Turns, Screen, Calls, PopOne, ShutdownPop

\* A list that was set is the option's until the next update has begun.
LEMMA AskedStep ==
    ASSUME TypeOK, AskedKept, [Next]_vars
    PROVE  AskedKept'
<1>1. dirty \in BOOLEAN
  BY DEF TypeOK
<1> USE DEF AskedKept
<1>2. CASE UNCHANGED options
  BY <1>2 DEF options
<1>3. ASSUME NEW l, Ask(l) PROVE AskedKept'
  BY <1>1, <1>3 DEF Ask, SetActive
<1>4. CASE StartUpdate
  BY <1>4 DEF StartUpdate
<1>5. CASE PushOne \/ InitScreen
  BY <1>2, <1>3, <1>5 DEF PushOne, Push, InitPlugin, InitScreen, LoadsConfig
<1>6. CASE PushOneFails
  BY <1>2, <1>6 DEF PushOneFails, PushFails, InitPluginFails
<1>7. CASE EndUpdate
  BY <1>2, <1>7 DEF EndUpdate
<1>8. CASE Calls
  BY <1>2, <1>3, <1>8 DEF Calls, AddWindow, DeleteWindow, SetOption, EditFile
<1>9. CASE PopOne \/ PopsDone \/ LoadOne \/ LoadFails \/ PushesDone
  BY <1>2, <1>9 DEF PopOne, PopsDone, LoadOne, LoadFails, PushesDone
<1>10. CASE Screen /\ ~ InitScreen
  BY <1>2, <1>10 DEF Screen, ScreenInit, InitScreensDone, Started, Shutdown, ShutdownPop,
                    ShutdownDone
<1>11. CASE Aborts
  BY <1>2, <1>11, AbortFacts DEF options
<1>12. QED
  BY <1>2, <1>4, <1>5, <1>6, <1>7, <1>8, <1>9, <1>10, <1>11, NextCases
  DEF Update, Turns, Screen, vars

-----------------------------------------------------------------------------
(* The theorems.                                                           *)

\* The invariant holds at the start.
LEMMA InitIInv == Init => IInv
<1> SUFFICES ASSUME Init PROVE IInv
  OBVIOUS
<1> USE DEF Init
<1>1. /\ {Core, Config} \subseteq Names /\ Core \in Loadable /\ Loadable \subseteq Names
      /\ Needs[Core] = {} /\ AllLists \subseteq Seq(Names) /\ MaxChanges \in Nat
      /\ initial \in Initials /\ initial \in Seq(Names)
      /\ Default \in Seq(Names) /\ Lists \subseteq Seq(Names)
  BY PluginAssumption, InitialSeq DEF AllLists
<1>2. /\ <<Core>> \in Seq(Names) /\ Len(<<Core>>) = 1 /\ <<Core>>[1] = Core
      /\ DOMAIN <<Core>> = 1..1 /\ Range(<<>>) = {} /\ <<>> \in Seq(Names)
  BY <1>1 DEF Range
<1>3. Range(<<Core>>) = {Core} /\ IsInjective(<<Core>>)
  BY <1>2 DEF Range, IsInjective
<1>4. TypeOK
  <2>1. /\ loaded \in [Names -> Nat] /\ wins \in [Names -> SUBSET Windows]
        /\ left \in [Names -> SUBSET (Windows \cup {"screen"})]
    OBVIOUS
  <2>2. active \in Seq(Names) /\ file \in Seq(Names) /\ changes \in 0..MaxChanges
    BY <1>1
  <2>3. pc \in Points /\ dirty \in BOOLEAN /\ ready \in BOOLEAN
    BY DEF Points
  <2>4. QED
    BY <1>1, <1>2, <2>1, <2>2, <2>3 DEF TypeOK
<1>5. Mirrored
  BY <1>1, <1>2, <1>3 DEF Mirrored, Running
<1>6. DependenciesBelow
  BY <1>1, <1>2 DEF DependenciesBelow
<1>7. Phases /\ Planned /\ OptionTold
  BY DEF Phases, Planned, Updating, OptionTold
<1>8. Popped /\ Objects
  BY <1>2 DEF Popped, Objects
<1>9. WindowsCovered /\ ScreenCovered /\ HalvesLeft /\ AskedKept
  BY DEF WindowsCovered, ScreenCovered, HalvesLeft, AskedKept
<1>10. Screens
  BY <1>1, RangeConcatenation DEF Screens, Updating, Early
<1>11. QED
  BY <1>4, <1>5, <1>6, <1>7, <1>8, <1>9, <1>10 DEF IInv

\* Every step keeps the invariant.
LEMMA NextIInv == IInv /\ [Next]_vars => IInv'
<1> SUFFICES ASSUME IInv, [Next]_vars PROVE IInv'
  OBVIOUS
<1>1. /\ TypeOK /\ Mirrored /\ DependenciesBelow /\ Phases /\ Planned /\ Popped
      /\ Objects /\ WindowsCovered /\ HalvesLeft /\ Screens /\ ScreenCovered
      /\ OptionTold /\ AskedKept
  BY DEF IInv
<1>2. QED
  BY <1>1, TypeStep, MirrorStep, NeedsStep, PhaseStep, PlanStep, PopStep, ObjectsStep,
     WindowsStep, HalvesStep, ScreensStep, OptionStep, AskedStep
  DEF IInv

\* The invariant holds always.
THEOREM Invariant == Spec => []IInv
BY InitIInv, NextIInv, PTL DEF Spec

\* The list the stack mirrors is the stack's reverse.
LEMMA MirroredIsReverse ==
    ASSUME TypeOK, Mirrored
    PROVE  SameLists
<1>1. SUFFICES ASSUME Running PROVE plugin = Reverse(plugins)
  BY DEF SameLists, Mirrored
<1>2. /\ plugin \in Seq(Names) /\ plugins \in Seq(Names)
      /\ Len(plugins) \in Nat /\ Len(plugin) = Len(plugins)
      /\ \A i \in 1..Len(plugin) : plugin[i] = plugins[Len(plugins) + 1 - i]
  BY <1>1, LenProperties DEF TypeOK, Mirrored
<1>3. \A i \in 1..Len(plugins) : plugins[Len(plugins) - i + 1] \in Names
  BY <1>2, ElementOfSeq
<1>4. Reverse(plugins) \in Seq(Names) /\ Len(Reverse(plugins)) = Len(plugins)
  BY <1>2, <1>3, IsASeq DEF Reverse
<1>5. \A i \in 1..Len(plugin) : plugin[i] = Reverse(plugins)[i]
  BY <1>2 DEF Reverse
<1>6. QED
  BY <1>2, <1>4, <1>5, SeqEqual

\* Names in both lists, in opposite orders
LEMMA PluginNames ==
    ASSUME TypeOK, Mirrored, Running
    PROVE  Range(plugin) = map /\ IsInjective(plugin)
<1>1. /\ plugin \in Seq(Names) /\ plugins \in Seq(Names)
      /\ Len(plugins) \in Nat /\ Len(plugin) = Len(plugins)
      /\ \A i \in 1..Len(plugin) : plugin[i] = plugins[Len(plugins) + 1 - i]
      /\ map = Range(plugins) /\ IsInjective(plugins)
      /\ DOMAIN plugin = 1..Len(plugins) /\ DOMAIN plugins = 1..Len(plugins)
  BY LenProperties DEF TypeOK, Mirrored
<1>2. \A i \in 1..Len(plugins) : /\ Len(plugins) + 1 - i \in 1..Len(plugins)
                                 /\ plugin[Len(plugins) + 1 - i] = plugins[i]
  BY <1>1
<1>3. Range(plugin) = map
  <2>1. /\ Range(plugin) = {plugin[i] : i \in 1..Len(plugins)}
        /\ map = {plugins[i] : i \in 1..Len(plugins)}
    BY <1>1 DEF Range
  <2>2. \A i \in 1..Len(plugins) : plugin[i] = plugins[Len(plugins) + 1 - i]
    BY <1>1
  <2>3. ASSUME NEW i \in 1..Len(plugins)
        PROVE  plugin[i] \in map
    BY <1>1, <1>2, <2>1, <2>2, <2>3
  <2>4. ASSUME NEW i \in 1..Len(plugins)
        PROVE  plugins[i] \in Range(plugin)
    BY <1>2, <2>1, <2>4
  <2>5. QED
    BY <2>1, <2>3, <2>4
<1>4. ASSUME NEW i \in 1..Len(plugins), NEW j \in 1..Len(plugins), plugin[i] = plugin[j]
      PROVE  i = j
  <2>1. plugins[Len(plugins) + 1 - i] = plugins[Len(plugins) + 1 - j]
    BY <1>1, <1>4
  <2>2. Len(plugins) + 1 - i = Len(plugins) + 1 - j
    BY <1>1, <1>2, <2>1 DEF IsInjective
  <2>3. QED
    BY <1>1, <2>2
<1>5. QED
  BY <1>1, <1>3, <1>4 DEF IsInjective

\* The next name of the wanted list is not one of those dealt with, so a push
\* never meets an active plugin of the same name.
LEMMA DistinctStep ==
    ASSUME DistinctLists, IInv, Distinct, [Next]_vars
    PROVE  Distinct'
<1>1. /\ TypeOK /\ Mirrored /\ Planned
      /\ IsInjective(active) /\ IsInjective(file) /\ freed = {}
      /\ Updating => IsInjective(want)
  BY DEF IInv, Distinct
<1>2. IsInjective(initial) /\ \A l \in Lists : IsInjective(l)
  BY InitialSeq DEF DistinctLists, AllLists, IInv, TypeOK
<1>3. Running => IsInjective(plugin)
  BY <1>1, PluginNames
<1>4. map = Range(plugins) /\ IsInjective(plugins)
  BY <1>1 DEF Mirrored
<1>5. IsInjective(file')
  BY <1>1, <1>2, NextCases, AbortFacts DEF vars, Update, Turns, Screen, Calls,
     StartUpdate, PopOne, PopsDone,
     LoadOne, LoadFails, PushOne, PushOneFails, PushesDone, EndUpdate, ScreenInit, InitScreen,
     InitScreensDone, Started, Shutdown, ShutdownPop, ShutdownDone, AddWindow, DeleteWindow,
     SetOption, EditFile
<1>6. IsInjective(active')
  <2>1. CASE active' = active \/ active' = file
    BY <1>1, <2>1
  <2>2. CASE PushOne \/ PushOneFails \/ InitScreen
    BY <2>1, <2>2 DEF PushOne, Push, InitPlugin, PushOneFails, PushFails, InitPluginFails,
                      InitScreen, LoadsConfig, Ask, SetActive, options
  <2>3. CASE EndUpdate
    BY <1>1, <1>3, <2>3 DEF EndUpdate, SetActive, options, Running
  <2>4. CASE Calls
    BY <1>1, <1>2, <2>4 DEF Calls, AddWindow, DeleteWindow, SetOption, EditFile, Ask,
       SetActive, options
  <2>5. CASE ~ PushOne /\ ~ PushOneFails /\ ~ InitScreen /\ ~ EndUpdate /\ ~ Calls
    BY <2>1, <2>5, NextCases, AbortFacts DEF vars, Update, Turns, Screen, StartUpdate,
       PopOne, PopsDone,
       LoadOne, LoadFails, PushesDone, ScreenInit, InitScreensDone, Started, Shutdown,
       ShutdownPop, ShutdownDone, options
  <2>6. QED
    BY <2>2, <2>3, <2>4, <2>5
<1>7. Updating' => IsInjective(want')
  <2>1. CASE StartUpdate
    <3>1. Len(plugin) > 0
      BY <1>1, <2>1 DEF StartUpdate, Mirrored, Running
    <3>2. QED
      BY <1>1, <1>2, <2>1, <3>1, StartFacts
  <2>2. CASE ~ StartUpdate
    <3>1. Updating' => Updating /\ want' = want
      BY <2>2, NextCases, AbortFacts DEF vars, Update, Turns, Screen, Calls, PopOne, PopsDone,
         LoadOne, LoadFails, PushOne, PushOneFails, Take, PushesDone, EndUpdate, ScreenInit,
         InitScreen, InitScreensDone, Started, Shutdown, ShutdownPop, ShutdownDone, AddWindow,
         DeleteWindow, SetOption, EditFile, Change, Updating, update
    <3>2. QED
      BY <1>1, <3>1
  <2>3. QED
    BY <2>1, <2>2
<1>8. freed' = {}
  <2>1. CASE freed' \subseteq freed
    BY <1>1, <2>1
  <2>2. CASE PopOne \/ ShutdownPop
    BY <2>1, <2>2, <1>1, <1>4, PopFacts DEF PopOne, ShutdownPop
  <2>3. CASE PushOneFails
    <3>1. next # <<>> /\ Take(Head(next))
          /\ freed' = IF Head(next) \in map THEN freed \cup {Head(next)} ELSE freed
      BY <2>3 DEF PushOneFails, PushFails
    <3>2. /\ pc \in {"push", "loaded"} /\ Len(next) \in Nat \ {0} /\ Head(next) = next[1]
      BY <1>1, <3>1, TakeFacts
    <3>3. /\ IsInjective(want) /\ want \in Seq(Names) /\ Len(want) \in Nat
          /\ DOMAIN want = 1..Len(want)
          /\ Done \in 1..Len(want) /\ next[1] = want[Done + 1] /\ Len(next) = Len(want) - Done
          /\ \A i \in 1..Len(plugin) : \E j \in 1..Done : plugin[i] = want[j]
          /\ plugin \in Seq(Names)
      BY SMTT(30), <1>1, <3>2, LenProperties DEF Planned, Updating, TypeOK, Done
    <3>4. \A i \in 1..Len(plugin) : plugin[i] # Head(next)
      <4>1. SUFFICES ASSUME NEW j \in 1..Done PROVE want[j] # want[Done + 1]
        <5>1. Head(next) = want[Done + 1]
          BY <3>2, <3>3
        <5>2. \A i \in 1..Len(plugin) : \E j \in 1..Done : plugin[i] = want[j]
          BY <3>3
        <5>3. QED
          BY <5>1, <5>2
      <4>2. j \in DOMAIN want /\ Done + 1 \in DOMAIN want /\ j # Done + 1
        <5>1. Done \in Nat /\ Done + 1 \in 1..Len(want)
          <6>1. \A m \in Nat \ {0}, w \in Nat : \A d \in 1..w :
                    m = w - d => d \in Nat /\ d + 1 \in 1..w
            OBVIOUS
          <6>2. QED
            BY <3>2, <3>3, <6>1
        <5>2. j \in Nat /\ j <= Done /\ j \in 1..Len(want)
          BY <3>3, <4>1
        <5>3. QED
          BY <3>3, <5>1, <5>2
      <4>3. QED
        BY <3>3, <4>2 DEF IsInjective
    <3>5. Head(next) \notin map
      <4>1. map = Range(plugin)
        BY <1>1, <3>2, PluginNames DEF Running
      <4>2. Range(plugin) = {plugin[i] : i \in 1..Len(plugin)}
        BY <3>3, RangeEquality
      <4>3. QED
        BY <3>4, <4>1, <4>2
    <3>6. QED
      BY <1>1, <3>1, <3>5
  <2>4. CASE ~ PopOne /\ ~ ShutdownPop /\ ~ PushOneFails
    BY <2>1, <2>4, NextCases, AbortFacts DEF vars, Update, Turns, Screen, Calls,
       StartUpdate, PopsDone,
       LoadOne, LoadFails, PushOne, PushesDone, EndUpdate, ScreenInit,
       InitScreen, InitScreensDone, Started, Shutdown, ShutdownDone, AddWindow,
       DeleteWindow, SetOption, EditFile, stack
  <2>5. QED
    BY <2>2, <2>3, <2>4
<1>9. QED
  BY <1>5, <1>6, <1>7, <1>8 DEF Distinct

\* The first k elements of a list and one more
LEMMA PrefixAppend ==
    ASSUME NEW S, NEW s \in Seq(S), NEW k \in Nat, k < Len(s)
    PROVE  /\ SubSeq(s, 1, k) \in Seq(S)
           /\ Range(SubSeq(s, 1, k)) = {s[i] : i \in 1..k}
           /\ SubSeq(s, 1, k + 1) = Append(SubSeq(s, 1, k), s[k + 1])
           /\ s[k + 1] \in S
<1>1. Len(s) \in Nat /\ \A i \in 1..Len(s) : s[i] \in S
  BY LenProperties, ElementOfSeq
<1>2. /\ SubSeq(s, 1, k) \in Seq(S)
      /\ Len(SubSeq(s, 1, k)) = IF 1 <= k THEN k - 1 + 1 ELSE 0
      /\ \A i \in 1..k - 1 + 1 : SubSeq(s, 1, k)[i] = s[1 + i - 1]
  <2>1. \A i \in 1..k : s[i] \in S
    BY <1>1
  <2>2. 1 \in Int /\ k \in Int
    OBVIOUS
  <2>3. QED
    BY <2>1, <2>2, SubSeqProperties
<1>3. Len(SubSeq(s, 1, k)) = k /\ \A i \in 1..k : SubSeq(s, 1, k)[i] = s[i]
  BY <1>2
<1>4. Range(SubSeq(s, 1, k)) = {SubSeq(s, 1, k)[i] : i \in 1..k}
  BY <1>2, <1>3, RangeEquality
<1>5. 1 \in 1..Len(s) /\ k + 1 \in 1..Len(s) /\ s[k + 1] \in S
  BY <1>1
<1>6. SubSeq(s, 1, k + 1) = SubSeq(s, 1, k) \o <<s[k + 1]>>
  <2>1. SubSeq(s, 1, k + 1) = SubSeq(s, 1, k + 1 - 1) \o <<s[k + 1]>>
    BY <1>1, <1>5, SubSeqRecursiveSecond
  <2>2. QED
    BY <2>1
<1>7. SubSeq(s, 1, k + 1) = Append(SubSeq(s, 1, k), s[k + 1])
  BY <1>2, <1>5, <1>6, AppendIsConcat
<1>8. QED
  BY <1>2, <1>3, <1>4, <1>5, <1>7

\* A list of plugins that are active in this order comes to itself.
LEMMA OutcomeActive ==
    ASSUME NEW l \in Seq(Names), NEW failing, IsInjective(l),
           \A i \in 1..Len(l) : /\ l[i] \in Loadable
                                /\ Needs[l[i]] \subseteq {l[j] : j \in 1..i}
                                /\ l[i] \notin failing
    PROVE  Outcome(l, failing) = l
<1> DEFINE T == {k \in Nat : k <= Len(l) =>
                    Outcome(SubSeq(l, 1, k), failing) = SubSeq(l, 1, k)}
<1>1. Len(l) \in Nat /\ DOMAIN l = 1..Len(l)
  BY LenProperties
<1>2. 0 \in T
  <2>1. SubSeq(l, 1, 0) = <<>>
    BY SubSeqEmpty
  <2>2. Outcome(<<>>, failing) = <<>>
    <3>1. <<>> \in Seq(Names) /\ Len(<<>>) = 0
      BY EmptySeq
    <3>2. \E f : Outcome(<<>>, failing) = f[0] /\ f[0] = <<>>
      BY <3>1, OutcomeFcn
    <3>3. QED
      BY <3>2
  <2>3. QED
    BY <2>1, <2>2
<1>3. ASSUME NEW k \in Nat, k \in T PROVE k + 1 \in T
  <2>1. SUFFICES ASSUME k + 1 <= Len(l)
                 PROVE  Outcome(SubSeq(l, 1, k + 1), failing) = SubSeq(l, 1, k + 1)
    OBVIOUS
  <2> DEFINE p == SubSeq(l, 1, k)
             n == l[k + 1]
  <2>2. k < Len(l) /\ k <= Len(l)
    BY <1>1, <2>1
  <2>3. /\ p \in Seq(Names) /\ Range(p) = {l[i] : i \in 1..k}
        /\ SubSeq(l, 1, k + 1) = Append(p, n) /\ n \in Names
    BY <2>2, PrefixAppend
  <2>4. Outcome(p, failing) = p
    BY <1>3, <2>2
  <2>5. Can(p, n, failing)
    <3>1. k + 1 \in 1..Len(l)
      BY <1>1, <2>1
    <3>2. n \notin Range(p)
      <4>1. \A i \in 1..k : i \in DOMAIN l /\ k + 1 \in DOMAIN l /\ i # k + 1
        BY <1>1, <2>1
      <4>2. \A i \in 1..k : l[i] # l[k + 1]
        BY <4>1 DEF IsInjective
      <4>3. QED
        BY <2>3, <4>2
    <3>3. Needs[n] \subseteq Range(p) \cup {n}
      <4>1. Needs[n] \subseteq {l[j] : j \in 1..k + 1}
        BY <3>1
      <4>2. \A j \in 1..k + 1 : j \in 1..k \/ j = k + 1
        OBVIOUS
      <4>3. QED
        BY <2>3, <4>1, <4>2
    <3>4. n \in Loadable /\ n \notin failing
      BY <3>1
    <3>5. QED
      BY <3>2, <3>3, <3>4 DEF Can
  <2> HIDE DEF p, n
  <2>6. Outcome(Append(p, n), failing) = Append(p, n)
    BY <2>3, <2>4, <2>5, OutcomeAppend
  <2>7. QED
    BY <2>3, <2>6
<1>4. \A k \in Nat : k \in T
  <2> HIDE DEF T
  <2>1. QED
    BY <1>2, <1>3, NatInduct
<1>5. SubSeq(l, 1, Len(l)) = l
  BY SubSeqFull
<1>6. Outcome(SubSeq(l, 1, Len(l)), failing) = SubSeq(l, 1, Len(l))
  <2>1. Len(l) \in T
    BY <1>1, <1>4
  <2>2. QED
    BY <1>1, <2>1
<1>7. QED
  BY <1>5, <1>6

\* When the loop that pops has ended, the active plugins are those that the
\* common prefix comes to; each push then does what Outcome does.
LEMMA ForgetsStep ==
    ASSUME IInv, Forgets, [Next]_vars
    PROVE  Forgets'
<1>1. /\ TypeOK /\ Mirrored /\ DependenciesBelow /\ Planned /\ Popped /\ HalvesLeft
      /\ want \in Seq(Names) /\ plugin \in Seq(Names)
  BY DEF IInv, TypeOK
<1> DEFINE l == SubSeq(want, 1, Done)
<1>2. CASE PopsDone
  <2>1. /\ pc = "pop" /\ nPop = 0
        /\ UNCHANGED <<plugin, want, map>> /\ Done' = Done /\ Failing' = Failing
    BY <1>2 DEF PopsDone, stack, objects, update, Done, Failing
  <2>2. Len(plugin) = Done /\ Done \in 1..Len(want) /\ \A i \in 1..Done : plugin[i] = want[i]
    BY <1>1, <2>1 DEF Planned, Updating, TypeOK
  <2>3. plugin = l
    <3>1. Done \in Nat /\ Len(want) \in Nat /\ \A i \in 1..Done : want[i] \in Names
      BY <1>1, <2>2, LenProperties, ElementOfSeq
    <3>2. /\ l \in Seq(Names) /\ Len(l) = IF 1 <= Done THEN Done - 1 + 1 ELSE 0
          /\ \A i \in 1..Done - 1 + 1 : l[i] = want[1 + i - 1]
      <4>1. 1 \in Int /\ Done \in Int
        BY <3>1
      <4>2. QED
        BY <3>1, <4>1, SubSeqProperties
    <3> HIDE DEF l
    <3>3. Len(l) = Done /\ \A i \in 1..Done : l[i] = want[i]
      BY <3>1, <3>2
    <3>4. QED
      BY <1>1, <2>2, <3>2, <3>3, SeqEqual
  <2>4. ASSUME map \cap Broken = {} PROVE Outcome(plugin, Failing) = plugin
    <3>1. Running /\ Len(plugins) \in Nat /\ Len(plugin) = Len(plugins)
          /\ \A i \in 1..Len(plugin) : plugin[i] = plugins[Len(plugins) + 1 - i]
          /\ map \subseteq Loadable
      BY <1>1, <2>1, LenProperties DEF Running, Mirrored, TypeOK
    <3>2. Range(plugin) = map /\ IsInjective(plugin) /\ DOMAIN plugin = 1..Len(plugin)
      BY <1>1, <3>1, PluginNames, LenProperties
    <3>3. ASSUME NEW i \in 1..Len(plugin)
          PROVE  /\ plugin[i] \in Loadable
                 /\ Needs[plugin[i]] \subseteq {plugin[j] : j \in 1..i}
                 /\ plugin[i] \notin Failing
      <4>1. plugin[i] \in map
        BY <3>2 DEF Range
      <4> DEFINE k == Len(plugins) + 1 - i
      <4>2. k \in 1..Len(plugins) /\ plugin[i] = plugins[k]
        BY <3>1
      <4>3. Needs[plugins[k]] \subseteq {plugins[j] : j \in k..Len(plugins)}
        BY <1>1, <4>2 DEF DependenciesBelow
      <4>4. ASSUME NEW j \in k..Len(plugins) PROVE plugins[j] \in {plugin[m] : m \in 1..i}
        <5>1. Len(plugins) + 1 - j \in 1..i /\ Len(plugins) + 1 - j \in 1..Len(plugin)
              /\ Len(plugins) + 1 - (Len(plugins) + 1 - j) = j
          BY <3>1, <4>2
        <5>2. plugin[Len(plugins) + 1 - j] = plugins[j]
          BY <3>1, <5>1
        <5>3. QED
          BY <5>1, <5>2
      <4>5. Needs[plugin[i]] \subseteq {plugin[m] : m \in 1..i}
        BY <4>2, <4>3, <4>4
      <4>6. Refused[plugin[i]] \cap windows = {}
        BY <1>1, <4>1 DEF HalvesLeft
      <4>7. QED
        BY <2>4, <3>1, <4>1, <4>5, <4>6 DEF Failing
    <3>4. QED
      BY <1>1, <3>2, <3>3, OutcomeActive
  <2>5. QED
    BY <2>1, <2>3, <2>4 DEF Forgets
<1>3. CASE LoadFails \/ PushOne \/ PushOneFails
  <2> DEFINE n == Head(next)
  <2>1. /\ pc \in {"push", "loaded"} /\ pc' = "push" /\ want' = want
        /\ next # <<>> /\ next' = Tail(next) /\ map \subseteq map' /\ Failing' = Failing
    <3>1. CASE LoadFails
      BY <3>1 DEF LoadFails, stack, objects, Failing
    <3>2. CASE PushOne
      BY <3>2 DEF PushOne, Push, InitPlugin, Take, Failing
    <3>3. CASE PushOneFails
      <4>1. UNCHANGED <<map, ready, windows>>
        BY <3>3 DEF PushOneFails, PushFails, InitPluginFails, objects
      <4>2. QED
        BY <3>3, <4>1 DEF PushOneFails, Take, Failing
    <3>4. QED
      BY <1>3, <3>1, <3>2, <3>3
  <2>2. /\ Len(next) \in Nat \ {0} /\ n = next[1] /\ n \in Names /\ Len(next') = Len(next) - 1
    BY <2>1, TailSeq DEF IInv, TypeOK
  <2>3. /\ Done \in 1..Len(want) /\ next[1] = want[Done + 1] /\ Len(want) \in Nat
        /\ Done' = Done + 1 /\ Done < Len(want) /\ Done \in Nat
    <3>1. Len(want) \in Nat /\ Done \in 1..Len(want)
      BY <1>1, <2>1, LenProperties DEF Planned, Updating
    <3>2. 1 \in 1..Len(next) /\ Done = Len(want) - Len(next)
      BY <2>2 DEF Done
    <3>3. next[1] = want[Done + 1]
      BY <1>1, <2>1, <3>2 DEF Planned, Updating
    <3>4. Done' = Done + 1
      BY <2>1, <2>2, <3>1 DEF Done
    <3>5. QED
      BY <2>2, <3>1, <3>2, <3>3, <3>4
  <2>4. l \in Seq(Names) /\ SubSeq(want', 1, Done') = Append(l, n)
    BY <1>1, <2>1, <2>2, <2>3, PrefixAppend
  <2> HIDE DEF l, n
  <2>5. SUFFICES ASSUME map \cap Broken = {}, map' \cap Broken = {}
                 PROVE  plugin' = Outcome(Append(l, n), Failing)
    BY <2>1, <2>4 DEF Forgets
  <2>6. plugin = Outcome(l, Failing)
    BY <2>1, <2>5 DEF Forgets, l
  <2>7. Outcome(Append(l, n), Failing) = IF Can(plugin, n, Failing) THEN Append(plugin, n) ELSE plugin
    BY <2>2, <2>4, <2>6, OutcomeAppend
  <2>8. Range(plugin) = map
    BY <1>1, <2>1, PluginNames DEF Running
  <2>9. CASE LoadFails
    <3>1. n \notin Loadable /\ plugin' = plugin
      BY <2>9 DEF LoadFails, n
    <3>2. QED
      BY <2>7, <3>1 DEF Can
  <2>10. CASE PushOne
    <3>1. Take(n) /\ Push(n) /\ plugin' = Append(plugin, n)
      BY <2>10 DEF PushOne, n
    <3>2. n \in Loadable
      <4>1. (pc = "push" => n \in Range(pop)) /\ (pc = "loaded" => n \in Loadable)
        BY <1>1, <2>1, <3>1, TakeFacts DEF n
      <4>2. QED
        BY <1>1, <2>1, <4>1 DEF Popped
    <3>3. n \notin map /\ Needs[n] \subseteq map \cup {n} /\ n \notin Failing
      BY <3>1 DEF Push, InitPlugin
    <3>4. Can(plugin, n, Failing)
      BY <2>8, <3>2, <3>3 DEF Can
    <3>5. QED
      BY <2>7, <3>1, <3>4
  <2>11. CASE PushOneFails
    <3>1. PushFails(n) /\ plugin' = plugin
      BY <2>11 DEF PushOneFails, PushFails, n
    <3>2. ~ Can(plugin, n, Failing)
      BY <2>8, <3>1 DEF PushFails, InitPluginFails, Can, Failing
    <3>3. QED
      BY <2>7, <3>1, <3>2
  <2>12. QED
    BY <1>3, <2>9, <2>10, <2>11
<1>4. CASE /\ pc \in {"push", "loaded", "unload"}
           /\ UNCHANGED <<map, plugin, want, next, ready, windows>>
  <2>1. Done' = Done /\ Failing' = Failing
    BY <1>4 DEF Done, Failing
  <2>2. QED
    BY <1>4, <2>1 DEF Forgets
<1>5. CASE LoadOne \/ PushesDone
  BY <1>4, <1>5 DEF LoadOne, PushesDone, stack, objects, update
<1>6. CASE pc' \notin {"push", "loaded", "unload"}
  BY <1>6 DEF Forgets
<1>7. CASE UNCHANGED vars
  <2>1. UNCHANGED <<pc, map, plugin, want, next>> /\ Done' = Done /\ Failing' = Failing
    BY <1>7 DEF vars, stack, objects, update, Done, Failing
  <2>2. QED
    BY <2>1 DEF Forgets
<1>8. CASE StartUpdate \/ PopOne \/ EndUpdate \/ Screen \/ Calls \/ Aborts
  BY <1>6, <1>8, AbortFacts DEF StartUpdate, PopOne, EndUpdate, Screen, ScreenInit,
     InitScreen, InitScreensDone,
     Started, Shutdown, ShutdownPop, ShutdownDone, Calls, AddWindow, DeleteWindow, SetOption,
     EditFile, Change
<1>9. QED
  BY <1>2, <1>3, <1>5, <1>7, <1>8, NextCases DEF Update, Turns

\* However updates fail half-way, the stack, the map and the list
\* updatePlugins compares with stay in step, what a plugin needs is below it,
\* and the screen and the windows are covered: for any lists, with names that
\* occur twice too.
THEOREM ListsAgree ==
    Spec => [](/\ TypeOK /\ SameLists /\ DependenciesBelow
               /\ WindowsCovered /\ HalvesLeft /\ ScreenCovered
               /\ OptionShowsActive /\ AskedKept)
<1>1. IInv => /\ TypeOK /\ SameLists /\ DependenciesBelow
              /\ WindowsCovered /\ HalvesLeft /\ ScreenCovered
              /\ OptionShowsActive /\ AskedKept
  BY MirroredIsReverse DEF IInv, OptionTold, OptionShowsActive
<1>2. QED
  BY <1>1, Invariant, PTL

\* PluginsAgree, when no list names a plugin twice: then besides the above
\* every library object is active or about to be unloaded, exactly once, and
\* no active plugin loses its code.
THEOREM PluginsAgreeHolds ==
    ASSUME DistinctLists
    PROVE  Spec => []PluginsAgree
<1>1. Init => Distinct
  <2>1. SUFFICES ASSUME Init PROVE Distinct
    OBVIOUS
  <2>2. IsInjective(active) /\ IsInjective(file)
    BY <2>1, InitialSeq DEF Init, DistinctLists, AllLists
  <2>3. freed = {} /\ ~ Updating
    BY <2>1 DEF Init, Updating
  <2>4. QED
    BY <2>2, <2>3 DEF Distinct
<1>2. IInv /\ Distinct /\ [Next]_vars => Distinct'
  BY DistinctStep
<1>3. Spec => [](IInv /\ Distinct)
  BY <1>1, <1>2, InitIInv, NextIInv, PTL DEF Spec
<1>4. IInv /\ Distinct => PluginsAgree
  <2>1. IInv => SameLists /\ OptionShowsActive
    BY MirroredIsReverse DEF IInv, OptionTold, OptionShowsActive
  <2>2. Objects /\ freed = {} => LoadedOnce
    BY DEF Objects, LoadedOnce
  <2>3. QED
    BY <2>1, <2>2 DEF IInv, Distinct, PluginsAgree
<1>5. QED
  BY <1>3, <1>4, PTL

\* UpdateForgets: popping only what is behind the common prefix, and pushing
\* popped plugins again, leads where trying the whole list from nothing leads.
THEOREM UpdateForgetsHolds == Spec => []UpdateForgets
<1>1. Init => Forgets
  BY DEF Init, Forgets
<1>2. IInv /\ Forgets /\ [Next]_vars => Forgets'
  BY ForgetsStep
<1>3. Spec => [](IInv /\ Forgets)
  BY <1>1, <1>2, InitIInv, NextIInv, PTL DEF Spec
<1>4. IInv /\ Forgets => UpdateForgets
  <2>1. SUFFICES ASSUME IInv, Forgets, pc = "unload", map \cap Broken = {}
                 PROVE  plugin = Outcome(want, Failing)
    BY DEF UpdateForgets
  <2>2. plugin = Outcome(SubSeq(want, 1, Done), Failing)
    BY <2>1 DEF Forgets
  <2>3. want \in Seq(Names) /\ Len(want) \in Nat /\ next = <<>>
    BY <2>1, LenProperties DEF IInv, TypeOK, Planned
  <2>4. Done = Len(want)
    BY <2>3, EmptySeq DEF Done
  <2>5. SubSeq(want, 1, Len(want)) = want
    BY <2>3, SubSeqFull
  <2>6. QED
    BY <2>2, <2>4, <2>5
<1>5. QED
  BY <1>3, <1>4, PTL

=============================================================================
