------------------------------ MODULE DataLemmas ------------------------------
(***************************************************************************)
(* Induction in a form the provers can use, over sets of naturals instead  *)
(* of predicates; the existence of functions defined by recursion on a     *)
(* natural number; facts about sequences; and what a fold over a finite set *)
(* or a sequence computes.  Nothing here is about compiz: the proofs about  *)
(* its lists and recursive definitions rest on it.                          *)
(*                                                                         *)
(* The operator of a fold is given when the module is instantiated: a       *)
(* lemma with an operator for a parameter is beyond the provers, a constant *)
(* that an instance replaces is not.  A module that only wants the other    *)
(* lemmas extends this one and leaves the constants alone.                  *)
(***************************************************************************)
EXTENDS Integers, SequencesExt, FiniteSets, SequenceTheorems, FiniteSetTheorems,
        WellFoundedInduction, TLAPS

CONSTANTS
    Stepped(_, _, _),   \* the operator that is folded, with a parameter of its own
    Reached(_, _, _)    \* what is to hold of the value that has seen a set of elements

-----------------------------------------------------------------------------
(* Induction and recursion.                                                *)

\* A set of naturals that is not empty has a least element.
LEMMA LeastNatural ==
    ASSUME NEW T \in SUBSET Nat, T # {}
    PROVE  \E x \in T : \A y \in T : x <= y
<1>1. \E x \in T : \A y \in T : <<y, x>> \notin OpToRel(<, Nat)
  BY NatLessThanWellFounded, WFMin
<1>2. \A x, y \in T : <<y, x>> \notin OpToRel(<, Nat) => x <= y
  BY DEF OpToRel
<1>3. QED
  BY <1>1, <1>2

\* Induction over the naturals.
LEMMA NatInduct ==
    ASSUME NEW T, 0 \in T, \A n \in Nat : n \in T => n + 1 \in T
    PROVE  \A n \in Nat : n \in T
<1>1. SUFFICES ASSUME Nat \ T # {} PROVE FALSE
  OBVIOUS
<1>2. PICK x \in Nat \ T : \A y \in Nat \ T : x <= y
  BY <1>1, LeastNatural
<1>3. x # 0 /\ x - 1 \in Nat
  BY <1>2
<1>4. x - 1 \in T
  BY <1>2, <1>3
<1>5. x - 1 + 1 \in T
  BY <1>3, <1>4
<1>6. QED
  BY <1>2, <1>5

\* A set of integers that is not empty and bounded has a greatest element.
LEMMA GreatestInteger ==
    ASSUME NEW T \in SUBSET Nat, NEW b \in Nat, T # {}, \A x \in T : x <= b
    PROVE  \E x \in T : \A y \in T : y <= x
<1> DEFINE D == {d \in Nat : \E x \in T : d = b - x}
<1>1. D # {} /\ D \in SUBSET Nat
  <2>1. PICK x \in T : TRUE
    OBVIOUS
  <2>2. b - x \in D
    OBVIOUS
  <2>3. QED
    BY <2>2
<1>2. PICK d \in D : \A e \in D : d <= e
  BY <1>1, LeastNatural
<1>3. PICK x \in T : d = b - x
  OBVIOUS
<1>4. ASSUME NEW y \in T PROVE y <= x
  <2>1. b - y \in D
    OBVIOUS
  <2>2. d <= b - y
    BY <1>2, <2>1
  <2>3. QED
    BY <1>3, <2>2
<1>5. QED
  BY <1>4

\* What computes the k-th value from the one before it
Steps(n, V) == [V \X (1..n) -> V]

\* f has the values of the recursion from base.
Computes(f, n, base, step) ==
    f[0] = base /\ \A k \in 1..n : f[k] = step[<<f[k - 1], k>>]

\* The values of a recursion from base, n times, are a function.
LEMMA Recursion ==
    ASSUME NEW n \in Nat, NEW V, NEW base \in V, NEW step \in Steps(n, V)
    PROVE  \E f \in [0..n -> V] : Computes(f, n, base, step)
<1> USE DEF Steps
<1> DEFINE Upto(m, f) ==
             f = [k \in 0..m |-> IF k = 0 THEN base ELSE step[<<f[k - 1], k>>]]
           T == {m \in Nat : m <= n => \E f \in [0..m -> V] : Upto(m, f)}
<1>1. 0 \in T
  <2>1. [k \in 0..0 |-> base] \in [0..0 -> V]
    OBVIOUS
  <2>2. Upto(0, [k \in 0..0 |-> base])
    OBVIOUS
  <2>3. QED
    BY <2>1, <2>2
<1>2. ASSUME NEW m \in Nat, m \in T PROVE m + 1 \in T
  <2>1. SUFFICES ASSUME m + 1 <= n
                 PROVE  \E g \in [0..m + 1 -> V] : Upto(m + 1, g)
    OBVIOUS
  <2>2. PICK f \in [0..m -> V] : Upto(m, f)
    BY <1>2, <2>1
  <2> DEFINE g == [k \in 0..m + 1 |->
                     IF k <= m THEN f[k] ELSE step[<<f[m], m + 1>>]]
  <2>3. step[<<f[m], m + 1>>] \in V
    BY <2>1
  <2>4. g \in [0..m + 1 -> V]
    BY <2>3
  <2>5. ASSUME NEW k \in 0..m + 1
        PROVE  g[k] = IF k = 0 THEN base ELSE step[<<g[k - 1], k>>]
    <3>1. CASE k = 0
      BY <2>2, <3>1
    <3>2. CASE k # 0 /\ k <= m
      <4>1. k - 1 \in 0..m /\ g[k - 1] = f[k - 1] /\ g[k] = f[k]
        BY <3>2
      <4>2. f[k] = step[<<f[k - 1], k>>]
        BY <2>2, <3>2
      <4>3. QED
        BY <3>2, <4>1, <4>2
    <3>3. CASE k = m + 1
      <4>1. g[k - 1] = f[m] /\ g[k] = step[<<f[m], m + 1>>]
        BY <3>3
      <4>2. QED
        BY <3>3, <4>1
    <3>4. QED
      BY <3>1, <3>2, <3>3
  <2>6. Upto(m + 1, g)
    BY <2>4, <2>5
  <2>7. QED
    BY <2>4, <2>6
<1>3. n \in T
  BY <1>1, <1>2, NatInduct
<1>4. PICK f \in [0..n -> V] : Upto(n, f)
  BY <1>3
<1>5. Computes(f, n, base, step)
  BY <1>4 DEF Computes
<1>6. QED
  BY <1>5

-----------------------------------------------------------------------------
(* Sequences.                                                              *)

\* The three facts about Append that the lists below need.
LEMMA AppendSeq ==
    ASSUME NEW S, NEW s \in Seq(S), NEW e \in S
    PROVE  /\ Append(s, e) \in Seq(S)
           /\ Len(Append(s, e)) = Len(s) + 1
           /\ \A i \in 1..Len(s) : Append(s, e)[i] = s[i]
           /\ Append(s, e)[Len(s) + 1] = e
           /\ Range(Append(s, e)) = Range(s) \cup {e}
<1>1. /\ Append(s, e) \in Seq(S)
      /\ Len(Append(s, e)) = Len(s) + 1
      /\ \A i \in 1..Len(s) : Append(s, e)[i] = s[i]
      /\ Append(s, e)[Len(s) + 1] = e
  BY AppendProperties
<1>2. DOMAIN s = 1..Len(s) /\ DOMAIN Append(s, e) = 1..Len(s) + 1 /\ Len(s) \in Nat
  BY <1>1, LenProperties
<1>3. QED
  BY <1>1, <1>2 DEF Range

\* What is left when the head is taken
LEMMA TailSeq ==
    ASSUME NEW S, NEW s \in Seq(S), s # <<>>
    PROVE  /\ Len(s) \in Nat \ {0} /\ Head(s) = s[1] /\ Head(s) \in S
           /\ Tail(s) \in Seq(S) /\ Len(Tail(s)) = Len(s) - 1
           /\ \A i \in 1..Len(s) - 1 : Tail(s)[i] = s[i + 1]
           /\ Range(s) = {Head(s)} \cup Range(Tail(s))
           /\ IsInjective(s) => IsInjective(Tail(s)) /\ Head(s) \notin Range(Tail(s))
<1>1. /\ Len(s) \in Nat \ {0} /\ Head(s) = s[1] /\ Head(s) \in S
      /\ Tail(s) \in Seq(S) /\ Len(Tail(s)) = Len(s) - 1
      /\ \A i \in 1..Len(s) - 1 : Tail(s)[i] = s[i + 1]
  BY HeadTailProperties, EmptySeq
<1>2. DOMAIN s = 1..Len(s) /\ DOMAIN Tail(s) = 1..Len(s) - 1
  BY <1>1, LenProperties
<1>3. Range(s) = {Head(s)} \cup Range(Tail(s))
  <2>1. ASSUME NEW i \in 1..Len(s) PROVE s[i] = Head(s) \/ s[i] \in Range(Tail(s))
    <3>1. CASE i = 1
      BY <1>1, <3>1
    <3>2. CASE i # 1
      <4>1. i - 1 \in 1..Len(s) - 1 /\ i - 1 + 1 = i
        BY <1>1, <3>2
      <4>2. Tail(s)[i - 1] = s[i]
        BY <1>1, <4>1
      <4>3. QED
        BY <1>2, <4>1, <4>2 DEF Range
    <3>3. QED
      BY <3>1, <3>2
  <2>2. ASSUME NEW i \in 1..Len(s) - 1 PROVE Tail(s)[i] \in Range(s)
    BY <1>1, <1>2 DEF Range
  <2>3. Head(s) \in Range(s)
    BY <1>1, <1>2 DEF Range
  <2>4. QED
    BY <1>2, <2>1, <2>2, <2>3 DEF Range
<1>4. ASSUME IsInjective(s)
      PROVE  IsInjective(Tail(s)) /\ Head(s) \notin Range(Tail(s))
  <2>1. ASSUME NEW i \in 1..Len(s) - 1, NEW j \in 1..Len(s) - 1, Tail(s)[i] = Tail(s)[j]
        PROVE  i = j
    <3>1. s[i + 1] = s[j + 1] /\ i + 1 \in DOMAIN s /\ j + 1 \in DOMAIN s
      BY <1>1, <1>2, <2>1
    <3>2. i + 1 = j + 1
      BY <1>4, <3>1 DEF IsInjective
    <3>3. QED
      BY <3>2
  <2>2. ASSUME NEW i \in 1..Len(s) - 1 PROVE Tail(s)[i] # Head(s)
    <3>1. 1 \in DOMAIN s /\ i + 1 \in DOMAIN s /\ i + 1 # 1
      BY <1>1, <1>2
    <3>2. s[i + 1] # s[1]
      BY <1>4, <3>1 DEF IsInjective
    <3>3. QED
      BY <1>1, <3>2
  <2>3. QED
    BY <1>2, <2>1, <2>2 DEF IsInjective, Range
<1>5. QED
  BY <1>1, <1>3, <1>4

\* An element put in front
LEMMA FrontedSeq ==
    ASSUME NEW S, NEW s \in Seq(S), NEW e \in S
    PROVE  /\ <<e>> \o s \in Seq(S) /\ Len(<<e>> \o s) = Len(s) + 1
           /\ (<<e>> \o s)[1] = e
           /\ \A i \in 1..Len(s) : (<<e>> \o s)[i + 1] = s[i]
           /\ Range(<<e>> \o s) = Range(s) \cup {e}
           /\ IsInjective(s) /\ e \notin Range(s) => IsInjective(<<e>> \o s)
<1> DEFINE t == <<e>> \o s
<1>1. <<e>> \in Seq(S) /\ Len(<<e>>) = 1 /\ <<e>>[1] = e /\ Len(s) \in Nat /\ DOMAIN s = 1..Len(s)
  BY LenProperties
<1>2. t \in Seq(S) /\ Len(t) = Len(s) + 1 /\ t[1] = e
  BY <1>1, ConcatProperties
<1>3. \A i \in 1..Len(s) : t[i + 1] = s[i]
  BY <1>1, ConcatProperties
<1>4. DOMAIN t = 1..Len(s) + 1
  BY <1>2, LenProperties
<1> HIDE DEF t
<1>5. \A i \in DOMAIN t : i = 1 \/ (i - 1 \in DOMAIN s /\ t[i] = s[i - 1])
  BY <1>1, <1>3, <1>4
<1>6. \A i \in DOMAIN s : i + 1 \in DOMAIN t /\ t[i + 1] = s[i]
  BY <1>1, <1>3, <1>4
<1>7. 1 \in DOMAIN t
  BY <1>1, <1>4
<1>8. Range(t) = Range(s) \cup {e}
  BY <1>2, <1>5, <1>6, <1>7 DEF Range
<1>9. ASSUME IsInjective(s), e \notin Range(s) PROVE IsInjective(t)
  <2>1. SUFFICES ASSUME NEW i \in DOMAIN t, NEW j \in DOMAIN t, t[i] = t[j] PROVE i = j
    BY DEF IsInjective
  <2>2. i \in Int /\ j \in Int
    BY <1>4
  <2>3. CASE i = 1
    BY <1>2, <1>5, <1>9, <2>1, <2>3 DEF Range
  <2>4. CASE j = 1
    BY <1>2, <1>5, <1>9, <2>1, <2>4 DEF Range
  <2>5. CASE i # 1 /\ j # 1
    <3>1. i - 1 \in DOMAIN s /\ j - 1 \in DOMAIN s /\ s[i - 1] = s[j - 1]
      BY <1>5, <2>1, <2>5
    <3>2. i - 1 = j - 1
      BY <1>9, <3>1 DEF IsInjective
    <3>3. QED
      BY <2>2, <3>2
  <2>6. QED
    BY <2>3, <2>4, <2>5
<1>10. QED
  BY <1>2, <1>3, <1>8, <1>9 DEF t

-----------------------------------------------------------------------------
(* Folds.                                                                  *)

\* f goes through the subsets of W from base: the element ch[s] is the last of
\* s, and stands for the argument el[ch[s]].
Goes(f, p, W, base, ch, el) ==
    f = [s \in SUBSET W |->
            IF s = {} THEN base ELSE Stepped(p, f[s \ {ch[s]}], el[ch[s]])]

\* The fold of the operator over W from base, as FoldSet defines it
Folded(p, W, base) ==
    LET iter[s \in SUBSET W] ==
            IF s = {} THEN base
            ELSE Stepped(p, iter[s \ {CHOOSE x \in s : TRUE}], CHOOSE x \in s : TRUE)
    IN  iter[W]

\* The fold over a sequence from base, as FoldLeft defines it
FoldedLeft(p, q, base) ==
    LET iter[s \in SUBSET DOMAIN q] ==
            IF s = {} THEN base ELSE Stepped(p, iter[s \ {Max(s)}], q[Max(s)])
    IN  iter[DOMAIN q]

\* There is a way through the subsets of W.
LEMMA FoldExists ==
    ASSUME NEW p, NEW W, IsFiniteSet(W), NEW base, NEW ch, NEW el,
           \A s \in SUBSET W : s # {} => ch[s] \in s
    PROVE  \E f : Goes(f, p, W, base, ch, el)
<1>1. \A s \in SUBSET W : IsFiniteSet(s) /\ Cardinality(s) \in Nat
  BY FS_Subset, FS_CardinalityType
<1>2. ASSUME NEW s \in SUBSET W, s # {}
      PROVE  /\ ch[s] \in s /\ s \ {ch[s]} \in SUBSET W
             /\ Cardinality(s \ {ch[s]}) = Cardinality(s) - 1
  BY <1>1, <1>2, FS_RemoveElement
<1> DEFINE Upto(n) == {s \in SUBSET W : Cardinality(s) <= n}
           Good(f, n) == \A s \in Upto(n) :
                            f[s] = IF s = {} THEN base ELSE Stepped(p, f[s \ {ch[s]}], el[ch[s]])
           Gets(n) == \E f : Good(f, n)
           T == {n \in Nat : Gets(n)}
<1>3. 0 \in T
  <2>1. Upto(0) = {{}}
    BY <1>1, FS_EmptySet
  <2> DEFINE f == [s \in Upto(0) |-> base]
  <2>2. Good(f, 0)
    BY <2>1
  <2>3. QED
    BY <2>2
<1>4. ASSUME NEW n \in Nat, n \in T PROVE n + 1 \in T
  <2>1. PICK f : Good(f, n)
    BY <1>4
  <2> DEFINE g == [s \in Upto(n + 1) |->
                     IF s \in Upto(n) THEN f[s] ELSE Stepped(p, f[s \ {ch[s]}], el[ch[s]])]
  <2>2. ASSUME NEW s \in Upto(n + 1), s # {}
        PROVE  s \ {ch[s]} \in Upto(n) /\ s \ {ch[s]} \in Upto(n + 1)
    BY <1>1, <1>2, <2>2
  <2>3. {} \in Upto(n)
    BY FS_EmptySet
  <2>4. Good(g, n + 1)
    <3>1. SUFFICES ASSUME NEW s \in Upto(n + 1)
                   PROVE  g[s] = IF s = {} THEN base ELSE Stepped(p, g[s \ {ch[s]}], el[ch[s]])
      OBVIOUS
    <3>2. CASE s = {}
      BY <2>1, <2>3, <3>2
    <3>3. CASE s # {}
      <4>1. s \ {ch[s]} \in Upto(n) /\ s \ {ch[s]} \in Upto(n + 1)
        BY <2>2, <3>3
      <4>2. g[s \ {ch[s]}] = f[s \ {ch[s]}]
        BY <4>1
      <4>3. g[s] = Stepped(p, f[s \ {ch[s]}], el[ch[s]])
        BY <2>1, <3>3
      <4>4. QED
        BY <3>3, <4>2, <4>3
    <3>4. QED
      BY <3>2, <3>3
  <2>5. Gets(n + 1)
    BY <2>4
  <2>6. QED
    <3> HIDE DEF Gets
    <3>1. QED
      BY <2>5
<1>5. Cardinality(W) \in T
  <2> HIDE DEF T
  <2>1. QED
    BY <1>1, <1>3, <1>4, NatInduct
<1>6. \A s \in SUBSET W : Cardinality(s) <= Cardinality(W)
  BY FS_Subset
<1>7. PICK f : Good(f, Cardinality(W))
  BY <1>5
<1>8. Upto(Cardinality(W)) = SUBSET W
  BY <1>6
<1> DEFINE g == [s \in SUBSET W |-> f[s]]
<1>9. Goes(g, p, W, base, ch, el)
  <2>1. \A s \in SUBSET W : g[s] = IF s = {} THEN base ELSE Stepped(p, g[s \ {ch[s]}], el[ch[s]])
    BY <1>7, <1>8
  <2>2. QED
    BY <2>1 DEF Goes
<1>10. QED
  BY <1>9

\* Each step takes a value that is right for the elements seen so far to one that is right
\* for one element more: the last value is right for all elements.
LEMMA FoldUnfolds ==
    ASSUME NEW p, NEW V, NEW W, IsFiniteSet(W), NEW base \in V[{}], NEW ch, NEW el,
           \A s \in SUBSET W : s # {} => ch[s] \in s,
           NEW h, Goes(h, p, W, base, ch, el),
           \A s \in SUBSET W : s # {} =>
                \A v \in V[s \ {ch[s]}] : v = h[s \ {ch[s]}] => Stepped(p, v, el[ch[s]]) \in V[s]
    PROVE  h[W] \in V[W]
<1>1. \A s \in SUBSET W : IsFiniteSet(s) /\ Cardinality(s) \in Nat
  BY FS_Subset, FS_CardinalityType
<1>2. ASSUME NEW s \in SUBSET W, s # {}
      PROVE  /\ ch[s] \in s /\ s \ {ch[s]} \in SUBSET W
             /\ Cardinality(s \ {ch[s]}) = Cardinality(s) - 1
  BY <1>1, <1>2, FS_RemoveElement
<1>3. \A s \in SUBSET W : h[s] = IF s = {} THEN base ELSE Stepped(p, h[s \ {ch[s]}], el[ch[s]])
  BY DEF Goes
<1> DEFINE Upto(n) == {s \in SUBSET W : Cardinality(s) <= n}
           U == {n \in Nat : \A s \in Upto(n) : h[s] \in V[s]}
<1>4. 0 \in U
  <2>1. Upto(0) = {{}}
    BY <1>1, FS_EmptySet
  <2>2. QED
    BY <1>3, <2>1
<1>5. ASSUME NEW n \in Nat, n \in U PROVE n + 1 \in U
  <2>1. SUFFICES ASSUME NEW s \in Upto(n + 1) PROVE h[s] \in V[s]
    OBVIOUS
  <2>2. CASE s = {}
    BY <1>3, <2>2
  <2>3. CASE s # {}
    <3>1. s \ {ch[s]} \in Upto(n) /\ ch[s] \in s
      BY <1>1, <1>2, <2>1, <2>3
    <3>2. h[s \ {ch[s]}] \in V[s \ {ch[s]}]
      BY <1>5, <3>1
    <3>3. h[s] = Stepped(p, h[s \ {ch[s]}], el[ch[s]])
      BY <1>3, <2>3
    <3>4. Stepped(p, h[s \ {ch[s]}], el[ch[s]]) \in V[s]
      BY <2>1, <2>3, <3>2
    <3>5. QED
      BY <3>3, <3>4
  <2>4. QED
    BY <2>2, <2>3
<1>6. Cardinality(W) \in U
  <2> HIDE DEF U
  <2>1. QED
    BY <1>1, <1>4, <1>5, NatInduct
<1>7. \A s \in SUBSET W : Cardinality(s) <= Cardinality(W)
  BY FS_Subset
<1>8. QED
  BY <1>6, <1>7

LEMMA FoldReaches ==
    ASSUME NEW p, NEW V, NEW W, IsFiniteSet(W), NEW base \in V[{}],
           \A s \in SUBSET W : \A x \in s : \A v \in V[s \ {x}] : Stepped(p, v, x) \in V[s]
    PROVE  Folded(p, W, base) \in V[W]
<1> DEFINE ch == [s \in SUBSET W |-> CHOOSE x \in s : TRUE]
           el == [x \in W |-> x]
           Is(f) == f = [s \in SUBSET W |->
                            IF s = {} THEN base
                            ELSE Stepped(p, f[s \ {CHOOSE x \in s : TRUE}], CHOOSE x \in s : TRUE)]
           h == CHOOSE f : Is(f)
<1>1. Folded(p, W, base) = h[W]
  BY DEF Folded
<1>2. ASSUME NEW s \in SUBSET W, s # {}
      PROVE  /\ ch[s] = (CHOOSE x \in s : TRUE) /\ el[ch[s]] = (CHOOSE x \in s : TRUE)
             /\ ch[s] \in s
  BY <1>2
<1>3. \A s \in SUBSET W : \A x \in s : \A v \in V[s \ {x}] : Stepped(p, v, el[x]) \in V[s]
  OBVIOUS
<1> HIDE DEF ch, el
<1>4. ASSUME NEW f PROVE Is(f) <=> Goes(f, p, W, base, ch, el)
  BY <1>2 DEF Goes
<1> HIDE DEF Is
<1>5. \E f : Goes(f, p, W, base, ch, el)
  BY <1>2, FoldExists
<1>6. Goes(h, p, W, base, ch, el)
  BY <1>4, <1>5
<1>7. ASSUME NEW s \in SUBSET W, s # {}, NEW v \in V[s \ {ch[s]}]
      PROVE  Stepped(p, v, el[ch[s]]) \in V[s]
  BY <1>2, <1>3, <1>7
<1> HIDE DEF h
<1>8. \A s \in SUBSET W : s # {} =>
          \A v \in V[s \ {ch[s]}] : v = h[s \ {ch[s]}] => Stepped(p, v, el[ch[s]]) \in V[s]
  BY <1>7
<1>9. \A s \in SUBSET W : s # {} => ch[s] \in s
  BY <1>2
<1>10. h[W] \in V[W]
  BY ONLY <1>6, <1>8, <1>9, FoldUnfolds, IsFiniteSet(W), base \in V[{}]
<1>11. QED
  BY <1>1, <1>10

\* The same where the values are in no set that is known, but something holds of them
LEMMA FoldHolds ==
    ASSUME NEW p, NEW W, IsFiniteSet(W), NEW base, Reached(p, base, {}),
           \A s \in SUBSET W : \A x \in s : \A v :
               Reached(p, v, s \ {x}) => Reached(p, Stepped(p, v, x), s)
    PROVE  Reached(p, Folded(p, W, base), W)
<1> DEFINE ch == [s \in SUBSET W |-> CHOOSE x \in s : TRUE]
           el == [x \in W |-> x]
           Is(f) == f = [s \in SUBSET W |->
                            IF s = {} THEN base
                            ELSE Stepped(p, f[s \ {CHOOSE x \in s : TRUE}], CHOOSE x \in s : TRUE)]
           h == CHOOSE f : Is(f)
           V == [s \in SUBSET W |-> {v \in {h[s]} : Reached(p, v, s)}]
<1>1. Folded(p, W, base) = h[W]
  BY DEF Folded
<1>2. ASSUME NEW s \in SUBSET W, s # {}
      PROVE  /\ ch[s] = (CHOOSE x \in s : TRUE) /\ el[ch[s]] = (CHOOSE x \in s : TRUE)
             /\ ch[s] \in s /\ el[ch[s]] = ch[s]
  BY <1>2
<1> HIDE DEF ch, el
<1>3. ASSUME NEW f PROVE Is(f) <=> Goes(f, p, W, base, ch, el)
  BY <1>2 DEF Goes
<1> HIDE DEF Is
<1>4. \E f : Goes(f, p, W, base, ch, el)
  BY <1>2, FoldExists
<1>5. Goes(h, p, W, base, ch, el)
  BY <1>3, <1>4
<1> HIDE DEF h
<1>6. \A s \in SUBSET W : h[s] = IF s = {} THEN base ELSE Stepped(p, h[s \ {ch[s]}], el[ch[s]])
  BY <1>5 DEF Goes
<1>7. base \in V[{}]
  BY <1>6
<1>8. ASSUME NEW s \in SUBSET W, s # {}, NEW v \in V[s \ {ch[s]}]
      PROVE  Stepped(p, v, el[ch[s]]) \in V[s]
  <2>1. v = h[s \ {ch[s]}] /\ Reached(p, v, s \ {ch[s]})
    BY <1>8
  <2>2. Reached(p, Stepped(p, v, ch[s]), s)
    BY <1>2, <1>8, <2>1
  <2>3. h[s] = Stepped(p, v, ch[s])
    BY <1>2, <1>6, <1>8, <2>1
  <2>4. QED
    BY <1>2, <1>8, <2>2, <2>3
<1>9. \A s \in SUBSET W : V[s] \subseteq {v \in {h[s]} : Reached(p, v, s)}
  OBVIOUS
<1> HIDE DEF V
<1>10. h[W] \in V[W]
  BY ZenonT(30), <1>2, <1>5, <1>7, <1>8, FoldUnfolds
<1>11. QED
  BY <1>1, <1>9, <1>10

\* The same of a fold over a sequence, for its positions
LEMMA FoldLeftReaches ==
    ASSUME NEW p, NEW V, NEW S, NEW q \in Seq(S), NEW base \in V[{}],
           \A s \in SUBSET DOMAIN q : \A i \in s : \A v \in V[s \ {i}] : Stepped(p, v, q[i]) \in V[s]
    PROVE  FoldedLeft(p, q, base) \in V[DOMAIN q]
<1> DEFINE W == DOMAIN q
           ch == [s \in SUBSET W |-> Max(s)]
           Is(f) == f = [s \in SUBSET W |->
                            IF s = {} THEN base ELSE Stepped(p, f[s \ {Max(s)}], q[Max(s)])]
           h == CHOOSE f : Is(f)
<1>1. FoldedLeft(p, q, base) = h[W]
  BY DEF FoldedLeft
<1>2. W = 1 .. Len(q) /\ Len(q) \in Nat /\ IsFiniteSet(W)
  BY LenProperties, FS_Interval
<1>3. ASSUME NEW s \in SUBSET W, s # {}
      PROVE  ch[s] = Max(s) /\ ch[s] \in s
  <2>1. s \in SUBSET Nat /\ \A x \in s : x <= Len(q)
    BY <1>2
  <2>2. PICK m \in s : \A x \in s : x <= m
    BY <1>2, <1>3, <2>1, GreatestInteger
  <2>3. Max(s) \in s
    BY <2>1, <2>2 DEF Max
  <2>4. QED
    BY <2>3
<1> HIDE DEF ch, W
<1>4. ASSUME NEW f PROVE Is(f) <=> Goes(f, p, W, base, ch, q)
  BY <1>3 DEF Goes
<1> HIDE DEF Is
<1>5. \E f : Goes(f, p, W, base, ch, q)
  BY <1>2, <1>3, FoldExists
<1>6. Goes(h, p, W, base, ch, q)
  BY <1>4, <1>5
<1>7. \A s \in SUBSET W : s # {} =>
          \A v \in V[s \ {ch[s]}] : Stepped(p, v, q[ch[s]]) \in V[s]
  BY <1>3 DEF W
<1> HIDE DEF h
<1>8. h[W] \in V[W]
  BY <1>2, <1>3, <1>6, <1>7, FoldUnfolds
<1>9. QED
  BY <1>1, <1>8 DEF W

\* A set of values that no step leaves is not left by the fold.
LEMMA FoldStays ==
    ASSUME NEW p, NEW V, NEW W, IsFiniteSet(W), NEW base \in V,
           \A x \in W : \A v \in V : Stepped(p, v, x) \in V
    PROVE  Folded(p, W, base) \in V
<1> DEFINE F == [s \in SUBSET W |-> V]
<1>1. base \in F[{}] /\ F[W] = V
  OBVIOUS
<1>2. \A s \in SUBSET W : \A x \in s : \A v \in F[s \ {x}] : Stepped(p, v, x) \in F[s]
  OBVIOUS
<1> HIDE DEF F
<1>3. Folded(p, W, base) \in F[W]
  BY <1>1, <1>2, FoldReaches
<1>4. QED
  BY <1>1, <1>3

LEMMA FoldLeftStays ==
    ASSUME NEW p, NEW V, NEW S, NEW q \in Seq(S), NEW base \in V,
           \A x \in S : \A v \in V : Stepped(p, v, x) \in V
    PROVE  FoldedLeft(p, q, base) \in V
<1> DEFINE F == [s \in SUBSET DOMAIN q |-> V]
<1>1. base \in F[{}] /\ F[DOMAIN q] = V
  OBVIOUS
<1>2. \A i \in DOMAIN q : q[i] \in S
  BY ElementOfSeq, LenProperties
<1>3. \A s \in SUBSET DOMAIN q : \A i \in s : \A v \in F[s \ {i}] : Stepped(p, v, q[i]) \in F[s]
  BY <1>2
<1> HIDE DEF F
<1>4. FoldedLeft(p, q, base) \in F[DOMAIN q]
  BY <1>1, <1>3, FoldLeftReaches
<1>5. QED
  BY <1>1, <1>4

=============================================================================
