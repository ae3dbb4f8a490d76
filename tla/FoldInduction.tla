---------------------------- MODULE FoldInduction ----------------------------
(***************************************************************************)
(* Induction for the loops of the kernel that the models write as folds:   *)
(* what every turn of the loop keeps holds when the loop has ended.        *)
(*                                                                         *)
(* The body of the loop is a parameter of this module: Step(c, v, w) is    *)
(* the value after a turn for element w that began with value v, where c   *)
(* stands for what the loop does not change.  So is what it keeps:         *)
(* Inv(d, done, v), where done says how far the loop is and d is what the  *)
(* value is compared with.  A proof instantiates the module with its loop. *)
(***************************************************************************)
EXTENDS Integers, Sequences, FiniteSets, FiniteSetsExt, FiniteSetTheorems,
        WellFoundedInduction, TLAPS

USE Zenon

CONSTANTS
  V,             \* the values that the loop computes with
  W,             \* the elements that it goes through
  Step(_, _, _),
  Inv(_, _, _)

\* The loop over a sequence, as FoldLeft of SequencesExt has it, and the loop
\* over a set.
Folded(c, base, seq) ==
  MapThenFoldSet(LAMBDA w, v : Step(c, v, w), base,
                 LAMBDA i : seq[i], LAMBDA S : Max(S), DOMAIN seq)

FoldedSet(c, base, S) == FoldSet(LAMBDA w, v : Step(c, v, w), base, S)

-----------------------------------------------------------------------------
\* A set of numbers that is not empty has a least element.
LEMMA LeastNat ==
  ASSUME NEW S \in SUBSET Nat, S # {}
  PROVE  \E n \in S : \A m \in S : n <= m
  <1> DEFINE R == {ss \in Nat \X Nat : ss[1] < ss[2]}
  <1>1. IsWellFoundedOn(R, Nat)
    BY NatLessThanWellFounded DEF OpToRel
  <1> HIDE DEF R
  <1>2. PICK x \in S : \A y \in S : ~(<<y, x>> \in R)
    BY <1>1, WFMin
  <1>3. \A y \in S : ~(y < x)
    BY <1>2 DEF R
  <1> QED
    BY <1>3, SMT

\* A set of numbers up to n that is not empty has a greatest element, Max.
LEMMA MaxOf ==
  ASSUME NEW n \in Nat, NEW S \in SUBSET (1..n), S # {}
  PROVE  Max(S) \in S /\ \A x \in S : x <= Max(S)
  <1> DEFINE D == {n - x : x \in S}
  <1>1. D \in SUBSET Nat /\ D # {}
    <2>1. \A x \in S : n - x \in Nat
      BY SMT
    <2> QED
      BY <2>1
  <1> HIDE DEF D
  <1>2. PICK d \in D : \A e \in D : d <= e
    BY <1>1, LeastNat
  <1>3. PICK x \in S : d = n - x
    BY DEF D
  <1>4. \A y \in S : n - y \in D
    BY DEF D
  <1>5. \A y \in S : x >= y
    BY <1>1, <1>2, <1>3, <1>4, SMT
  <1> QED
    BY <1>5 DEF Max

-----------------------------------------------------------------------------
(***************************************************************************)
(* MapThenFoldSet is defined by recursion over the subsets of a finite     *)
(* set.  The recursion has a solution; here its parameters are functions.  *)
(***************************************************************************)
IsChoice(ch, S) == \A s \in SUBSET S : s # {} => ch[s] \in s

HasFold(S, base, ch, F) ==
  \E g \in [SUBSET S -> V] :
    \A s \in SUBSET S :
      g[s] = IF s = {} THEN base ELSE F[ch[s]][g[s \ {ch[s]}]]

\* The solution is built for sets of more and more elements.
LEMMA FoldExists ==
  ASSUME NEW S, IsFiniteSet(S), NEW base \in V, NEW ch, IsChoice(ch, S),
         NEW F \in [S -> [V -> V]]
  PROVE  HasFold(S, base, ch, F)
  <1> DEFINE Small(n) == {s \in SUBSET S : Cardinality(s) <= n}
             Def(g, s) == IF s = {} THEN base ELSE F[ch[s]][g[s \ {ch[s]}]]
             Upto(n) == \E g \in [Small(n) -> V] :
                          \A s \in Small(n) : g[s] = Def(g, s)
             Bad == {n \in Nat : ~Upto(n)}
  <1>1. \A s \in SUBSET S : IsFiniteSet(s) /\ Cardinality(s) \in Nat
    BY FS_Subset, FS_CardinalityType
  <1>2. \A s \in SUBSET S : Cardinality(s) = 0 <=> s = {}
    BY <1>1, FS_EmptySet
  <1>3. \A s \in SUBSET S : s # {} =>
           /\ s \ {ch[s]} \in SUBSET S
           /\ Cardinality(s \ {ch[s]}) = Cardinality(s) - 1
           /\ ch[s] \in S
    BY <1>1, FS_RemoveElement DEF IsChoice
  <1>4. Upto(0)
    <2>1. Small(0) = {{}}
      BY <1>1, <1>2, FS_EmptySet, SMT
    <2> DEFINE g == [s \in Small(0) |-> base]
    <2>2. g \in [Small(0) -> V] /\ \A s \in Small(0) : g[s] = Def(g, s)
      BY <2>1
    <2> HIDE DEF g, Small
    <2> QED
      BY <2>2
  <1>5. ASSUME NEW n \in Nat, Upto(n) PROVE Upto(n + 1)
    <2>1. PICK g \in [Small(n) -> V] : \A s \in Small(n) : g[s] = Def(g, s)
      BY <1>5
    <2> DEFINE h == [s \in Small(n + 1) |-> Def(g, s)]
    <2>2. \A s \in Small(n + 1) : s # {} => s \ {ch[s]} \in Small(n)
      BY <1>1, <1>3, SMT
    <2>3. Small(n) \subseteq Small(n + 1)
      BY <1>1, SMT
    <2>4. \A s \in Small(n + 1) : Def(g, s) \in V
      BY <1>3, <2>2, SMT
    <2>5. h \in [Small(n + 1) -> V]
      BY <2>4
    <2>6. \A s \in Small(n) : h[s] = g[s]
      BY <2>1, <2>3
    <2>7. ASSUME NEW s \in Small(n + 1) PROVE h[s] = Def(h, s)
      <3>1. CASE s = {}
        BY <3>1
      <3>2. CASE s # {}
        <4>1. h[s \ {ch[s]}] = g[s \ {ch[s]}]
          BY <2>2, <2>6, <3>2
        <4> HIDE DEF Small
        <4> QED
          BY <4>1
      <3> QED
        BY <3>1, <3>2
    <2> HIDE DEF h, Small
    <2> QED
      BY <2>5, <2>7
  <1> HIDE DEF Upto
  <1>6. Bad = {}
    <2> SUFFICES ASSUME Bad # {} PROVE FALSE
      OBVIOUS
    <2>1. PICK n \in Bad : \A m \in Bad : n <= m
      BY LeastNat
    <2>2. n # 0
      BY <1>4
    <2>3. n - 1 \in Nat /\ n - 1 \notin Bad
      BY <2>1, <2>2, SMT
    <2> QED
      BY <1>5, <2>1, <2>3, SMT
  <1>7. Upto(Cardinality(S))
    BY <1>1, <1>6
  <1>8. Small(Cardinality(S)) = SUBSET S
    BY <1>1, FS_Subset
  <1> QED
    BY <1>7, <1>8 DEF Upto, HasFold

-----------------------------------------------------------------------------
(***************************************************************************)
(* A loop over a sequence: if a turn for the k-th element takes the        *)
(* invariant from k - 1 to k, the loop takes it from 0 to the end.         *)
(***************************************************************************)
THEOREM LoopInvariant ==
  ASSUME NEW c, NEW d, NEW base \in V, NEW seq \in Seq(W),
         \A k \in 1..Len(seq), v \in V : Step(c, v, seq[k]) \in V,
         Inv(d, 0, base),
         \A k \in 1..Len(seq), v \in V :
           Inv(d, k - 1, v) => Inv(d, k, Step(c, v, seq[k]))
  PROVE  /\ Folded(c, base, seq) \in V
         /\ Inv(d, Len(seq), Folded(c, base, seq))
  <1> DEFINE D == DOMAIN seq
             F == [i \in D |-> [v \in V |-> Step(c, v, seq[i])]]
             ch == [s \in SUBSET D |-> Max(s)]
             Def(g, s) == IF s = {} THEN base
                          ELSE Step(c, g[s \ {Max(s)}], seq[Max(s)])
             iter == CHOOSE g : g = [s \in SUBSET D |-> Def(g, s)]
  <1>1. D = 1..Len(seq) /\ Len(seq) \in Nat /\ \A i \in D : seq[i] \in W
    BY SMT
  <1>2. IsFiniteSet(D)
    BY <1>1, FS_Interval, SMT
  <1>3. \A s \in SUBSET D : s # {} => Max(s) \in s
    BY <1>1, MaxOf
  <1>4. F \in [D -> [V -> V]]
    BY <1>1
  <1>5. IsChoice(ch, D)
    BY <1>3 DEF IsChoice
  <1> HIDE DEF D
  <1>6. PICK g \in [SUBSET D -> V] :
           \A s \in SUBSET D :
             g[s] = IF s = {} THEN base ELSE F[ch[s]][g[s \ {ch[s]}]]
    <2> HIDE DEF F, ch
    <2>1. HasFold(D, base, ch, F)
      BY <1>2, <1>4, <1>5, FoldExists
    <2> QED
      BY <2>1 DEF HasFold
  <1>7. g = [s \in SUBSET D |-> Def(g, s)]
    <2>1. \A s \in SUBSET D : g[s] = Def(g, s)
      BY <1>3, <1>6
    <2> QED
      BY <2>1
  <1>8. iter = [s \in SUBSET D |-> Def(iter, s)]
    <2> DEFINE P(f) == f = [s \in SUBSET D |-> Def(f, s)]
    <2>1. P(g)
      BY <1>7
    <2>2. iter = CHOOSE f : P(f)
      OBVIOUS
    <2> HIDE DEF P, iter
    <2>3. P(iter)
      BY <2>1, <2>2
    <2> QED
      BY <2>3 DEF P
  <1>9. Folded(c, base, seq) = iter[D]
    BY DEF Folded, MapThenFoldSet, D
  <1> DEFINE Good(k) == iter[1..k] \in V /\ Inv(d, k, iter[1..k])
             Bad == {k \in 0..Len(seq) : ~Good(k)}
  <1> HIDE DEF iter
  <1>10. Good(0)
    <2>1. 1..0 = {} /\ {} \in SUBSET D
      BY SMT
    <2> QED
      BY <1>8, <2>1
  <1>11. ASSUME NEW k \in 1..Len(seq), Good(k - 1) PROVE Good(k)
    <2>1. 1..k \in SUBSET D /\ 1..k # {} /\ k \in D
      <3>1. k \in Nat /\ 1 <= k /\ k <= Len(seq)
        BY <1>1, SMT
      <3>2. \A j \in 1..k : j \in 1..Len(seq)
        BY <1>1, <3>1, SMT
      <3>3. k \in 1..k
        BY <3>1, SMT
      <3> QED
        BY <1>1, <3>2, <3>3
    <2>2. Max(1..k) = k
      <3>1. k \in Nat /\ 1..k \in SUBSET (1..k) /\ k \in 1..k
        BY <1>1, SMT
      <3>2. Max(1..k) \in 1..k /\ k <= Max(1..k)
        BY <2>1, <3>1, MaxOf
      <3> QED
        BY <3>1, <3>2, SMT
    <2>3. (1..k) \ {k} = 1..(k - 1)
      BY <1>1, SMT
    <2>4. iter[1..k] = Step(c, iter[1..(k - 1)], seq[k])
      BY <1>8, <2>1, <2>2, <2>3
    <2> QED
      BY <1>1, <1>11, <2>1, <2>4
  <1> HIDE DEF Good
  <1>12. Bad = {}
    <2> SUFFICES ASSUME Bad # {} PROVE FALSE
      OBVIOUS
    <2>1. PICK k \in Bad : \A m \in Bad : k <= m
      <3>1. Bad \in SUBSET Nat
        BY <1>1, SMT
      <3> QED
        BY <3>1, LeastNat
    <2>2. k \in 1..Len(seq) /\ k - 1 \notin Bad /\ k - 1 \in 0..Len(seq)
      BY <1>1, <1>10, <2>1, SMT
    <2> QED
      BY <1>11, <2>1, <2>2
  <1>13. Good(Len(seq))
    BY <1>1, <1>12, SMT
  <1> QED
    BY <1>1, <1>9, <1>13 DEF Good

(***************************************************************************)
(* A loop over a set, in an order nobody knows: if a turn for an element   *)
(* takes the invariant from the elements before to these and itself, the   *)
(* loop takes it from none to all.  What a turn does to a value without    *)
(* the invariant does not matter.                                          *)
(***************************************************************************)
THEOREM SetLoopInvariant ==
  ASSUME NEW c, NEW d, NEW base \in V, NEW S, IsFiniteSet(S),
         Inv(d, {}, base),
         \A T \in SUBSET S, v \in V : \A w \in S \ T :
           Inv(d, T, v) =>
             Step(c, v, w) \in V /\ Inv(d, T \cup {w}, Step(c, v, w))
  PROVE  /\ FoldedSet(c, base, S) \in V
         /\ Inv(d, S, FoldedSet(c, base, S))
  <1> DEFINE some(s) == CHOOSE x \in s : TRUE
             F == [w \in S |-> [v \in V |-> IF Step(c, v, w) \in V
                                            THEN Step(c, v, w) ELSE base]]
             ch == [s \in SUBSET S |-> some(s)]
             Def(g, s) == IF s = {} THEN base
                          ELSE Step(c, g[s \ {some(s)}], some(s))
             iter == CHOOSE g : g = [s \in SUBSET S |-> Def(g, s)]
             Good(g, s) == g[s] \in V /\ Inv(d, s, g[s])
  <1>1. \A s \in SUBSET S : s # {} => some(s) \in s
    OBVIOUS
  <1>2. FoldedSet(c, base, S) = iter[S]
    BY DEF FoldedSet, FoldSet, MapThenFoldSet
  <1> HIDE DEF some
  <1>3. F \in [S -> [V -> V]]
    OBVIOUS
  <1>4. IsChoice(ch, S)
    BY <1>1 DEF IsChoice
  <1>5. \A s \in SUBSET S : IsFiniteSet(s) /\ Cardinality(s) \in Nat
    BY FS_Subset, FS_CardinalityType
  \* A function that follows the loop wherever the invariant holds.
  <1>6. ASSUME NEW f, f[{}] = base,
               \A s \in SUBSET S : s # {} /\ Good(f, s \ {some(s)}) =>
                 f[s] = Step(c, f[s \ {some(s)}], some(s))
        PROVE  \A s \in SUBSET S : Good(f, s)
    <2> DEFINE Bad == {n \in Nat : \E s \in SUBSET S : Cardinality(s) = n /\ ~Good(f, s)}
    <2>1. Good(f, {})
      BY <1>6
    <2>2. ASSUME NEW s \in SUBSET S, s # {}, Good(f, s \ {some(s)}) PROVE Good(f, s)
      <3>1. f[s] = Step(c, f[s \ {some(s)}], some(s))
        BY <1>6, <2>2
      <3>2. (s \ {some(s)}) \cup {some(s)} = s /\ some(s) \in S \ (s \ {some(s)})
        BY <1>1, <2>2
      <3>3. s \ {some(s)} \in SUBSET S
        BY <2>2
      <3>4. /\ Step(c, f[s \ {some(s)}], some(s)) \in V
            /\ Inv(d, (s \ {some(s)}) \cup {some(s)},
                   Step(c, f[s \ {some(s)}], some(s)))
        BY <2>2, <3>2, <3>3
      <3> QED
        BY <3>1, <3>2, <3>4
    <2> HIDE DEF Good
    <2>3. Bad = {}
      <3> SUFFICES ASSUME Bad # {} PROVE FALSE
        OBVIOUS
      <3>1. PICK n \in Bad : \A m \in Bad : n <= m
        BY LeastNat
      <3>2. PICK s \in SUBSET S : Cardinality(s) = n /\ ~Good(f, s)
        OBVIOUS
      <3>3. s # {} /\ ~Good(f, s \ {some(s)})
        BY <2>1, <2>2, <3>2
      <3>4. Cardinality(s \ {some(s)}) = n - 1 /\ n - 1 \in Nat
        <4>1. Cardinality(s \ {some(s)}) = Cardinality(s) - 1
          BY <1>1, <1>5, <3>3, FS_RemoveElement
        <4>2. Cardinality(s \ {some(s)}) \in Nat
          BY <1>5
        <4> QED
          BY <3>2, <4>1, <4>2
      <3>5. n - 1 \in Bad
        BY <3>3, <3>4
      <3> QED
        BY <3>1, <3>4, <3>5, SMT
    <2> QED
      BY <1>5, <2>3
  <1>7. PICK g \in [SUBSET S -> V] :
           \A s \in SUBSET S :
             g[s] = IF s = {} THEN base ELSE F[ch[s]][g[s \ {ch[s]}]]
    <2> HIDE DEF F, ch
    <2>1. HasFold(S, base, ch, F)
      BY <1>3, <1>4, FoldExists
    <2> QED
      BY <2>1 DEF HasFold
  <1>8. ASSUME NEW s \in SUBSET S, s # {}, Good(g, s \ {some(s)})
        PROVE  g[s] = Step(c, g[s \ {some(s)}], some(s))
    <2>1. some(s) \in S \ (s \ {some(s)}) /\ s \ {some(s)} \in SUBSET S
      BY <1>1, <1>8
    <2>2. Step(c, g[s \ {some(s)}], some(s)) \in V
      BY <1>8, <2>1
    <2> QED
      BY <1>7, <1>8, <2>1, <2>2
  <1>9. g = [s \in SUBSET S |-> Def(g, s)]
    <2>1. g[{}] = base
      BY <1>7
    <2> HIDE DEF Good
    <2>2. \A s \in SUBSET S : Good(g, s)
      BY <1>6, <1>8, <2>1
    <2>3. \A s \in SUBSET S : g[s] = Def(g, s)
      BY <1>8, <2>1, <2>2
    <2> QED
      BY <2>3
  <1>10. iter = [s \in SUBSET S |-> Def(iter, s)]
    <2> DEFINE P(f) == f = [s \in SUBSET S |-> Def(f, s)]
    <2>1. P(g)
      BY <1>9
    <2>2. iter = CHOOSE f : P(f)
      OBVIOUS
    <2> HIDE DEF P, iter
    <2>3. P(iter)
      BY <2>1, <2>2
    <2> QED
      BY <2>3 DEF P
  <1> HIDE DEF iter
  <1>11. \A s \in SUBSET S : Good(iter, s)
    <2>1. iter[{}] = base
      BY <1>10
    <2>2. \A s \in SUBSET S : s # {} => iter[s] = Step(c, iter[s \ {some(s)}], some(s))
      BY <1>10
    <2> HIDE DEF Good
    <2> QED
      BY <1>6, <2>1, <2>2
  <1> QED
    BY <1>2, <1>11
=============================================================================
