----------------------------- MODULE SumLemmas -----------------------------
(***************************************************************************)
(* Sums over finite sets, and the least and greatest of numbers, for the   *)
(* proofs about the receivers of knfsd-metrics-agent.                      *)
(*                                                                         *)
(* A sum is the recursion of MapThenSumSet, with the numbers as a          *)
(* function; proofs about it go by the size of the set, and induction is   *)
(* over a set of numbers, which the provers can instantiate.               *)
(***************************************************************************)
EXTENDS Integers, FiniteSetsExt, FiniteSetTheorems, WellFoundedInduction, TLAPS


\* A set with 0 in it that has n + 1 whenever it has n has all natural numbers.
LEMMA SetInduction ==
  ASSUME NEW S, 0 \in S, \A n \in Nat : n \in S => n + 1 \in S
  PROVE  \A n \in Nat : n \in S
<1>1. SUFFICES ASSUME Nat \ S # {} PROVE FALSE
  OBVIOUS
<1> DEFINE R == OpToRel(<, Nat)
<1>2. PICK x \in Nat \ S : \A y \in Nat \ S : <<y, x>> \notin R
  <2>1. IsWellFoundedOn(R, Nat)
    BY NatLessThanWellFounded, Zenon
  <2> HIDE DEF R
  <2> QED BY <1>1, <2>1, WFMin, Zenon
<1>3. x - 1 \in Nat /\ x - 1 \notin S
  <2>1. x # 0 OBVIOUS
  <2> QED BY <2>1
<1>4. <<x - 1, x>> \in R
  BY <1>3 DEF OpToRel
<1> QED BY <1>2, <1>3, <1>4, Zenon

\* The order in which a sum is taken, and one round of it.
First(s) == CHOOSE x \in s : TRUE
Added(h, g, s) == IF s = {} THEN 0 ELSE g[First(s)] + h[s \ {First(s)}]

\* h has the sums of g over the subsets of S.
IsSum(h, S, g) == h = [s \in SUBSET S |-> Added(h, g, s)]

\* The sum of g over S.
Total(g, S) == (CHOOSE h : IsSum(h, S, g))[S]

\* Taking an element out of a finite set leaves a smaller one: what induction
\* over the size of a set needs.
LEMMA SmallerSet ==
  ASSUME NEW S, IsFiniteSet(S), NEW s \in SUBSET S, s # {}
  PROVE  /\ First(s) \in s /\ s \ {First(s)} \in SUBSET S
         /\ IsFiniteSet(s) /\ Cardinality(s) \in Nat \ {0}
         /\ \A x \in s : /\ s \ {x} \in SUBSET S /\ Cardinality(s \ {x}) \in Nat
                         /\ Cardinality(s \ {x}) = Cardinality(s) - 1
<1>1. First(s) \in s
  BY DEF First
<1>2. IsFiniteSet(s)
  BY FS_Subset
<1>3. \A x \in s : IsFiniteSet(s \ {x}) /\ Cardinality(s \ {x}) = Cardinality(s) - 1
  BY <1>2, FS_RemoveElement
<1>4. Cardinality(s) \in Nat \ {0}
  BY <1>2, FS_CardinalityType, FS_EmptySet
<1> QED BY <1>1, <1>2, <1>3, <1>4, FS_CardinalityType

\* A set that has the empty set, and every subset of S once it has it without its
\* first element, has all subsets of S.
LEMMA SubsetInduction ==
  ASSUME NEW S, IsFiniteSet(S), NEW Q, {} \in Q,
         \A s \in SUBSET S : s # {} /\ s \ {First(s)} \in Q => s \in Q
  PROVE  \A s \in SUBSET S : s \in Q
<1> DEFINE P(n) == \A s \in SUBSET S : Cardinality(s) = n => s \in Q
           N == {n \in Nat : P(n)}
<1>1. 0 \in N
  <2>1. \A s \in SUBSET S : Cardinality(s) = 0 => s = {}
    BY SmallerSet
  <2> QED BY <2>1
<1>2. ASSUME NEW n \in Nat, P(n) PROVE P(n + 1)
  <2>1. SUFFICES ASSUME NEW s \in SUBSET S, Cardinality(s) = n + 1 PROVE s \in Q
    OBVIOUS
  <2>2. CASE s = {}
    BY <2>2
  <2>3. CASE s # {}
    <3>1. s \ {First(s)} \in SUBSET S /\ Cardinality(s \ {First(s)}) = n
      <4>1. /\ s \ {First(s)} \in SUBSET S
            /\ Cardinality(s \ {First(s)}) = Cardinality(s) - 1
        BY <2>3, SmallerSet, Zenon
      <4> QED BY <2>1, <4>1
    <3>2. s \ {First(s)} \in Q
      BY <1>2, <3>1, Zenon
    <3> QED BY <2>3, <3>2, Zenon
  <2> QED BY <2>2, <2>3, Zenon
<1>3. \A n \in Nat : n \in N
  <2>1. \A n \in Nat : n \in N => n + 1 \in N
    <3> HIDE DEF P
    <3> QED BY <1>2
  <2> HIDE DEF N
  <2> QED BY <1>1, <2>1, SetInduction, Zenon
<1>4. \A s \in SUBSET S : Cardinality(s) \in Nat
  BY FS_Subset, FS_CardinalityType
<1> QED BY <1>3, <1>4, Zenon

\* One round of a fold whose step is a function, and the table of its results for
\* the subsets of S.
Folded(h, base, step, s) == IF s = {} THEN base ELSE step[First(s), h[s \ {First(s)}]]
IsFold(h, S, base, step) == h = [s \in SUBSET S |-> Folded(h, base, step, s)]

\* The recursion that a fold is written as has a solution.
LEMMA FoldExists ==
  ASSUME NEW S, IsFiniteSet(S), NEW A, NEW base \in A, NEW step \in [S \X A -> A]
  PROVE  \E h \in [SUBSET S -> A] : IsFold(h, S, base, step)
<1> DEFINE P(n) == \E h \in [SUBSET S -> A] :
                     \A s \in SUBSET S : Cardinality(s) <= n => h[s] = Folded(h, base, step, s)
           N == {n \in Nat : P(n)}
<1>0. ASSUME NEW h \in [SUBSET S -> A], NEW s \in SUBSET S
      PROVE  Folded(h, base, step, s) \in A
  <2>1. CASE s = {}
    BY <2>1, Zenon DEF Folded
  <2>2. CASE s # {}
    <3>1. First(s) \in S /\ s \ {First(s)} \in SUBSET S
      BY <2>2, SmallerSet
    <3>2. <<First(s), h[s \ {First(s)}]>> \in S \X A
      BY <3>1
    <3> QED BY <2>2, <3>2 DEF Folded
  <2> QED BY <2>1, <2>2
<1>1. 0 \in N
  <2>1. ASSUME NEW s \in SUBSET S, Cardinality(s) <= 0
        PROVE  s = {}
    <3>1. s # {} => Cardinality(s) \in Nat \ {0}
      BY SmallerSet
    <3> QED BY <2>1, <3>1
  <2> DEFINE h == [s \in SUBSET S |-> base]
  <2>2. /\ h \in [SUBSET S -> A]
        /\ \A s \in SUBSET S : Cardinality(s) <= 0 => h[s] = Folded(h, base, step, s)
    BY <2>1 DEF Folded
  <2>3. P(0)
    <3> HIDE DEF h
    <3> QED BY <2>2
  <2> HIDE DEF P
  <2> QED BY <2>3
<1>2. ASSUME NEW n \in Nat, P(n)
      PROVE  P(n + 1)
  <2>1. PICK h \in [SUBSET S -> A] :
          \A s \in SUBSET S : Cardinality(s) <= n => h[s] = Folded(h, base, step, s)
    BY <1>2
  <2> DEFINE k == [s \in SUBSET S |-> Folded(h, base, step, s)]
  <2>2. k \in [SUBSET S -> A] /\ \A s \in SUBSET S : k[s] = Folded(h, base, step, s)
    BY <1>0, Zenon
  <2> HIDE DEF k
  <2>3. ASSUME NEW s \in SUBSET S, Cardinality(s) <= n + 1
        PROVE  k[s] = Folded(k, base, step, s)
    <3>1. CASE s = {}
      BY <2>2, <3>1, Zenon DEF Folded
    <3>2. CASE s # {}
      <4> DEFINE t == s \ {First(s)}
      <4>1. t \in SUBSET S /\ Cardinality(t) <= n
        BY <2>3, <3>2, SmallerSet
      <4>2. k[t] = h[t]
        <5> HIDE DEF t
        <5> QED BY <2>1, <2>2, <4>1
      <4> QED BY <2>2, <3>2, <4>2, Zenon DEF Folded
    <3> QED BY <3>1, <3>2
  <2> QED BY <2>2, <2>3
<1>3. \A n \in Nat : n \in N => n + 1 \in N
  <2> HIDE DEF P
  <2> QED BY <1>2
<1>4. P(Cardinality(S))
  <2>1. \A n \in Nat : n \in N
    <3> HIDE DEF N
    <3> QED BY <1>1, <1>3, SetInduction
  <2> HIDE DEF P
  <2> QED BY <2>1, FS_CardinalityType
<1>5. PICK h \in [SUBSET S -> A] :
        \A s \in SUBSET S : Cardinality(s) <= Cardinality(S) => h[s] = Folded(h, base, step, s)
  BY <1>4
<1>6. \A s \in SUBSET S : Cardinality(s) <= Cardinality(S)
  BY FS_Subset
<1> QED BY <1>5, <1>6 DEF IsFold

\* The sums of g over the subsets of a finite set exist: the recursion that a
\* sum is written as has a solution.
LEMMA SumExists ==
  ASSUME NEW S, IsFiniteSet(S), NEW g, \A x \in S : g[x] \in Int
  PROVE  \E h \in [SUBSET S -> Int] : IsSum(h, S, g)
<1> DEFINE P(n) == \E h \in [SUBSET S -> Int] :
                     \A s \in SUBSET S : Cardinality(s) <= n => h[s] = Added(h, g, s)
           N == {n \in Nat : P(n)}
<1>0. \A h \in [SUBSET S -> Int], s \in SUBSET S : Added(h, g, s) \in Int
  BY SmallerSet DEF Added
<1>1. 0 \in N
  <2>1. ASSUME NEW s \in SUBSET S, Cardinality(s) <= 0
        PROVE  s = {}
    <3>1. s # {} => Cardinality(s) \in Nat \ {0}
      BY SmallerSet
    <3> QED BY <2>1, <3>1
  <2> DEFINE h == [s \in SUBSET S |-> 0]
  <2>2. h \in [SUBSET S -> Int] /\ \A s \in SUBSET S : Cardinality(s) <= 0 => h[s] = Added(h, g, s)
    BY <2>1 DEF Added
  <2>3. P(0)
    <3> HIDE DEF h
    <3> QED BY <2>2
  <2> HIDE DEF P
  <2> QED BY <2>3
<1>2. ASSUME NEW n \in Nat, P(n)
      PROVE  P(n + 1)
  <2>1. PICK h \in [SUBSET S -> Int] :
          \A s \in SUBSET S : Cardinality(s) <= n => h[s] = Added(h, g, s)
    BY <1>2
  <2> DEFINE k == [s \in SUBSET S |-> Added(h, g, s)]
  <2>2. k \in [SUBSET S -> Int] /\ \A s \in SUBSET S : k[s] = Added(h, g, s)
    BY <1>0, Zenon
  <2> HIDE DEF k
  <2>3. ASSUME NEW s \in SUBSET S, Cardinality(s) <= n + 1
        PROVE  k[s] = Added(k, g, s)
    <3>1. CASE s = {}
      BY <2>2, <3>1, Zenon DEF Added
    <3>2. CASE s # {}
      <4> DEFINE t == s \ {First(s)}
      <4>1. t \in SUBSET S /\ Cardinality(t) <= n
        BY <2>3, <3>2, SmallerSet
      <4>2. k[t] = h[t]
        <5> HIDE DEF t
        <5> QED BY <2>1, <2>2, <4>1
      <4> QED BY <2>2, <3>2, <4>2 DEF Added
    <3> QED BY <3>1, <3>2
  <2> QED BY <2>2, <2>3
<1>3. \A n \in Nat : n \in N => n + 1 \in N
  <2> HIDE DEF P
  <2> QED BY <1>2
<1>4. P(Cardinality(S))
  <2>1. \A n \in Nat : n \in N
    <3> HIDE DEF N
    <3> QED BY <1>1, <1>3, SetInduction
  <2> HIDE DEF P
  <2> QED BY <2>1, FS_CardinalityType
<1>5. PICK h \in [SUBSET S -> Int] :
        \A s \in SUBSET S : Cardinality(s) <= Cardinality(S) => h[s] = Added(h, g, s)
  BY <1>4
<1>6. \A s \in SUBSET S : Cardinality(s) <= Cardinality(S)
  BY FS_Subset
<1> QED BY <1>5, <1>6 DEF IsSum

\* Two tables of sums agree where what they add up agrees.
LEMMA SumAgrees ==
  ASSUME NEW S, IsFiniteSet(S), NEW g, NEW h, IsSum(h, S, g),
         NEW R, NEW e, NEW k, IsSum(k, R, e),
         NEW D \in SUBSET (S \cap R), \A x \in D : g[x] \in Int /\ g[x] = e[x]
  PROVE  h[D] = k[D] /\ h[D] \in Int
<1> DEFINE P(n) == \A T \in SUBSET D : Cardinality(T) = n => h[T] = k[T] /\ h[T] \in Int
           N == {n \in Nat : P(n)}
<1>0. /\ IsFiniteSet(D)
      /\ \A T \in SUBSET D : h[T] = Added(h, g, T) /\ k[T] = Added(k, e, T)
  BY FS_Subset DEF IsSum
<1>1. 0 \in N
  <2>1. ASSUME NEW T \in SUBSET D, Cardinality(T) = 0
        PROVE  T = {}
    <3>1. T # {} => Cardinality(T) \in Nat \ {0}
      BY <1>0, SmallerSet
    <3> QED BY <2>1, <3>1
  <2>2. h[{}] = 0 /\ k[{}] = 0
    BY <1>0, Zenon DEF Added
  <2>3. P(0)
    BY <2>1, <2>2
  <2> HIDE DEF P
  <2> QED BY <2>3
<1>2. ASSUME NEW n \in Nat, P(n)
      PROVE  P(n + 1)
  <2> SUFFICES ASSUME NEW T \in SUBSET D, Cardinality(T) = n + 1
               PROVE  h[T] = k[T] /\ h[T] \in Int
    OBVIOUS
  <2> DEFINE t == T \ {First(T)}
  <2>1. T # {}
    BY FS_EmptySet
  <2>2. First(T) \in D /\ t \in SUBSET D /\ Cardinality(t) = n
    <3>1. First(T) \in T /\ \A x \in T : Cardinality(T \ {x}) = Cardinality(T) - 1
      BY <1>0, <2>1, SmallerSet
    <3> QED BY <3>1
  <2>3. h[t] = k[t] /\ h[t] \in Int
    <3> HIDE DEF t
    <3> QED BY <1>2, <2>2
  <2>4. h[T] = g[First(T)] + h[t] /\ k[T] = e[First(T)] + k[t]
    BY <1>0, <2>1, Zenon DEF Added
  <2> QED BY <2>2, <2>3, <2>4
<1>3. \A n \in Nat : n \in N => n + 1 \in N
  <2> HIDE DEF P
  <2> QED BY <1>2
<1>4. P(Cardinality(D))
  <2>1. \A n \in Nat : n \in N
    <3> HIDE DEF N
    <3> QED BY <1>1, <1>3, SetInduction
  <2> HIDE DEF P
  <2> QED BY <1>0, <2>1, FS_CardinalityType
<1> QED BY <1>4

\* A sum may be taken in any order: any element may be added last.
LEMMA SumAnyOrder ==
  ASSUME NEW S, IsFiniteSet(S), NEW g, NEW h, IsSum(h, S, g), \A x \in S : g[x] \in Int
  PROVE  \A T \in SUBSET S : /\ h[T] \in Int
                             /\ \A x \in T : h[T] = g[x] + h[T \ {x}]
<1> DEFINE P(n) == \A T \in SUBSET S : Cardinality(T) = n =>
                     \A x \in T : h[T] = g[x] + h[T \ {x}]
           N == {n \in Nat : P(n)}
<1>0. \A T \in SUBSET S : h[T] = Added(h, g, T)
  BY DEF IsSum
<1>1. ASSUME NEW T \in SUBSET S
      PROVE  h[T] \in Int
  <2>1. T \in SUBSET (S \cap S) /\ \A x \in T : g[x] \in Int /\ g[x] = g[x]
    OBVIOUS
  <2> QED BY <2>1, SumAgrees
<1>2. 0 \in N
  <2>1. ASSUME NEW T \in SUBSET S, Cardinality(T) = 0
        PROVE  T = {}
    <3>1. T # {} => Cardinality(T) \in Nat \ {0}
      BY SmallerSet
    <3> QED BY <2>1, <3>1
  <2>2. P(0)
    BY <2>1
  <2> HIDE DEF P
  <2> QED BY <2>2
<1>3. ASSUME NEW n \in Nat, P(n)
      PROVE  P(n + 1)
  <2> SUFFICES ASSUME NEW T \in SUBSET S, Cardinality(T) = n + 1, NEW x \in T
               PROVE  h[T] = g[x] + h[T \ {x}]
    OBVIOUS
  <2> DEFINE y == First(T)
  <2>1. y \in T /\ h[T] = g[y] + h[T \ {y}]
    <3>1. T # {} /\ y \in T
      BY SmallerSet
    <3> QED BY <1>0, <3>1 DEF Added
  <2> HIDE DEF y
  <2>2. CASE x # y
    <3>1. /\ T \ {x} \in SUBSET S /\ T \ {y} \in SUBSET S
          /\ Cardinality(T \ {x}) = n /\ Cardinality(T \ {y}) = n
      <4>1. T # {} /\ Cardinality(T) - 1 = n
        OBVIOUS
      <4>2. \A z \in T : T \ {z} \in SUBSET S /\ Cardinality(T \ {z}) = Cardinality(T) - 1
        BY <4>1, SmallerSet
      <4> QED BY <2>1, <4>1, <4>2
    <3>2. x \in T \ {y} /\ y \in T \ {x} /\ (T \ {y}) \ {x} = (T \ {x}) \ {y}
      BY <2>1, <2>2
    <3>3. h[T \ {y}] = g[x] + h[(T \ {y}) \ {x}] /\ h[T \ {x}] = g[y] + h[(T \ {x}) \ {y}]
      BY <1>3, <3>1, <3>2
    <3>4. h[(T \ {y}) \ {x}] \in Int
      BY <1>1
    <3>5. g[x] \in Int /\ g[y] \in Int
      BY <2>1
    <3>6. h[(T \ {x}) \ {y}] = h[(T \ {y}) \ {x}]
      BY <3>2, Zenon
    <3> HIDE DEF P, N
    <3> QED BY <2>1, <3>3, <3>4, <3>5, <3>6
  <2> QED BY <2>1, <2>2
<1>4. \A n \in Nat : n \in N => n + 1 \in N
  <2> HIDE DEF P
  <2> QED BY <1>3
<1>5. \A n \in Nat : P(n)
  <2>1. \A n \in Nat : n \in N
    <3> HIDE DEF N
    <3> QED BY <1>2, <1>4, SetInduction
  <2> HIDE DEF P
  <2> QED BY <2>1
<1>6. \A T \in SUBSET S : Cardinality(T) \in Nat
  BY FS_Subset, FS_CardinalityType
<1> QED BY <1>1, <1>5, <1>6

\* The total is what any table of sums has for the set.
LEMMA TotalIs ==
  ASSUME NEW S, IsFiniteSet(S), NEW g, \A x \in S : g[x] \in Int,
         NEW R, NEW e, NEW k, IsSum(k, R, e), S \subseteq R, \A x \in S : g[x] = e[x]
  PROVE  Total(g, S) = k[S] /\ Total(g, S) \in Int
<1> DEFINE h == CHOOSE f : IsSum(f, S, g)
<1>1. IsSum(h, S, g)
  BY SumExists, Zenon
<1>2. Total(g, S) = h[S]
  BY DEF Total
<1> HIDE DEF h
<1>3. S \in SUBSET (S \cap R) /\ \A x \in S : g[x] \in Int /\ g[x] = e[x]
  OBVIOUS
<1> QED BY <1>1, <1>2, <1>3, SumAgrees

\* Nothing adds up to 0.
LEMMA TotalEmpty ==
  ASSUME NEW g
  PROVE  Total(g, {}) = 0
<1>1. \A x \in {} : g[x] \in Int
  OBVIOUS
<1>2. PICK h : IsSum(h, {}, g)
  BY <1>1, SumExists, FS_EmptySet, Zenon
<1>3. h[{}] = 0
  BY <1>2 DEF IsSum, Added
<1> QED BY <1>1, <1>2, <1>3, TotalIs, FS_EmptySet

\* A total is that of all but one element and that element's number.
LEMMA TotalRemove ==
  ASSUME NEW S, IsFiniteSet(S), NEW g, \A x \in S : g[x] \in Int, NEW x \in S
  PROVE  /\ Total(g, S) = g[x] + Total(g, S \ {x})
         /\ Total(g, S) \in Int /\ Total(g, S \ {x}) \in Int
<1>1. PICK h : IsSum(h, S, g)
  BY SumExists, Zenon
<1>2. Total(g, S) = h[S] /\ Total(g, S) \in Int
  BY <1>1, TotalIs
<1>3. Total(g, S \ {x}) = h[S \ {x}] /\ Total(g, S \ {x}) \in Int
  <2>1. IsFiniteSet(S \ {x}) /\ S \ {x} \subseteq S /\ \A y \in S \ {x} : g[y] \in Int /\ g[y] = g[y]
    BY FS_RemoveElement
  <2> QED BY <1>1, <2>1, TotalIs
<1>4. h[S] = g[x] + h[S \ {x}]
  BY <1>1, SumAnyOrder
<1> QED BY <1>2, <1>3, <1>4

\* A total is a matter of the numbers that are added.
LEMMA TotalSame ==
  ASSUME NEW S, IsFiniteSet(S), NEW g, NEW e, \A x \in S : g[x] \in Int /\ g[x] = e[x]
  PROVE  Total(g, S) = Total(e, S)
<1>1. PICK h : IsSum(h, S, g)
  BY SumExists, Zenon
<1>2. S \subseteq S /\ \A x \in S : e[x] \in Int /\ g[x] \in Int /\ e[x] = g[x]
  OBVIOUS
<1>3. Total(g, S) = h[S]
  BY <1>1, <1>2, TotalIs
<1>4. Total(e, S) = h[S]
  BY <1>1, <1>2, TotalIs
<1> QED BY <1>3, <1>4

\* A total of natural numbers is one.
LEMMA TotalNat ==
  ASSUME NEW S, IsFiniteSet(S), NEW g, \A x \in S : g[x] \in Nat
  PROVE  Total(g, S) \in Nat
<1> DEFINE P(n) == \A T \in SUBSET S : Cardinality(T) = n => Total(g, T) \in Nat
           N == {n \in Nat : P(n)}
<1>1. 0 \in N
  <2>1. ASSUME NEW T \in SUBSET S, Cardinality(T) = 0
        PROVE  T = {}
    <3>1. T # {} => Cardinality(T) \in Nat \ {0}
      BY SmallerSet
    <3> QED BY <2>1, <3>1
  <2>2. P(0)
    BY <2>1, TotalEmpty
  <2> HIDE DEF P
  <2> QED BY <2>2
<1>2. ASSUME NEW n \in Nat, P(n)
      PROVE  P(n + 1)
  <2> SUFFICES ASSUME NEW T \in SUBSET S, Cardinality(T) = n + 1
               PROVE  Total(g, T) \in Nat
    OBVIOUS
  <2>1. T # {} /\ IsFiniteSet(T)
    BY FS_EmptySet, FS_Subset
  <2>2. PICK x \in T : TRUE
    BY <2>1
  <2>3. T \ {x} \in SUBSET S /\ Cardinality(T \ {x}) = n
    <3>1. Cardinality(T \ {x}) = Cardinality(T) - 1
      BY <2>1, <2>2, SmallerSet
    <3> QED BY <3>1
  <2>4. Total(g, T \ {x}) \in Nat
    BY <1>2, <2>3
  <2>5. g[x] \in Nat /\ \A y \in T : g[y] \in Int
    BY <2>2
  <2>6. Total(g, T) = g[x] + Total(g, T \ {x})
    BY <2>1, <2>2, <2>5, TotalRemove, Zenon
  <2> QED BY <2>4, <2>5, <2>6
<1>3. \A n \in Nat : n \in N => n + 1 \in N
  <2> HIDE DEF P
  <2> QED BY <1>2
<1>4. P(Cardinality(S))
  <2>1. \A n \in Nat : n \in N
    <3> HIDE DEF N
    <3> QED BY <1>1, <1>3, SetInduction
  <2> HIDE DEF P
  <2> QED BY <2>1, FS_CardinalityType
<1> QED BY <1>4

\* A part does not add up to more than the whole.
LEMMA TotalOfPart ==
  ASSUME NEW D, IsFiniteSet(D), NEW g, \A x \in D : g[x] \in Nat,
         NEW C \in SUBSET D, NEW e, \A x \in C : e[x] = g[x]
  PROVE  /\ Total(g, D) \in Nat /\ Total(e, C) \in Nat
         /\ Total(e, C) <= Total(g, D)
<1> DEFINE P(n) == \A T \in SUBSET D : Cardinality(T) = n => Total(g, T \cap C) <= Total(g, T)
           N == {n \in Nat : P(n)}
<1>0. \A T \in SUBSET D : IsFiniteSet(T) /\ \A x \in T : g[x] \in Nat /\ g[x] \in Int
  BY FS_Subset
<1>1. \A T \in SUBSET D : Total(g, T) \in Nat
  BY <1>0, TotalNat, Zenon
<1>2. 0 \in N
  <2>1. ASSUME NEW T \in SUBSET D, Cardinality(T) = 0
        PROVE  T = {}
    <3>1. T # {} => Cardinality(T) \in Nat \ {0}
      BY SmallerSet
    <3> QED BY <2>1, <3>1
  <2>2. P(0)
    <3>1. Total(g, {}) = 0 /\ {} \cap C = {}
      BY TotalEmpty
    <3> QED BY <2>1, <3>1
  <2> HIDE DEF P
  <2> QED BY <2>2
<1>3. ASSUME NEW n \in Nat, P(n)
      PROVE  P(n + 1)
  <2> SUFFICES ASSUME NEW T \in SUBSET D, Cardinality(T) = n + 1
               PROVE  Total(g, T \cap C) <= Total(g, T)
    OBVIOUS
  <2>1. T # {}
    BY FS_EmptySet
  <2>2. PICK x \in T : TRUE
    BY <2>1
  <2> DEFINE t == T \ {x}
  <2>3. t \in SUBSET D /\ Cardinality(t) = n
    <3>1. Cardinality(T \ {x}) = Cardinality(T) - 1
      BY <2>1, <2>2, SmallerSet
    <3> QED BY <3>1
  <2>4. Total(g, t \cap C) <= Total(g, t)
    <3> HIDE DEF t
    <3> QED BY <1>3, <2>3
  <2>5. Total(g, T) = g[x] + Total(g, t)
    BY <1>0, <2>2, TotalRemove, Zenon
  <2>6. CASE x \in C
    <3>1. T \cap C \in SUBSET D /\ x \in T \cap C /\ (T \cap C) \ {x} = t \cap C
      BY <2>2, <2>6
    <3>2. Total(g, T \cap C) = g[x] + Total(g, t \cap C)
      <4>1. Total(g, T \cap C) = g[x] + Total(g, (T \cap C) \ {x})
        BY <1>0, <3>1, TotalRemove, Zenon
      <4> QED BY <3>1, <4>1
    <3>3. Total(g, t) \in Nat /\ Total(g, t \cap C) \in Nat /\ g[x] \in Nat
      BY <1>0, <1>1
    <3> HIDE DEF t, P, N
    <3> QED BY <2>4, <2>5, <3>2, <3>3
  <2>7. CASE x \notin C
    <3>1. T \cap C = t \cap C
      BY <2>7
    <3>2. Total(g, t) \in Nat /\ Total(g, t \cap C) \in Nat /\ g[x] \in Nat
      BY <1>0, <1>1
    <3> HIDE DEF t, P, N
    <3> QED BY <2>4, <2>5, <3>1, <3>2
  <2> QED BY <2>6, <2>7
<1>4. \A n \in Nat : n \in N => n + 1 \in N
  <2> HIDE DEF P
  <2> QED BY <1>3
<1>5. P(Cardinality(D))
  <2>1. \A n \in Nat : n \in N
    <3> HIDE DEF N
    <3> QED BY <1>2, <1>4, SetInduction
  <2> HIDE DEF P
  <2> QED BY <2>1, FS_CardinalityType
<1>6. Total(g, C) <= Total(g, D)
  <2>1. D \cap C = C
    OBVIOUS
  <2> QED BY <1>5, <2>1
<1>7. Total(g, C) = Total(e, C)
  BY <1>0, TotalSame
<1> QED BY <1>1, <1>6, <1>7

\* Min picks the least of any natural numbers.
LEMMA LeastNumber ==
  ASSUME NEW S \in SUBSET Nat, S # {}
  PROVE  Min(S) \in S /\ \A y \in S : Min(S) <= y
<1> DEFINE R == OpToRel(<, Nat)
<1>1. PICK x \in S : \A y \in S : <<y, x>> \notin R
  <2>1. IsWellFoundedOn(R, Nat)
    BY NatLessThanWellFounded, Zenon
  <2> HIDE DEF R
  <2> QED BY <2>1, WFMin, Zenon
<1>2. \A y \in S : x <= y
  <2>1. SUFFICES ASSUME NEW y \in S, y < x PROVE FALSE
    OBVIOUS
  <2>2. <<y, x>> \in R
    BY <2>1 DEF OpToRel
  <2> QED BY <1>1, <2>1, <2>2, Zenon
<1> QED BY <1>2, Zenon DEF Min

\* Max picks the greatest of natural numbers that have a bound, and the bound
\* if it is one of them.
LEMMA GreatestNumber ==
  ASSUME NEW S \in SUBSET Nat, NEW m \in Nat, \A x \in S : x <= m, S # {}
  PROVE  /\ Max(S) \in S /\ \A y \in S : y <= Max(S)
         /\ m \in S => Max(S) = m
<1> DEFINE T == {m - x : x \in S}
<1>1. T \in SUBSET Nat /\ T # {}
  <2>1. \A x \in S : x \in Nat /\ m - x \in Nat
    OBVIOUS
  <2> QED BY <2>1, Zenon
<1>2. Min(T) \in T /\ \A y \in T : Min(T) <= y
  <2> HIDE DEF T
  <2> QED BY <1>1, LeastNumber
<1>3. PICK x \in S : Min(T) = m - x
  BY <1>2, Zenon
<1>4. ASSUME NEW y \in S
      PROVE  y <= x
  <2>1. m - y \in T
    OBVIOUS
  <2>2. m - x <= m - y
    BY <1>2, <1>3, <2>1, Zenon
  <2>3. x \in Nat /\ y \in Nat
    OBVIOUS
  <2> HIDE DEF T
  <2> QED BY <2>2, <2>3
<1>5. Max(S) \in S /\ \A y \in S : y <= Max(S)
  <2>1. \E z \in S : \A y \in S : z >= y
    BY <1>4
  <2>2. Max(S) = CHOOSE z \in S : \A y \in S : z >= y
    BY Zenon DEF Max
  <2>3. Max(S) \in S /\ \A y \in S : Max(S) >= y
    BY <2>1, <2>2, Zenon
  <2> QED BY <2>3
<1>6. m \in S => Max(S) = m
  <2>1. Max(S) \in Nat /\ Max(S) <= m
    BY <1>5, Zenon
  <2> QED BY <1>5, <2>1
<1> QED BY <1>5, <1>6

\* Max of two numbers.
LEMMA Greater ==
  ASSUME NEW m \in Nat, NEW n \in Nat
  PROVE  Max({m, n}) \in {m, n} /\ Max({m, n}) >= m /\ Max({m, n}) >= n
BY DEF Max
=============================================================================
