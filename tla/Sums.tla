-------------------------------- MODULE Sums --------------------------------
(***************************************************************************)
(* What the proofs need of SumFunctionOnSet: that a sum over a finite set  *)
(* loses exactly the term that is taken out of the set.  The library       *)
(* defines the sum by a fold, a function that recurs on the set, so the    *)
(* function has to be shown to exist and to be the same for every set it   *)
(* is defined over.  Induction is used in the form of sets (a set of       *)
(* numbers with 0 and closed under + 1; a set of sets that contains a set  *)
(* when it contains each of its one-element-smaller subsets): as a rule    *)
(* about predicates the provers cannot apply it.                           *)
(***************************************************************************)
EXTENDS FiniteSetsExt, FiniteSetTheorems, WellFoundedInduction, TLAPS

\* Induction over the natural numbers: a set of them that has 0 and, with a
\* number, the next one, has them all.
LEMMA Climb ==
  ASSUME NEW S \in SUBSET Nat, 0 \in S, \A n \in S : n + 1 \in S
  PROVE  S = Nat
<1> DEFINE R == {ss \in Nat \X Nat : ss[1] < ss[2]}
<1> SUFFICES ASSUME Nat \ S # {} PROVE FALSE
  OBVIOUS
<1>1. IsWellFoundedOn(R, Nat)
  BY NatLessThanWellFounded DEF OpToRel
<1>2. PICK x \in Nat \ S : \A y \in Nat \ S : ~(<<y, x>> \in R)
  <2> HIDE DEF R
  <2> QED BY <1>1, WFMin
<1>3. \A y \in Nat \ S : ~(y < x)
  BY <1>2
<1>4. x - 1 \in Nat \ S
  BY x \in Nat
<1>5. QED
  BY <1>3, <1>4

\* The element the library's fold takes next.
Pick(T) == CHOOSE x \in T : TRUE

\* The subsets of S with at most n elements.
Upto(S, n) == {T \in SUBSET S : Cardinality(T) <= n}

\* g is the sum of f over each set of D, as the fold computes it.
Adds(g, f, D) ==
  g = [T \in D |-> IF T = {} THEN 0 ELSE f[Pick(T)] + g[T \ {Pick(T)}]]

\* A set that loses an element is a smaller one, ...
LEMMA Smaller ==
  ASSUME NEW S, IsFiniteSet(S), NEW n \in Nat, NEW T \in Upto(S, n + 1), NEW x \in T
  PROVE  T \ {x} \in Upto(S, n)
<1>1. T \in SUBSET S /\ IsFiniteSet(T)
  BY FS_Subset DEF Upto
<1>2. Cardinality(T \ {x}) = Cardinality(T) - 1 /\ Cardinality(T) \in Nat
  BY <1>1, FS_RemoveElement, FS_CardinalityType
<1>3. QED
  BY <1>1, <1>2 DEF Upto

\* ... and the fold does take an element of the set.
LEMMA Picked == ASSUME NEW T, T # {} PROVE Pick(T) \in T
BY DEF Pick

\* The function that the fold chooses exists: it is built up set size by set
\* size.
LEMMA AddsExists ==
  ASSUME NEW S, IsFiniteSet(S), NEW f
  PROVE  \E g : Adds(g, f, SUBSET S)
<1> DEFINE N == {n \in Nat : \E g : Adds(g, f, Upto(S, n))}
<1>1. 0 \in N
  <2>1. \A T \in Upto(S, 0) : T = {}
    BY FS_Subset, FS_EmptySet, FS_CardinalityType DEF Upto
  <2>2. Adds([T \in Upto(S, 0) |-> 0], f, Upto(S, 0))
    BY <2>1 DEF Adds
  <2>3. QED
    BY <2>2
<1>2. ASSUME NEW n \in N PROVE n + 1 \in N
  <2>1. PICK g : Adds(g, f, Upto(S, n))
    BY <1>2
  <2> DEFINE h == [T \in Upto(S, n + 1) |->
                     IF T \in Upto(S, n) THEN g[T] ELSE f[Pick(T)] + g[T \ {Pick(T)}]]
  <2>2. ASSUME NEW T \in Upto(S, n + 1)
        PROVE  h[T] = IF T = {} THEN 0 ELSE f[Pick(T)] + h[T \ {Pick(T)}]
    <3>1. CASE T = {}
      <4>1. T \in Upto(S, n)
        BY <3>1, FS_EmptySet DEF Upto
      <4>2. g[T] = 0
        BY <2>1, <3>1, <4>1 DEF Adds
      <4>3. QED
        BY <3>1, <4>1, <4>2
    <3>2. CASE T # {}
      <4>1. T \ {Pick(T)} \in Upto(S, n)
        BY <3>2, Picked, Smaller
      <4>2. T \ {Pick(T)} \in Upto(S, n + 1)
        BY <4>1, FS_CardinalityType, FS_Subset DEF Upto
      <4>3. h[T \ {Pick(T)}] = g[T \ {Pick(T)}]
        BY <4>1, <4>2
      <4>4. T \in Upto(S, n) => g[T] = f[Pick(T)] + g[T \ {Pick(T)}]
        BY <2>1, <3>2 DEF Adds
      <4>5. QED
        BY <3>2, <4>3, <4>4
    <3>3. QED
      BY <3>1, <3>2
  <2>3. Adds(h, f, Upto(S, n + 1))
    <3> HIDE DEF h
    <3>1. h = [T \in Upto(S, n + 1) |-> h[T]]
      BY DEF h
    <3>2. QED
      BY <2>2, <3>1 DEF Adds
  <2>4. QED
    BY <2>3
<1>3. N = Nat
  <2> HIDE DEF N
  <2>1. N \in SUBSET Nat
    BY DEF N
  <2>2. QED
    BY <1>1, <1>2, <2>1, Climb
<1>4. Cardinality(S) \in N /\ Upto(S, Cardinality(S)) = SUBSET S
  BY <1>3, FS_CardinalityType, FS_Subset DEF Upto
<1>5. QED
  BY <1>4

\* Two such functions agree where both are defined, ...
LEMMA AddsUnique ==
  ASSUME NEW S, IsFiniteSet(S), NEW f, NEW g, NEW h, NEW R \in SUBSET S,
         Adds(g, f, SUBSET S), Adds(h, f, SUBSET R)
  PROVE  g[R] = h[R]
<1> DEFINE N == {n \in Nat : \A T \in Upto(R, n) : g[T] = h[T]}
<1>0. IsFiniteSet(R)
  BY FS_Subset
<1>1. 0 \in N
  <2>1. \A T \in Upto(R, 0) : T = {}
    BY <1>0, FS_Subset, FS_EmptySet, FS_CardinalityType DEF Upto
  <2>2. g[{}] = 0 /\ h[{}] = 0
    BY DEF Adds
  <2>3. QED
    BY <2>1, <2>2
<1>2. ASSUME NEW n \in N PROVE n + 1 \in N
  <2>1. ASSUME NEW T \in Upto(R, n + 1) PROVE g[T] = h[T]
    <3>1. CASE T = {}
      BY <3>1 DEF Adds
    <3>2. CASE T # {}
      <4>1. g[T \ {Pick(T)}] = h[T \ {Pick(T)}]
        BY <1>0, <1>2, <3>2, Picked, Smaller
      <4>2. T \in SUBSET R /\ T \in SUBSET S
        BY DEF Upto
      <4>3. g[T] = f[Pick(T)] + g[T \ {Pick(T)}] /\ h[T] = f[Pick(T)] + h[T \ {Pick(T)}]
        BY <3>2, <4>2 DEF Adds
      <4>4. QED
        BY <4>1, <4>3
    <3>3. QED
      BY <3>1, <3>2
  <2>2. QED
    BY <2>1
<1>3. N = Nat
  <2> HIDE DEF N
  <2>1. N \in SUBSET Nat
    BY DEF N
  <2>2. QED
    BY <1>1, <1>2, <2>1, Climb
<1>4. Cardinality(R) \in N /\ R \in Upto(R, Cardinality(R))
  BY <1>0, <1>3, FS_CardinalityType DEF Upto
<1>5. QED
  BY <1>4

\* ... so that the sum is what any of them says.
LEMMA SumAdds ==
  ASSUME NEW S, IsFiniteSet(S), NEW f
  PROVE  \E g : Adds(g, f, SUBSET S) /\ SumFunctionOnSet(f, S) = g[S]
<1> DEFINE g == CHOOSE g : Adds(g, f, SUBSET S)
<1>1. SumFunctionOnSet(f, S) = g[S]
  BY DEF SumFunctionOnSet, FoldFunctionOnSet, MapThenFoldSet, Adds, Pick
<1>2. Adds(g, f, SUBSET S)
  BY AddsExists
<1>3. QED
  BY <1>1, <1>2

\* The sum over no element is 0.
LEMMA SumEmpty == ASSUME NEW f PROVE SumFunctionOnSet(f, {}) = 0
BY FS_EmptySet, SumAdds DEF Adds

\* The recursion equation of the sum.
LEMMA SumPicked ==
  ASSUME NEW S, IsFiniteSet(S), NEW f, S # {}
  PROVE  SumFunctionOnSet(f, S) = f[Pick(S)] + SumFunctionOnSet(f, S \ {Pick(S)})
<1>1. PICK g : Adds(g, f, SUBSET S) /\ SumFunctionOnSet(f, S) = g[S]
  BY SumAdds
<1> DEFINE R == S \ {Pick(S)}
<1>2. R \in SUBSET S /\ IsFiniteSet(R)
  BY FS_Subset
<1>3. PICK h : Adds(h, f, SUBSET R) /\ SumFunctionOnSet(f, R) = h[R]
  BY <1>2, SumAdds
<1>4. g[R] = h[R]
  BY <1>1, <1>2, <1>3, AddsUnique
<1>5. g[S] = f[Pick(S)] + g[R]
  BY <1>1 DEF Adds
<1>6. QED
  BY <1>1, <1>3, <1>4, <1>5

\* Induction over a finite set: a family that has a subset of S as soon as it
\* has all that lack one more element has S itself.
LEMMA SetClimb ==
  ASSUME NEW S, IsFiniteSet(S), NEW C,
         \A T \in SUBSET S : (\A x \in T : T \ {x} \in C) => T \in C
  PROVE  S \in C
<1> DEFINE N == {n \in Nat : Upto(S, n) \subseteq C}
<1>1. 0 \in N
  <2>1. \A T \in Upto(S, 0) : T = {}
    BY FS_Subset, FS_EmptySet, FS_CardinalityType DEF Upto
  <2>2. QED
    BY <2>1
<1>2. ASSUME NEW n \in N PROVE n + 1 \in N
  <2>1. ASSUME NEW T \in Upto(S, n + 1) PROVE T \in C
    <3>1. \A x \in T : T \ {x} \in Upto(S, n)
      BY Smaller
    <3>2. QED
      BY <1>2, <3>1 DEF Upto
  <2>2. QED
    BY <2>1
<1>3. N = Nat
  <2> HIDE DEF N
  <2>1. N \in SUBSET Nat
    BY DEF N
  <2>2. QED
    BY <1>1, <1>2, <2>1, Climb
<1>4. Cardinality(S) \in N /\ S \in Upto(S, Cardinality(S))
  BY <1>3, FS_CardinalityType DEF Upto
<1>5. QED
  BY <1>4

\* A sum of integers is an integer, one of naturals a natural.
LEMMA SumType ==
  ASSUME NEW S, IsFiniteSet(S), NEW f, \A x \in S : f[x] \in Int
  PROVE  /\ SumFunctionOnSet(f, S) \in Int
         /\ (\A x \in S : f[x] \in Nat) => SumFunctionOnSet(f, S) \in Nat
<1> DEFINE C == {T \in SUBSET S : /\ SumFunctionOnSet(f, T) \in Int
                                  /\ (\A x \in T : f[x] >= 0) => SumFunctionOnSet(f, T) >= 0}
<1>1. ASSUME NEW T \in SUBSET S, \A x \in T : T \ {x} \in C PROVE T \in C
  <2>1. CASE T = {}
    BY <2>1, SumEmpty
  <2>2. CASE T # {}
    <3>1. Pick(T) \in T /\ SumFunctionOnSet(f, T) = f[Pick(T)] + SumFunctionOnSet(f, T \ {Pick(T)})
      BY <2>2, Picked, FS_Subset, SumPicked
    <3>2. QED
      BY <1>1, <3>1
  <2>3. QED
    BY <2>1, <2>2
<1>2. S \in C
  <2> HIDE DEF C
  <2>1. QED
    BY <1>1, SetClimb
<1>3. QED
  BY <1>2

\* Only the terms of the set's own elements count.
LEMMA SumSame ==
  ASSUME NEW S, IsFiniteSet(S), NEW f, NEW g, \A x \in S : f[x] = g[x]
  PROVE  SumFunctionOnSet(f, S) = SumFunctionOnSet(g, S)
<1> DEFINE C == {T \in SUBSET S : SumFunctionOnSet(f, T) = SumFunctionOnSet(g, T)}
<1>1. ASSUME NEW T \in SUBSET S, \A x \in T : T \ {x} \in C PROVE T \in C
  <2>1. CASE T = {}
    BY <2>1, SumEmpty
  <2>2. CASE T # {}
    <3>1. /\ Pick(T) \in T
          /\ SumFunctionOnSet(f, T) = f[Pick(T)] + SumFunctionOnSet(f, T \ {Pick(T)})
          /\ SumFunctionOnSet(g, T) = g[Pick(T)] + SumFunctionOnSet(g, T \ {Pick(T)})
      BY <2>2, Picked, FS_Subset, SumPicked
    <3>2. QED
      BY <1>1, <3>1
  <2>3. QED
    BY <2>1, <2>2
<1>2. S \in C
  <2> HIDE DEF C
  <2>1. QED
    BY <1>1, SetClimb
<1>3. QED
  BY <1>2

\* Whichever element is taken out, the sum loses just its term.
LEMMA SumWithout ==
  ASSUME NEW S, IsFiniteSet(S), NEW f, \A x \in S : f[x] \in Int
  PROVE  \A x \in S : SumFunctionOnSet(f, S) = f[x] + SumFunctionOnSet(f, S \ {x})
<1> DEFINE Sum(T) == SumFunctionOnSet(f, T)
           C == {T \in SUBSET S : \A x \in T : Sum(T) = f[x] + Sum(T \ {x})}
<1>1. ASSUME NEW T \in SUBSET S, \A x \in T : T \ {x} \in C PROVE T \in C
  <2> SUFFICES ASSUME NEW x \in T PROVE Sum(T) = f[x] + Sum(T \ {x})
    OBVIOUS
  <2> DEFINE p == Pick(T)
  <2>1. p \in T /\ Sum(T) = f[p] + Sum(T \ {p})
    BY Picked, FS_Subset, SumPicked
  <2>2. CASE x # p
    <3> DEFINE V == (T \ {x}) \ {p}
    <3>1. V = (T \ {p}) \ {x} /\ IsFiniteSet(V) /\ V \in SUBSET S
      BY FS_Subset
    <3>2. Sum(T \ {p}) = f[x] + Sum(V)
      BY <1>1, <2>1, <2>2, <3>1
    <3>3. Sum(T \ {x}) = f[p] + Sum(V)
      BY <1>1, <2>1, <2>2
    <3>4. Sum(V) \in Int /\ f[x] \in Int /\ f[p] \in Int
      BY <2>1, <3>1, SumType
    <3>5. QED
      BY <2>1, <3>2, <3>3, <3>4
  <2>3. QED
    BY <2>1, <2>2
<1>2. S \in C
  <2> HIDE DEF C
  <2>1. QED
    BY <1>1, SetClimb
<1>3. QED
  BY <1>2

\* A sum gains the term of an element that is put in, ...
LEMMA SumWith ==
  ASSUME NEW S, IsFiniteSet(S), NEW x, x \notin S, NEW f, \A y \in S \cup {x} : f[y] \in Int
  PROVE  SumFunctionOnSet(f, S \cup {x}) = f[x] + SumFunctionOnSet(f, S)
<1>1. IsFiniteSet(S \cup {x}) /\ (S \cup {x}) \ {x} = S
  BY FS_AddElement
<1>2. QED
  BY <1>1, SumWithout

\* ... moves by the change of the one term that changes, ...
LEMMA SumMoves ==
  ASSUME NEW S, IsFiniteSet(S), NEW x \in S, NEW f, NEW g,
         \A y \in S : f[y] \in Int /\ g[y] \in Int,
         \A y \in S \ {x} : g[y] = f[y]
  PROVE  SumFunctionOnSet(g, S) = SumFunctionOnSet(f, S) - f[x] + g[x]
<1>1. IsFiniteSet(S \ {x})
  BY FS_RemoveElement
<1>2. SumFunctionOnSet(f, S \ {x}) = SumFunctionOnSet(g, S \ {x})
  BY <1>1, SumSame
<1>3. SumFunctionOnSet(f, S \ {x}) \in Int
  BY <1>1, SumType
<1>4. /\ SumFunctionOnSet(f, S) = f[x] + SumFunctionOnSet(f, S \ {x})
      /\ SumFunctionOnSet(g, S) = g[x] + SumFunctionOnSet(g, S \ {x})
  BY SumWithout
<1>5. QED
  BY <1>2, <1>3, <1>4

\* ... and is no less than the sum of smaller terms.
LEMMA SumAtLeast ==
  ASSUME NEW S, IsFiniteSet(S), NEW f, NEW g,
         \A x \in S : f[x] \in Int /\ g[x] \in Int /\ f[x] <= g[x]
  PROVE  SumFunctionOnSet(f, S) <= SumFunctionOnSet(g, S)
<1> DEFINE C == {T \in SUBSET S : SumFunctionOnSet(f, T) <= SumFunctionOnSet(g, T)}
<1>1. ASSUME NEW T \in SUBSET S, \A x \in T : T \ {x} \in C PROVE T \in C
  <2>1. CASE T = {}
    BY <2>1, SumEmpty
  <2>2. CASE T # {}
    <3>1. IsFiniteSet(T) /\ IsFiniteSet(T \ {Pick(T)}) /\ Pick(T) \in T
      BY <2>2, Picked, FS_Subset
    <3>2. /\ SumFunctionOnSet(f, T) = f[Pick(T)] + SumFunctionOnSet(f, T \ {Pick(T)})
          /\ SumFunctionOnSet(g, T) = g[Pick(T)] + SumFunctionOnSet(g, T \ {Pick(T)})
      BY <2>2, <3>1, SumPicked
    <3>3. /\ SumFunctionOnSet(f, T \ {Pick(T)}) \in Int
          /\ SumFunctionOnSet(g, T \ {Pick(T)}) \in Int
      BY <3>1, SumType
    <3>4. SumFunctionOnSet(f, T \ {Pick(T)}) <= SumFunctionOnSet(g, T \ {Pick(T)})
      BY <1>1, <3>1
    <3>5. QED
      BY <3>1, <3>2, <3>3, <3>4
  <2>3. QED
    BY <2>1, <2>2
<1>2. S \in C
  <2> HIDE DEF C
  <2>1. QED
    BY <1>1, SetClimb
<1>3. QED
  BY <1>2

\* A set counts one element at most when its elements are all the same.
LEMMA AtMostOne ==
  ASSUME NEW S
  PROVE  (\A x, y \in S : x = y) <=> (IsFiniteSet(S) /\ Cardinality(S) <= 1)
<1>1. ASSUME \A x, y \in S : x = y PROVE IsFiniteSet(S) /\ Cardinality(S) <= 1
  <2>1. CASE S = {}
    BY <2>1, FS_EmptySet
  <2>2. ASSUME NEW x \in S PROVE IsFiniteSet(S) /\ Cardinality(S) <= 1
    <3>1. S = {x}
      BY <1>1, <2>2
    <3>2. QED
      BY <3>1, FS_Singleton, 1 <= 1
  <2>3. QED
    BY <2>1, <2>2
<1>2. ASSUME IsFiniteSet(S), Cardinality(S) <= 1, NEW x \in S, NEW y \in S PROVE x = y
  <2>1. Cardinality(S) \in Nat /\ Cardinality(S \ {x}) = Cardinality(S) - 1 /\ IsFiniteSet(S \ {x})
    BY <1>2, FS_CardinalityType, FS_RemoveElement
  <2>2. Cardinality(S \ {x}) \in Nat
    BY <2>1, FS_CardinalityType
  <2>3. S \ {x} = {}
    BY <1>2, <2>1, <2>2, FS_EmptySet
  <2>4. QED
    BY <2>3
<1>3. QED
  BY <1>1, <1>2

\* Some element of a finite set ranks highest.
LEMMA Greatest ==
  ASSUME NEW S, IsFiniteSet(S), S # {}, NEW f, \A x \in S : f[x] \in Int
  PROVE  \E x \in S : \A y \in S : f[y] <= f[x]
<1> DEFINE C == {T \in SUBSET S : T # {} => \E x \in T : \A y \in T : f[y] <= f[x]}
<1>1. ASSUME NEW T \in SUBSET S, \A x \in T : T \ {x} \in C PROVE T \in C
  <2>1. ASSUME NEW t \in T PROVE \E x \in T : \A y \in T : f[y] <= f[x]
    <3>1. CASE T \ {t} = {}
      BY <2>1, <3>1
    <3>2. CASE T \ {t} # {}
      <4>1. PICK x \in T \ {t} : \A y \in T \ {t} : f[y] <= f[x]
        BY <1>1, <2>1, <3>2
      <4>2. \A y \in T : f[y] \in Int
        OBVIOUS
      <4>3. CASE f[t] <= f[x]
        BY <4>1, <4>3
      <4>4. CASE ~(f[t] <= f[x])
        <5>1. f[t] <= f[t] /\ \A y \in T \ {t} : f[y] <= f[t]
          BY <2>1, <4>1, <4>2, <4>4
        <5>2. QED
          BY <2>1, <5>1
      <4>5. QED
        BY <4>3, <4>4
    <3>3. QED
      BY <3>1, <3>2
  <2>2. QED
    BY <2>1
<1>2. S \in C
  <2> HIDE DEF C
  <2>1. QED
    BY <1>1, SetClimb
<1>3. QED
  BY <1>2

\* Nothing adds up to nothing.
LEMMA SumOfNothing ==
  ASSUME NEW S, IsFiniteSet(S), NEW f, \A x \in S : f[x] = 0
  PROVE  SumFunctionOnSet(f, S) = 0
<1> DEFINE C == {T \in SUBSET S : SumFunctionOnSet(f, T) = 0}
<1>1. ASSUME NEW T \in SUBSET S, \A x \in T : T \ {x} \in C PROVE T \in C
  <2>1. CASE T = {}
    BY <2>1, SumEmpty
  <2>2. CASE T # {}
    <3>1. Pick(T) \in T /\ SumFunctionOnSet(f, T) = f[Pick(T)] + SumFunctionOnSet(f, T \ {Pick(T)})
      BY <2>2, Picked, FS_Subset, SumPicked
    <3>2. QED
      BY <1>1, <3>1
  <2>3. QED
    BY <2>1, <2>2
<1>2. S \in C
  <2> HIDE DEF C
  <2>1. QED
    BY <1>1, SetClimb
<1>3. QED
  BY <1>2

\* A sum some of whose terms are raised by one grows by their number.
LEMMA SumRaised ==
  ASSUME NEW S, IsFiniteSet(S), NEW U \in SUBSET S, NEW f, NEW g,
         \A x \in S : f[x] \in Int /\ g[x] = IF x \in U THEN f[x] + 1 ELSE f[x]
  PROVE  SumFunctionOnSet(g, S) = SumFunctionOnSet(f, S) + Cardinality(U)
<1> DEFINE C == {T \in SUBSET S : SumFunctionOnSet(g, T) = SumFunctionOnSet(f, T) + Cardinality(U \cap T)}
<1>1. ASSUME NEW T \in SUBSET S, \A x \in T : T \ {x} \in C PROVE T \in C
  <2>1. CASE T = {}
    <3>1. SumFunctionOnSet(g, T) = 0 /\ SumFunctionOnSet(f, T) = 0 /\ Cardinality(U \cap T) = 0
      BY <2>1, SumEmpty, FS_EmptySet, U \cap {} = {}
    <3>2. QED
      BY <3>1
  <2>2. ASSUME NEW t \in T PROVE T \in C
    <3> DEFINE R == T \ {t}
    <3>1. IsFiniteSet(T) /\ IsFiniteSet(R) /\ IsFiniteSet(U \cap T) /\ IsFiniteSet(U \cap R)
      <4>1. T \subseteq S /\ R \subseteq S /\ U \cap T \subseteq S /\ U \cap R \subseteq S
        OBVIOUS
      <4>2. QED
        BY <4>1, FS_Subset
    <3>2. /\ SumFunctionOnSet(g, T) = g[t] + SumFunctionOnSet(g, R)
          /\ SumFunctionOnSet(f, T) = f[t] + SumFunctionOnSet(f, R)
      <4>1. \A x \in T : f[x] \in Int /\ g[x] \in Int
        OBVIOUS
      <4>2. QED
        BY <3>1, <4>1, SumWithout
    <3>3. /\ SumFunctionOnSet(g, R) = SumFunctionOnSet(f, R) + Cardinality(U \cap R)
          /\ SumFunctionOnSet(f, R) \in Int /\ Cardinality(U \cap R) \in Nat /\ f[t] \in Int
      <4>1. SumFunctionOnSet(f, R) \in Int
        BY <3>1, SumType
      <4>2. QED
        BY <1>1, <2>2, <3>1, <4>1, FS_CardinalityType
    <3>4. CASE t \in U
      <4>1. U \cap T = (U \cap R) \cup {t} /\ t \notin U \cap R
        BY <2>2, <3>4
      <4>2. Cardinality(U \cap T) = Cardinality(U \cap R) + 1
        BY <3>1, <4>1, FS_AddElement
      <4>3. g[t] = f[t] + 1
        BY <2>2, <3>4
      <4> HIDE DEF R
      <4>4. QED
        BY <3>2, <3>3, <4>2, <4>3
    <3>5. CASE t \notin U
      <4>1. U \cap T = U \cap R
        BY <2>2, <3>5
      <4>2. Cardinality(U \cap T) = Cardinality(U \cap R) /\ g[t] = f[t]
        BY <2>2, <3>5, <4>1
      <4> HIDE DEF R
      <4>3. QED
        BY <3>2, <3>3, <4>2
    <3>6. QED
      BY <3>4, <3>5
  <2>3. QED
    BY <2>1, <2>2
<1>2. S \in C
  <2> HIDE DEF C
  <2>1. QED
    BY <1>1, SetClimb
<1>3. U \cap S = U
  OBVIOUS
<1>4. QED
  BY <1>2, <1>3
\* A part of naturals adds up to no more than the whole.
LEMMA SumOfPart ==
  ASSUME NEW S, IsFiniteSet(S), NEW P \in SUBSET S, NEW f, \A x \in S : f[x] \in Nat
  PROVE  SumFunctionOnSet(f, P) <= SumFunctionOnSet(f, S)
<1> DEFINE C == {T \in SUBSET S : SumFunctionOnSet(f, P \cap T) <= SumFunctionOnSet(f, T)}
<1>1. ASSUME NEW T \in SUBSET S, \A x \in T : T \ {x} \in C PROVE T \in C
  <2>1. CASE T = {}
    <3>1. SumFunctionOnSet(f, P \cap T) = 0 /\ SumFunctionOnSet(f, T) = 0
      BY <2>1, SumEmpty, P \cap {} = {}
    <3>2. QED
      BY <3>1
  <2>2. ASSUME NEW t \in T PROVE T \in C
    <3> DEFINE R == T \ {t}
    <3>1. IsFiniteSet(T) /\ IsFiniteSet(R) /\ IsFiniteSet(P \cap T) /\ IsFiniteSet(P \cap R)
      <4>1. T \subseteq S /\ R \subseteq S /\ P \cap T \subseteq S /\ P \cap R \subseteq S
        OBVIOUS
      <4>2. QED
        BY <4>1, FS_Subset
    <3>2. /\ SumFunctionOnSet(f, R) \in Nat /\ SumFunctionOnSet(f, P \cap R) \in Nat /\ f[t] \in Nat
          /\ SumFunctionOnSet(f, P \cap R) <= SumFunctionOnSet(f, R)
      BY <1>1, <2>2, <3>1, SumType
    <3>3. SumFunctionOnSet(f, T) = f[t] + SumFunctionOnSet(f, R)
      BY <2>2, <3>1, SumWithout
    <3>4. SumFunctionOnSet(f, P \cap T) \in {f[t] + SumFunctionOnSet(f, P \cap R), SumFunctionOnSet(f, P \cap R)}
      <4>1. CASE t \in P
        <5>1. t \in P \cap T /\ (P \cap T) \ {t} = P \cap R /\ \A x \in P \cap T : f[x] \in Int
          BY <2>2, <4>1
        <5>2. SumFunctionOnSet(f, P \cap T) = f[t] + SumFunctionOnSet(f, (P \cap T) \ {t})
          BY <3>1, <5>1, SumWithout
        <5>3. QED
          BY <5>1, <5>2
      <4>2. CASE t \notin P
        <5>1. P \cap T = P \cap R
          BY <4>2
        <5>2. QED
          BY <5>1
      <4>3. QED
        BY <4>1, <4>2
    <3>5. SumFunctionOnSet(f, P \cap T) <= SumFunctionOnSet(f, T)
      BY <3>2, <3>3, <3>4
    <3>6. QED
      BY <3>5
  <2>3. QED
    BY <2>1, <2>2
<1> HIDE DEF C
<1>2. S \in C
  BY <1>1, SetClimb
<1>3. SumFunctionOnSet(f, P \cap S) <= SumFunctionOnSet(f, S) /\ P \cap S = P
  BY <1>2 DEF C
<1>4. QED
  BY <1>3
=============================================================================
