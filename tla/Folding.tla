------------------------------- MODULE Folding -------------------------------
(***************************************************************************)
(* Lemmas about the folds of the community modules: sums over finite sets  *)
(* and folds over sequences.  A fold is a function chosen over all subsets *)
(* of a finite set.  That such a function exists is shown by counting up   *)
(* to the size of the set, and what it computes by comparing two of its    *)
(* values one element apart.  Functions whose values are given one after   *)
(* the other follow, and with them the concatenation of a list of lists.   *)
(***************************************************************************)
EXTENDS Integers, Sequences, FiniteSets, FiniteSetsExt, SequencesExt,
        FiniteSetTheorems, WellFoundedInduction, TLAPS

\* Counting: a set that has zero, and n + 1 with n, has every number.  It is
\* stated of a set, since a predicate cannot be handed to the provers.
LEMMA Induct ==
  ASSUME NEW T, 0 \in T, \A n \in Nat : n \in T => n + 1 \in T
  PROVE  Nat \subseteq T
<1> DEFINE R == OpToRel(<, Nat)
           O == Nat \ T
<1>1. SUFFICES ASSUME O # {} PROVE FALSE
  OBVIOUS
<1>2. IsWellFoundedOn(R, Nat) BY NatLessThanWellFounded
<1>3. PICK n \in O : \A m \in O : <<m, n>> \notin R
  <2> HIDE DEF R
  <2> QED BY <1>1, <1>2, WFMin
<1>4. n # 0 /\ n - 1 \in Nat
  OBVIOUS
<1>5. n - 1 \in T
  <2>1. n - 1 \in O => <<n - 1, n>> \notin R
    BY <1>3
  <2>2. <<n - 1, n>> \in R
    BY <1>4 DEF OpToRel
  <2> QED BY <1>4, <2>1, <2>2
<1> QED BY <1>4, <1>5

\* The element that a sum takes next.
One(s) == CHOOSE x \in s : TRUE

\* g sums F over the members of D.
IsSum(g, D, F) ==
  g = [s \in D |-> IF s = {} THEN 0 ELSE F[One(s)] + g[s \ {One(s)}]]

\* The subsets of S with up to n elements.
Small(S, n) == {s \in SUBSET S : Cardinality(s) <= n}

\* A finite set without the element that a fold takes next.
LEMMA OneLess ==
  ASSUME NEW S, IsFiniteSet(S), NEW s \in SUBSET S, s # {}
  PROVE  /\ One(s) \in s /\ s \ {One(s)} \in SUBSET S
         /\ IsFiniteSet(s) /\ Cardinality(s) \in Nat
         /\ Cardinality(s \ {One(s)}) = Cardinality(s) - 1
<1>1. One(s) \in s BY DEF One
<1>2. IsFiniteSet(s) BY FS_Subset
<1>3. Cardinality(s \ {One(s)}) = Cardinality(s) - 1
  BY <1>1, <1>2, FS_RemoveElement
<1> QED BY <1>1, <1>2, <1>3, FS_CardinalityType

\* Subsets of a finite set are finite and no larger.
LEMMA SmallSet ==
  ASSUME NEW S, IsFiniteSet(S), NEW n \in Nat, NEW s \in Small(S, n)
  PROVE  /\ s \in SUBSET S /\ IsFiniteSet(s) /\ Cardinality(s) \in 0 .. n
         /\ n = 0 => s = {}
<1>1. s \in SUBSET S /\ IsFiniteSet(s) /\ Cardinality(s) <= n
  BY FS_Subset DEF Small
<1>2. Cardinality(s) \in Nat /\ (Cardinality(s) = 0 <=> s = {})
  BY <1>1, FS_CardinalityType, FS_EmptySet
<1> QED BY <1>1, <1>2

\* There is a function that sums F over every subset, one element at a time.
LEMMA SumExists ==
  ASSUME NEW S, IsFiniteSet(S), NEW F
  PROVE  \E g : IsSum(g, SUBSET S, F)
<1> DEFINE T == {n \in Nat : \E g : IsSum(g, Small(S, n), F)}
<1>1. 0 \in T
  <2> DEFINE g == [s \in Small(S, 0) |-> 0]
  <2>1. \A s \in Small(S, 0) : s = {}
    BY SmallSet
  <2>2. IsSum(g, Small(S, 0), F)
    BY <2>1 DEF IsSum
  <2> HIDE DEF g
  <2> QED BY <2>2
<1>2. ASSUME NEW n \in Nat, n \in T PROVE n + 1 \in T
  <2>1. PICK g : IsSum(g, Small(S, n), F)
    BY <1>2
  <2> DEFINE h == [s \in Small(S, n + 1) |->
                     IF s = {} THEN 0 ELSE F[One(s)] + g[s \ {One(s)}]]
  <2>2. \A s \in Small(S, n + 1) : s # {} => s \ {One(s)} \in Small(S, n) /\ s \ {One(s)} \in Small(S, n + 1)
    <3> SUFFICES ASSUME NEW s \in Small(S, n + 1), s # {}
                 PROVE  s \ {One(s)} \in Small(S, n) /\ s \ {One(s)} \in Small(S, n + 1)
      OBVIOUS
    <3>1. s \in SUBSET S /\ Cardinality(s) <= n + 1 BY DEF Small
    <3> QED BY <3>1, OneLess DEF Small
  <2>3. \A s \in Small(S, n) : s \in Small(S, n + 1) /\ h[s] = g[s]
    <3> SUFFICES ASSUME NEW s \in Small(S, n) PROVE s \in Small(S, n + 1) /\ h[s] = g[s]
      OBVIOUS
    <3>1. s \in Small(S, n + 1)
      BY FS_Subset, FS_CardinalityType DEF Small
    <3>2. g[s] = IF s = {} THEN 0 ELSE F[One(s)] + g[s \ {One(s)}]
      BY <2>1 DEF IsSum
    <3> QED BY <3>1, <3>2
  <2>4. \A s \in Small(S, n + 1) :
          h[s] = IF s = {} THEN 0 ELSE F[One(s)] + h[s \ {One(s)}]
    BY <2>2, <2>3
  <2>5. IsSum(h, Small(S, n + 1), F)
    <3>1. h = [s \in Small(S, n + 1) |-> h[s]] OBVIOUS
    <3> HIDE DEF h
    <3> QED BY <3>1, <2>4 DEF IsSum
  <2> HIDE DEF h
  <2> QED BY <2>5
<1>3. Nat \subseteq T
  <2> HIDE DEF T
  <2> QED BY <1>1, <1>2, Induct
<1>4. Cardinality(S) \in Nat BY FS_CardinalityType
<1>5. Small(S, Cardinality(S)) = SUBSET S
  BY FS_Subset DEF Small
<1> QED BY <1>3, <1>4, <1>5

\* A sum is at least each of its parts, and sums of functions of which one is
\* nowhere more than the other are equal only when the functions are.
LEMMA SumsCompare ==
  ASSUME NEW S, IsFiniteSet(S), NEW F, NEW G, NEW f, NEW g,
         \A x \in S : F[x] \in Nat /\ G[x] \in Nat /\ F[x] <= G[x],
         IsSum(f, SUBSET S, F), IsSum(g, SUBSET S, G)
  PROVE  /\ f[S] \in Nat /\ g[S] \in Nat /\ f[S] <= g[S]
         /\ f[S] = g[S] => \A x \in S : F[x] = G[x]
<1> DEFINE Good(s) == /\ f[s] \in Nat /\ g[s] \in Nat /\ f[s] <= g[s]
                      /\ f[s] = g[s] => \A x \in s : F[x] = G[x]
           T == {n \in Nat : \A s \in Small(S, n) : Good(s)}
<1>1. \A s \in SUBSET S : /\ f[s] = IF s = {} THEN 0 ELSE F[One(s)] + f[s \ {One(s)}]
                          /\ g[s] = IF s = {} THEN 0 ELSE G[One(s)] + g[s \ {One(s)}]
  BY DEF IsSum
<1>2. 0 \in T
  <2>1. ASSUME NEW s \in Small(S, 0) PROVE Good(s)
    <3>1. s = {} /\ s \in SUBSET S
      BY <2>1, SmallSet
    <3>2. f[s] = 0 /\ g[s] = 0
      BY <1>1, <3>1
    <3> QED BY <3>1, <3>2
  <2> HIDE DEF Good
  <2> QED BY <2>1
<1>3. ASSUME NEW n \in Nat, n \in T PROVE n + 1 \in T
  <2>1. \A s \in Small(S, n) : Good(s)
    <3> HIDE DEF Good
    <3> QED BY <1>3
  <2>2. Good({})
    <3>1. {} \in SUBSET S
      OBVIOUS
    <3>2. f[{}] = 0 /\ g[{}] = 0
      BY <1>1, <3>1
    <3> QED BY <3>2
  <2> SUFFICES \A s \in Small(S, n + 1) : Good(s)
    <3> HIDE DEF Good
    <3> QED OBVIOUS
  <2> SUFFICES ASSUME NEW s \in Small(S, n + 1), s # {} PROVE Good(s)
    <3>1. \A s \in Small(S, n + 1) : s = {} => Good(s)
      BY <2>2
    <3> HIDE DEF Good
    <3> QED BY <3>1
  <2> DEFINE x == One(s)
             r == s \ {One(s)}
  <2>3. x \in s /\ s \subseteq S /\ r \in Small(S, n)
    BY SmallSet, OneLess DEF Small
  <2>4. f[s] = F[x] + f[r] /\ g[s] = G[x] + g[r]
    BY <1>1, <2>3
  <2>5. Good(r)
    <3> HIDE DEF Good
    <3> QED BY <2>1, <2>3
  <2>6. F[x] \in Nat /\ G[x] \in Nat /\ F[x] <= G[x]
    BY <2>3
  <2>7. f[s] \in Nat /\ g[s] \in Nat /\ f[s] <= g[s]
    BY <2>4, <2>5, <2>6
  <2>8. ASSUME f[s] = g[s] PROVE \A y \in s : F[y] = G[y]
    <3>1. F[x] = G[x] /\ f[r] = g[r]
      BY <2>4, <2>5, <2>6, <2>8
    <3>2. \A y \in s : y = x \/ y \in r
      OBVIOUS
    <3> QED BY <2>5, <3>1, <3>2
  <2> QED BY <2>7, <2>8
<1>4. Nat \subseteq T
  <2> HIDE DEF T
  <2> QED BY <1>2, <1>3, Induct
<1>5. Cardinality(S) \in Nat /\ S \in Small(S, Cardinality(S))
  BY FS_CardinalityType DEF Small
<1> QED BY <1>4, <1>5

\* Nothing is in a sum of nothing.
LEMMA SumZero ==
  ASSUME NEW S, IsFiniteSet(S), NEW F, NEW f,
         \A x \in S : F[x] \in Nat, IsSum(f, SUBSET S, F)
  PROVE  /\ f[S] \in Nat
         /\ f[S] = 0 => \A x \in S : F[x] = 0
<1> DEFINE Z == [x \in S |-> 0]
           z == [s \in SUBSET S |-> 0]
<1>1. \A x \in S : Z[x] = 0 /\ Z[x] \in Nat /\ F[x] \in Nat /\ Z[x] <= F[x]
  OBVIOUS
<1>2. z[S] = 0 /\ \A s \in SUBSET S : z[s] = IF s = {} THEN 0 ELSE Z[One(s)] + z[s \ {One(s)}]
  BY OneLess
<1>3. IsSum(z, SUBSET S, Z)
  <2>1. z = [s \in SUBSET S |-> z[s]] OBVIOUS
  <2> HIDE DEF z, Z
  <2> QED BY <1>2, <2>1 DEF IsSum
<1> HIDE DEF z, Z
<1>4. f[S] \in Nat /\ (z[S] = f[S] => \A x \in S : Z[x] = F[x])
  BY <1>1, <1>3, SumsCompare
<1> QED BY <1>1, <1>2, <1>4

\* A sum is the same over every set of sets it is taken on.
LEMMA SumsAgree ==
  ASSUME NEW S, IsFiniteSet(S), NEW R \in SUBSET S, NEW F, NEW f, NEW g,
         IsSum(f, SUBSET S, F), IsSum(g, SUBSET R, F)
  PROVE  f[R] = g[R]
<1> DEFINE T == {n \in Nat : \A s \in Small(R, n) : f[s] = g[s]}
<1>1. \A s \in SUBSET R :
        /\ f[s] = IF s = {} THEN 0 ELSE F[One(s)] + f[s \ {One(s)}]
        /\ g[s] = IF s = {} THEN 0 ELSE F[One(s)] + g[s \ {One(s)}]
  BY DEF IsSum
<1>2. IsFiniteSet(R)
  BY FS_Subset
<1>3. 0 \in T
  <2>1. \A s \in Small(R, 0) : s = {} /\ s \in SUBSET R
    BY <1>2, SmallSet
  <2> QED BY <1>1, <2>1
<1>4. ASSUME NEW n \in Nat, n \in T PROVE n + 1 \in T
  <2> SUFFICES ASSUME NEW s \in Small(R, n + 1) PROVE f[s] = g[s]
    OBVIOUS
  <2>1. s \in SUBSET R /\ Cardinality(s) <= n + 1
    BY DEF Small
  <2>2. CASE s = {}
    BY <1>1, <2>1, <2>2
  <2>3. CASE s # {}
    <3>1. s \ {One(s)} \in Small(R, n)
      BY <1>2, <2>1, <2>3, OneLess DEF Small
    <3>2. f[s \ {One(s)}] = g[s \ {One(s)}]
      BY <1>4, <3>1
    <3> QED BY <1>1, <2>1, <2>3, <3>2
  <2> QED BY <2>2, <2>3
<1>5. Nat \subseteq T
  <2> HIDE DEF T
  <2> QED BY <1>3, <1>4, Induct
<1>6. Cardinality(R) \in Nat /\ R \in Small(R, Cardinality(R))
  BY <1>2, FS_CardinalityType DEF Small
<1> QED BY <1>5, <1>6

\* Whatever is taken first, a sum is one part and the sum of the others.
LEMMA SumAdds ==
  ASSUME NEW S, IsFiniteSet(S), NEW F, NEW f,
         \A x \in S : F[x] \in Int, IsSum(f, SUBSET S, F)
  PROVE  \A s \in SUBSET S : f[s] \in Int /\ \A x \in s : f[s] = F[x] + f[s \ {x}]
<1> DEFINE Good(s) == f[s] \in Int /\ \A x \in s : f[s] = F[x] + f[s \ {x}]
           T == {n \in Nat : \A s \in Small(S, n) : Good(s)}
<1>1. \A s \in SUBSET S : f[s] = IF s = {} THEN 0 ELSE F[One(s)] + f[s \ {One(s)}]
  BY DEF IsSum
<1>2. Good({})
  <2>1. {} \in SUBSET S
    OBVIOUS
  <2>2. f[{}] = 0
    BY <1>1, <2>1
  <2> QED BY <2>2
<1>3. 0 \in T
  <2>1. \A s \in Small(S, 0) : s = {}
    BY SmallSet
  <2> HIDE DEF Good
  <2> QED BY <1>2, <2>1
<1>4. ASSUME NEW n \in Nat, n \in T PROVE n + 1 \in T
  <2>1. \A s \in Small(S, n) : Good(s)
    <3> HIDE DEF Good
    <3> QED BY <1>4
  <2> SUFFICES ASSUME NEW s \in Small(S, n + 1), s # {} PROVE Good(s)
    <3> HIDE DEF Good
    <3> QED BY <1>2
  <2> DEFINE y == One(s)
  <2>2. /\ s \in SUBSET S /\ y \in s /\ F[y] \in Int
        /\ IsFiniteSet(s) /\ Cardinality(s) \in Nat /\ Cardinality(s) <= n + 1
    BY SmallSet, OneLess DEF Small
  <2>3. \A x \in s : s \ {x} \in Small(S, n)
    <3> SUFFICES ASSUME NEW x \in s PROVE s \ {x} \in Small(S, n)
      OBVIOUS
    <3>1. Cardinality(s \ {x}) = Cardinality(s) - 1
      BY <2>2, FS_RemoveElement
    <3> QED BY <2>2, <3>1 DEF Small
  <2>4. f[s] = F[y] + f[s \ {y}]
    BY <1>1, <2>2
  <2>5. f[s \ {y}] \in Int
    <3>1. Good(s \ {y})
      <4> HIDE DEF y, Good
      <4> QED BY <2>1, <2>2, <2>3
    <3> QED BY <3>1
  <2>6. ASSUME NEW x \in s, x # y PROVE f[s] = F[x] + f[s \ {x}]
    <3> HIDE DEF y
    <3>1. Good(s \ {y}) /\ Good(s \ {x})
      <4> HIDE DEF Good
      <4> QED BY <2>1, <2>2, <2>3
    <3>2. x \in s \ {y} /\ y \in s \ {x} /\ (s \ {y}) \ {x} = (s \ {x}) \ {y}
      BY <2>2, <2>6
    <3> DEFINE r == (s \ {x}) \ {y}
    <3>3. f[s \ {y}] = F[x] + f[r] /\ f[s \ {x}] = F[y] + f[r]
      BY <3>1, <3>2
    <3>4. s \ {x} \in Small(S, n) /\ r \in SUBSET S
      BY <2>2, <2>3
    <3>5. f[r] \in Int
      <4>1. r = {} => f[r] = 0
        BY <1>1, <3>4
      <4>2. r \in Small(S, n)
        <5>1. IsFiniteSet(s \ {x}) /\ Cardinality(s \ {x}) \in 0 .. n
          BY <3>4, SmallSet
        <5>2. Cardinality(r) = Cardinality(s \ {x}) - 1
          BY <3>2, <5>1, FS_RemoveElement
        <5> QED BY <3>4, <5>1, <5>2 DEF Small
      <4>3. Good(r)
        <5> HIDE DEF Good, r
        <5> QED BY <2>1, <4>2
      <4> QED BY <4>3
    <3>6. F[x] \in Int
      BY <2>2
    <3> HIDE DEF r
    <3> QED BY <2>2, <2>4, <3>3, <3>5, <3>6
  <2>7. f[s] \in Int
    BY <2>2, <2>4, <2>5
  <2>8. \A x \in s : f[s] = F[x] + f[s \ {x}]
    <3> HIDE DEF y
    <3> QED BY <2>4, <2>6
  <2> QED BY <2>7, <2>8
<1>5. Nat \subseteq T
  <2> HIDE DEF T
  <2> QED BY <1>3, <1>4, Induct
<1>6. \A s \in SUBSET S : Good(s)
  <2> HIDE DEF Good
  <2>1. Cardinality(S) \in Nat /\ \A s \in SUBSET S : s \in Small(S, Cardinality(S))
    BY FS_Subset, FS_CardinalityType DEF Small
  <2> QED BY <1>5, <2>1
<1> QED BY <1>6

-----------------------------------------------------------------------------
\* Positions.

\* A set of numbers up to N that is not empty has its largest.
LEMMA MaxIn ==
  ASSUME NEW N \in Nat, NEW s \in SUBSET (1 .. N), s # {}
  PROVE  Max(s) \in s /\ \A y \in s : y <= Max(s)
<1> DEFINE Has(t) == \E x \in t : \A y \in t : x >= y
           T == {n \in Nat : \A t \in SUBSET (1 .. n) : t # {} => Has(t)}
<1>1. 0 \in T
  <2>1. 1 .. 0 = {}
    OBVIOUS
  <2> HIDE DEF Has
  <2> QED BY <2>1
<1>2. ASSUME NEW n \in Nat, n \in T PROVE n + 1 \in T
  <2> SUFFICES ASSUME NEW t \in SUBSET (1 .. n + 1), t # {} PROVE Has(t)
    OBVIOUS
  <2>1. CASE n + 1 \in t
    BY <2>1
  <2>2. CASE n + 1 \notin t
    <3>1. t \in SUBSET (1 .. n)
      BY <2>2
    <3> QED BY <1>2, <3>1
  <2> QED BY <2>1, <2>2
<1>3. Nat \subseteq T
  <2> HIDE DEF T
  <2> QED BY <1>1, <1>2, Induct
<1>4. Has(s)
  BY <1>3
<1>5. PICK x \in s : \A y \in s : x >= y
  BY <1>4
<1>6. Max(s) \in s /\ \A y \in s : Max(s) >= y
  BY <1>5 DEF Max
<1>7. \A y \in s : y \in Int
  OBVIOUS
<1>8. PICK m \in s : m = Max(s)
  BY <1>6
<1>9. m \in Int /\ \A y \in s : m >= y
  BY <1>6, <1>7, <1>8
<1>10. \A y \in s : y <= m
  BY <1>7, <1>9
<1> QED BY <1>8, <1>10

\* A fold takes the largest number first, and one fewer is left.
LEMMA MaxLess ==
  ASSUME NEW N \in Nat, NEW n \in Nat, NEW s \in Small(1 .. N, n + 1), s # {}
  PROVE  s \ {Max(s)} \in Small(1 .. N, n) /\ s \ {Max(s)} \in Small(1 .. N, n + 1)
<1>1. IsFiniteSet(1 .. N)
  BY FS_Interval
<1>2. s \in SUBSET (1 .. N) /\ IsFiniteSet(s) /\ Cardinality(s) \in 0 .. n + 1
  BY <1>1, SmallSet
<1>3. Max(s) \in s
  BY <1>2, MaxIn
<1>4. Cardinality(s \ {Max(s)}) = Cardinality(s) - 1
  BY <1>2, <1>3, FS_RemoveElement
<1> DEFINE r == s \ {Max(s)}
<1>5. r \in SUBSET (1 .. N)
  BY <1>2
<1>6. Cardinality(r) <= n /\ Cardinality(r) <= n + 1
  BY <1>2, <1>4
<1> HIDE DEF r
<1>7. r \in Small(1 .. N, n) /\ r \in Small(1 .. N, n + 1)
  BY <1>5, <1>6 DEF Small
<1> QED BY <1>7 DEF r

\* The first n + 1 of N numbers.
LEMMA FirstNumbers ==
  \A n, N \in Nat : n + 1 <= N =>
    /\ 1 .. n + 1 \in SUBSET (1 .. N) /\ n + 1 \in 1 .. n + 1
    /\ (1 .. n + 1) \ {n + 1} = 1 .. n
<1> SUFFICES ASSUME NEW n \in Nat, NEW N \in Nat, n + 1 <= N
             PROVE  /\ 1 .. n + 1 \in SUBSET (1 .. N) /\ n + 1 \in 1 .. n + 1
                    /\ (1 .. n + 1) \ {n + 1} = 1 .. n
  OBVIOUS
<1>1. \A i \in 1 .. n + 1 : i \in 1 .. N
  OBVIOUS
<1>2. n + 1 \in 1 .. n + 1
  OBVIOUS
<1>3. \A i : i \in (1 .. n + 1) \ {n + 1} <=> i \in 1 .. n
  OBVIOUS
<1> QED BY <1>1, <1>2, <1>3

-----------------------------------------------------------------------------
\* Folds over sequences.

\* g folds G over the sets of positions in D, the largest position last.
IsFold(g, D, b, G) ==
  g = [s \in D |-> IF s = {} THEN b ELSE G[Max(s)][g[s \ {Max(s)}]]]

\* w starts with b, and G takes it from each number to the next up to N.
Follows(w, N, b, G) == w[0] = b /\ \A n \in 1 .. N : w[n] = G[n][w[n - 1]]

\* There is a function that folds G over every set of positions.
LEMMA FoldExists ==
  ASSUME NEW N \in Nat, NEW b, NEW G
  PROVE  \E g : IsFold(g, SUBSET (1 .. N), b, G)
<1> DEFINE S == 1 .. N
           T == {n \in Nat : \E g : IsFold(g, Small(S, n), b, G)}
<1>0. IsFiniteSet(S) /\ Cardinality(S) \in Nat
  BY FS_Interval, FS_CardinalityType
<1>1. 0 \in T
  <2> DEFINE f == [s \in Small(S, 0) |-> b]
  <2>1. \A s \in Small(S, 0) : s = {}
    BY <1>0, SmallSet
  <2>2. IsFold(f, Small(S, 0), b, G)
    BY <2>1 DEF IsFold
  <2> HIDE DEF f, S
  <2> QED BY <2>2
<1>2. ASSUME NEW n \in Nat, n \in T PROVE n + 1 \in T
  <2>1. PICK f : IsFold(f, Small(S, n), b, G)
    BY <1>2
  <2> DEFINE h == [s \in Small(S, n + 1) |->
                     IF s = {} THEN b ELSE G[Max(s)][f[s \ {Max(s)}]]]
  <2>2. \A s \in Small(S, n + 1) : s # {} =>
          s \ {Max(s)} \in Small(S, n) /\ s \ {Max(s)} \in Small(S, n + 1)
    BY MaxLess
  <2>3. \A s \in Small(S, n) : s \in Small(S, n + 1) /\ h[s] = f[s]
    <3> SUFFICES ASSUME NEW s \in Small(S, n) PROVE s \in Small(S, n + 1) /\ h[s] = f[s]
      OBVIOUS
    <3>1. s \in Small(S, n + 1)
      <4> HIDE DEF S
      <4> QED BY <1>0, SmallSet DEF Small
    <3>2. f[s] = IF s = {} THEN b ELSE G[Max(s)][f[s \ {Max(s)}]]
      <4> HIDE DEF S
      <4> QED BY <2>1 DEF IsFold
    <3> HIDE DEF S
    <3> QED BY <3>1, <3>2
  <2>4. \A s \in Small(S, n + 1) :
          h[s] = IF s = {} THEN b ELSE G[Max(s)][h[s \ {Max(s)}]]
    <3> HIDE DEF S
    <3> QED BY <2>2, <2>3
  <2>5. IsFold(h, Small(S, n + 1), b, G)
    <3>1. h = [s \in Small(S, n + 1) |-> h[s]] OBVIOUS
    <3> HIDE DEF h, S
    <3> QED BY <3>1, <2>4 DEF IsFold
  <2> HIDE DEF h, S
  <2> QED BY <2>5
<1>3. Nat \subseteq T
  <2> HIDE DEF T
  <2> QED BY <1>1, <1>2, Induct
<1>4. Small(S, Cardinality(S)) = SUBSET S
  <2> HIDE DEF S
  <2> QED BY <1>0, FS_Subset DEF Small
<1>5. \E g : IsFold(g, Small(S, Cardinality(S)), b, G)
  <2> HIDE DEF S
  <2> QED BY <1>0, <1>3
<1> QED BY <1>4, <1>5

\* Such a function, followed position by position.
LEMMA FoldSteps ==
  ASSUME NEW N \in Nat, NEW b, NEW G, NEW g, IsFold(g, SUBSET (1 .. N), b, G)
  PROVE  Follows([n \in 0 .. N |-> g[1 .. n]], N, b, G)
<1>1. \A s \in SUBSET (1 .. N) :
        g[s] = IF s = {} THEN b ELSE G[Max(s)][g[s \ {Max(s)}]]
  BY DEF IsFold
<1>2. g[1 .. 0] = b
  <2>1. {} \in SUBSET (1 .. N) /\ 1 .. 0 = {}
    OBVIOUS
  <2> QED BY <1>1, <2>1
<1>3. ASSUME NEW n \in 1 .. N PROVE g[1 .. n] = G[n][g[1 .. n - 1]]
  <2>1. n - 1 \in Nat /\ (n - 1) + 1 = n /\ n <= N
    OBVIOUS
  <2>2. 1 .. n \in SUBSET (1 .. N) /\ n \in 1 .. n /\ (1 .. n) \ {n} = 1 .. n - 1
    BY <2>1, FirstNumbers
  <2>3. Max(1 .. n) \in 1 .. n /\ \A y \in 1 .. n : y <= Max(1 .. n)
    BY <2>2, MaxIn
  <2>4. Max(1 .. n) = n
    <3>1. n <= Max(1 .. n)
      BY <2>2, <2>3
    <3> QED BY <2>3, <3>1
  <2> QED BY <1>1, <2>2, <2>4
<1>4. \A n \in 1 .. N : n \in 0 .. N /\ n - 1 \in 0 .. N
  OBVIOUS
<1> DEFINE w == [n \in 0 .. N |-> g[1 .. n]]
<1>5. w[0] = b
  BY <1>2
<1>6. \A n \in 1 .. N : w[n] = G[n][w[n - 1]]
  BY <1>3, <1>4
<1> HIDE DEF w
<1>7. Follows(w, N, b, G)
  BY <1>5, <1>6 DEF Follows
<1> QED BY <1>7 DEF w

\* A fold stays in a set that every step stays in.
LEMMA FoldStays ==
  ASSUME NEW N \in Nat, NEW V, NEW b \in V, NEW G, NEW g, IsFold(g, SUBSET (1 .. N), b, G),
         \A n \in 1 .. N : \A v \in V : G[n][v] \in V
  PROVE  \A s \in SUBSET (1 .. N) : g[s] \in V
<1> DEFINE S == 1 .. N
           T == {n \in Nat : \A s \in Small(S, n) : g[s] \in V}
<1>0. IsFiniteSet(S) /\ Cardinality(S) \in Nat
  BY FS_Interval, FS_CardinalityType
<1>1. \A s \in SUBSET S :
        g[s] = IF s = {} THEN b ELSE G[Max(s)][g[s \ {Max(s)}]]
  BY DEF IsFold
<1>2. 0 \in T
  <2>1. \A s \in Small(S, 0) : s = {} /\ s \in SUBSET S
    BY <1>0, SmallSet
  <2> HIDE DEF S
  <2> QED BY <1>1, <2>1
<1>3. ASSUME NEW n \in Nat, n \in T PROVE n + 1 \in T
  <2> SUFFICES ASSUME NEW s \in Small(S, n + 1) PROVE g[s] \in V
    OBVIOUS
  <2>1. s \in SUBSET S
    BY DEF Small
  <2>0. CASE s = {}
    BY <1>1, <2>0, <2>1
  <2> SUFFICES ASSUME s # {} PROVE g[s] \in V
    BY <2>0
  <2>2. Max(s) \in S
    BY <2>1, MaxIn
  <2>3. s \ {Max(s)} \in Small(S, n)
    BY MaxLess
  <2>4. g[s \ {Max(s)}] \in V
    BY <1>3, <2>3
  <2> HIDE DEF S
  <2>5. g[s] = G[Max(s)][g[s \ {Max(s)}]]
    BY <1>1, <2>1
  <2> QED BY <2>2, <2>4, <2>5 DEF S
<1>4. Nat \subseteq T
  <2> HIDE DEF T
  <2> QED BY <1>2, <1>3, Induct
<1>5. Small(S, Cardinality(S)) = SUBSET S
  <2> HIDE DEF S
  <2> QED BY <1>0, FS_Subset DEF Small
<1>6. \A s \in Small(S, Cardinality(S)) : g[s] \in V
  <2> HIDE DEF S
  <2> QED BY <1>0, <1>4
<1> QED BY <1>5, <1>6

\* A function that is given by its first value and the step to the next.
LEMMA Recursion ==
  ASSUME NEW N \in Nat, NEW b, NEW G
  PROVE  \E w : Follows(w, N, b, G)
<1>1. PICK g : IsFold(g, SUBSET (1 .. N), b, G)
  BY FoldExists
<1>2. Follows([n \in 0 .. N |-> g[1 .. n]], N, b, G)
  <2> DEFINE D == SUBSET (1 .. N)
  <2>1. IsFold(g, D, b, G)
    BY <1>1
  <2> QED BY <1>1, FoldSteps
<1> QED BY <1>2

\* A concatenation has what its two parts have.
LEMMA ToSetOfConcat ==
  ASSUME NEW U, NEW s \in Seq(U), NEW t \in Seq(U)
  PROVE  \A x : x \in ToSet(s \o t) <=> x \in ToSet(s) \/ x \in ToSet(t)
<1>1. /\ Len(s) \in Nat /\ Len(t) \in Nat /\ DOMAIN s = 1 .. Len(s) /\ DOMAIN t = 1 .. Len(t)
      /\ DOMAIN (s \o t) = 1 .. Len(s) + Len(t)
      /\ \A i \in 1 .. Len(s) + Len(t) : (s \o t)[i] = IF i <= Len(s) THEN s[i] ELSE t[i - Len(s)]
  OBVIOUS
<1> DEFINE c == s \o t
<1>2. ASSUME NEW x, x \in ToSet(c) PROVE x \in ToSet(s) \/ x \in ToSet(t)
  <2>1. PICK i \in 1 .. Len(s) + Len(t) : x = c[i]
    BY <1>1, <1>2 DEF ToSet
  <2>2. CASE i <= Len(s)
    BY <1>1, <2>1, <2>2 DEF ToSet
  <2>3. CASE i > Len(s)
    <3>1. i - Len(s) \in 1 .. Len(t)
      BY <1>1, <2>3
    <3> QED BY <1>1, <2>1, <2>3, <3>1 DEF ToSet
  <2> QED BY <1>1, <2>2, <2>3
<1>3. ASSUME NEW x, x \in ToSet(s) PROVE x \in ToSet(c)
  <2>1. PICK i \in 1 .. Len(s) : x = s[i]
    BY <1>1, <1>3 DEF ToSet
  <2>2. i \in 1 .. Len(s) + Len(t) /\ c[i] = x
    BY <1>1, <2>1
  <2> QED BY <1>1, <2>2 DEF ToSet
<1>4. ASSUME NEW x, x \in ToSet(t) PROVE x \in ToSet(c)
  <2>1. PICK i \in 1 .. Len(t) : x = t[i]
    BY <1>1, <1>4 DEF ToSet
  <2>2. i + Len(s) \in 1 .. Len(s) + Len(t) /\ ~ (i + Len(s) <= Len(s)) /\ (i + Len(s)) - Len(s) = i
    BY <1>1
  <2>3. c[i + Len(s)] = x
    BY <1>1, <2>1, <2>2
  <2> QED BY <1>1, <2>2, <2>3 DEF ToSet
<1> QED BY <1>2, <1>3, <1>4

\* FlattenSeq gives a sequence with what its parts have.
LEMMA FlattenIs ==
  ASSUME NEW U, NEW seqs \in Seq(Seq(U))
  PROVE  /\ FlattenSeq(seqs) \in Seq(U)
         /\ \A x : x \in ToSet(FlattenSeq(seqs)) <=>
                     \E i \in 1 .. Len(seqs) : x \in ToSet(seqs[i])
<1> DEFINE N == Len(seqs)
           F(f) == [i \in 1 .. Len(seqs) |-> IF i = 1 THEN seqs[i] ELSE f[i - 1] \o seqs[i]]
           f == CHOOSE f : f = F(f)
<1>1. N \in Nat /\ \A i \in 1 .. N : seqs[i] \in Seq(U)
  OBVIOUS
<1>2. CASE N = 0
  <2>1. FlattenSeq(seqs) = seqs /\ seqs = << >>
    BY <1>2 DEF FlattenSeq
  <2>2. \A x : x \notin ToSet(<< >>)
    BY DEF ToSet
  <2> QED BY <1>2, <2>1, <2>2
<1>3. CASE N # 0
  <2>1. FlattenSeq(seqs) = f[N]
    BY <1>3 DEF FlattenSeq
  <2>2. \E h : h = F(h)
    <3> DEFINE G == [n \in 1 .. N |-> [v \in Seq(U) |-> IF n = 1 THEN seqs[n] ELSE v \o seqs[n]]]
    <3>0. PICK w : Follows(w, N, << >>, G)
      <4> HIDE DEF G, N
      <4> QED BY <1>1, Recursion
    <3>1. w[0] = << >> /\ \A n \in 1 .. N : w[n] = G[n][w[n - 1]]
      <4> HIDE DEF G, N
      <4> QED BY <3>0 DEF Follows
    <3> DEFINE T == {n \in Nat : n <= N => w[n] \in Seq(U)}
    <3>2. 0 \in T
      <4>1. w[0] \in Seq(U)
        BY <3>1
      <4> HIDE DEF G, N
      <4> QED BY <4>1
    <3>3. ASSUME NEW n \in Nat, n \in T PROVE n + 1 \in T
      <4> SUFFICES ASSUME n + 1 <= N PROVE w[n + 1] \in Seq(U)
        OBVIOUS
      <4>1. n + 1 \in 1 .. N /\ (n + 1) - 1 = n /\ w[n] \in Seq(U)
        BY <1>1, <3>3
      <4>2. w[n + 1] = IF n + 1 = 1 THEN seqs[n + 1] ELSE w[n] \o seqs[n + 1]
        <5>1. w[n + 1] = G[n + 1][w[n]]
          BY <3>1, <4>1
        <5> QED BY <4>1, <5>1
      <4>3. seqs[n + 1] \in Seq(U)
        BY <1>1, <4>1
      <4> QED BY <4>1, <4>2, <4>3
    <3>4. Nat \subseteq T
      <4> HIDE DEF T
      <4> QED BY <3>2, <3>3, Induct
    <3>5. \A n \in 1 .. N : w[n] = IF n = 1 THEN seqs[n] ELSE w[n - 1] \o seqs[n]
      <4> SUFFICES ASSUME NEW n \in 1 .. N
                   PROVE w[n] = IF n = 1 THEN seqs[n] ELSE w[n - 1] \o seqs[n]
        OBVIOUS
      <4>1. n - 1 \in Nat /\ n - 1 <= N
        BY <1>1
      <4>2. w[n - 1] \in Seq(U)
        BY <3>4, <4>1
      <4>3. w[n] = G[n][w[n - 1]]
        BY <3>1
      <4> QED BY <4>2, <4>3
    <3> DEFINE h == [i \in 1 .. N |-> w[i]]
    <3> HIDE DEF T, G
    <3>6. \A i \in 1 .. N : h[i] = IF i = 1 THEN seqs[i] ELSE h[i - 1] \o seqs[i]
      <4> SUFFICES ASSUME NEW i \in 1 .. N
                   PROVE h[i] = IF i = 1 THEN seqs[i] ELSE h[i - 1] \o seqs[i]
        OBVIOUS
      <4>1. i # 1 => i - 1 \in 1 .. N
        BY <1>1
      <4> QED BY <3>5, <4>1
    <3>7. h = F(h)
      <4>1. h = [i \in 1 .. N |-> h[i]] OBVIOUS
      <4> HIDE DEF h
      <4> QED BY <3>6, <4>1
    <3> HIDE DEF h, F
    <3> QED BY <3>7
  <2>3. f = F(f)
    BY <2>2
  <2> HIDE DEF f
  <2>4. \A i \in 1 .. N : f[i] = IF i = 1 THEN seqs[i] ELSE f[i - 1] \o seqs[i]
    BY <2>3
  <2> HIDE DEF F
  <2> DEFINE Good(n) == /\ f[n] \in Seq(U)
                        /\ \A x : x \in ToSet(f[n]) <=> \E i \in 1 .. n : x \in ToSet(seqs[i])
             T == {n \in Nat : n < N => Good(n + 1)}
  <2>5. 0 \in T
    <3>1. 1 \in 1 .. N /\ f[1] = seqs[1] /\ \A i : i \in 1 .. 1 <=> i = 1
      BY <1>1, <1>3, <2>4
    <3>2. Good(1)
      BY <1>1, <3>1
    <3> HIDE DEF Good
    <3> QED BY <3>2
  <2>6. ASSUME NEW n \in Nat, n \in T PROVE n + 1 \in T
    <3> SUFFICES ASSUME n + 1 < N PROVE Good((n + 1) + 1)
      <4> HIDE DEF Good
      <4> QED OBVIOUS
    <3> DEFINE m == n + 2
    <3>1. Good(n + 1)
      <4> HIDE DEF Good
      <4> QED BY <1>1, <2>6
    <3>2. /\ m \in 1 .. N /\ m # 1 /\ m - 1 = n + 1 /\ m = (n + 1) + 1
          /\ \A i : i \in 1 .. m <=> i \in 1 .. n + 1 \/ i = m
      BY <1>1
    <3> HIDE DEF m
    <3>3. f[m] = f[n + 1] \o seqs[m] /\ seqs[m] \in Seq(U)
      BY <1>1, <2>4, <3>2
    <3>4. f[m] \in Seq(U)
      BY <3>1, <3>3
    <3>5. Good(m)
      <4>1. \A x : x \in ToSet(f[m]) <=> x \in ToSet(f[n + 1]) \/ x \in ToSet(seqs[m])
        BY <3>1, <3>3, ToSetOfConcat
      <4> QED BY <3>1, <3>2, <3>4, <4>1
    <3> QED BY <3>2, <3>5
  <2>7. Nat \subseteq T
    <3> HIDE DEF T
    <3> QED BY <2>5, <2>6, Induct
  <2>8. N - 1 \in Nat /\ N - 1 < N /\ (N - 1) + 1 = N
    BY <1>1, <1>3
  <2>9. Good(N)
    <3> HIDE DEF Good, N
    <3>1. N - 1 \in T
      BY <2>7, <2>8
    <3> QED BY <2>8, <3>1
  <2> QED BY <2>1, <2>9
<1> QED BY <1>2, <1>3
=============================================================================
