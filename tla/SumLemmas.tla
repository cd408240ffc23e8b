----------------------------- MODULE SumLemmas ------------------------------
(***************************************************************************)
(* Induction over the naturals and the finite sets, in a form the provers  *)
(* can use: a property is the set of the numbers that have it.  With it,   *)
(* what the sums over finite sets of the models are (SumFunctionOnSet),    *)
(* and the states a loop goes through (LoopExists).                        *)
(***************************************************************************)
EXTENDS Integers, FiniteSets, Functions, FiniteSetTheorems, WellFoundedInduction, TLAPS

LEMMA LeastNat ==
  ASSUME NEW T, T \subseteq Nat, T # {}
  PROVE  \E n \in T : \A m \in T : n <= m
<1>1. PICK n \in T : \A m \in T : ~(<<m, n>> \in OpToRel(<, Nat))
  BY WFMin, NatLessThanWellFounded
<1>2. \A m \in T : ~(m < n)
  BY <1>1 DEF OpToRel
<1>3. QED
  BY <1>2

LEMMA GreatestNat ==
  ASSUME NEW n \in Nat, NEW T, T \subseteq 1..n, T # {}
  PROVE  \E k \in T : \A j \in T : j <= k
<1> DEFINE U == {d \in 0..n : n - d \in T}
<1>1. U \subseteq Nat
  OBVIOUS
<1>2. U # {}
  <2>1. PICK k \in T : TRUE
    OBVIOUS
  <2>2. k \in 1..n /\ n - k \in 0..n /\ n - (n - k) = k
    BY <2>1
  <2>3. QED
    BY <2>1, <2>2
<1>3. PICK d \in U : \A e \in U : d <= e
  <2> HIDE DEF U
  <2>1. QED
    BY <1>1, <1>2, LeastNat
<1>4. ASSUME NEW j \in T PROVE j <= n - d
  <2>1. j \in 1..n /\ n - j \in 0..n /\ n - (n - j) = j
    OBVIOUS
  <2>2. d <= n - j /\ d \in 0..n
    BY <1>3, <2>1
  <2>3. QED
    BY <2>1, <2>2
<1>5. n - d \in T
  BY <1>3
<1>6. QED
  BY <1>4, <1>5

\* A set with 0, and with the successor of every number it has, has them all.
LEMMA NatByInduction ==
  ASSUME NEW T, 0 \in T, \A n \in Nat : n \in T => n + 1 \in T
  PROVE  \A n \in Nat : n \in T
<1> DEFINE out == {n \in Nat : n \notin T}
<1> SUFFICES ASSUME out # {} PROVE FALSE
  OBVIOUS
<1>1. PICK n \in out : \A m \in out : n <= m
  <2> HIDE DEF out
  <2>1. out \subseteq Nat
    BY DEF out
  <2>2. QED
    BY <2>1, LeastNat
<1>2. n \in Nat \ {0}
  BY <1>1
<1>3. n - 1 \in Nat /\ n - 1 \notin out
  BY <1>1, <1>2
<1>4. QED
  BY <1>2, <1>3

-----------------------------------------------------------------------------
(* The recursion that a sum is defined by.                                 *)

Picked(s) == CHOOSE x \in s : TRUE

\* One step of it, where g gives the sums of the smaller sets.
SumStep(f, g, s) == IF s = {} THEN 0 ELSE f[Picked(s)] + g[s \ {Picked(s)}]

IsSumOver(f, S, g) == g = [s \in S |-> SumStep(f, g, s)]

Partial(f, S) == CHOOSE g : IsSumOver(f, SUBSET S, g)

UpTo(S, n) == {s \in SUBSET S : Cardinality(s) <= n}

LEMMA PickedIn == \A s : s # {} => Picked(s) \in s
BY DEF Picked

LEMMA SmallerWithoutPicked ==
  ASSUME NEW s, IsFiniteSet(s), s # {}
  PROVE  /\ IsFiniteSet(s \ {Picked(s)})
         /\ Cardinality(s) \in Nat /\ Cardinality(s \ {Picked(s)}) = Cardinality(s) - 1
BY PickedIn, FS_RemoveElement, FS_CardinalityType

LEMMA RestIsSmaller ==
  ASSUME NEW s, IsFiniteSet(s), s # {}
  PROVE  /\ IsFiniteSet(s \ {Picked(s)}) /\ s \ {Picked(s)} \in SUBSET s
         /\ Cardinality(s \ {Picked(s)}) < Cardinality(s)
BY SmallerWithoutPicked

LEMMA SumIsDefined ==
  ASSUME NEW f, NEW S, IsFiniteSet(S)
  PROVE  IsSumOver(f, SUBSET S, Partial(f, S))
<1> DEFINE T == {n \in Nat : \E g : IsSumOver(f, UpTo(S, n), g)}
<1>f. \A s \in SUBSET S : IsFiniteSet(s) /\ Cardinality(s) \in Nat
  BY FS_Subset, FS_CardinalityType
<1>1. 0 \in T
  <2> DEFINE g == [s \in UpTo(S, 0) |-> 0]
  <2>1. \A s \in UpTo(S, 0) : s = {}
    BY <1>f, FS_EmptySet DEF UpTo
  <2>2. IsSumOver(f, UpTo(S, 0), g)
    BY <2>1 DEF IsSumOver, SumStep
  <2>3. QED
    BY <2>2
<1>2. ASSUME NEW n \in Nat, n \in T PROVE n + 1 \in T
  <2>1. PICK g : IsSumOver(f, UpTo(S, n), g)
    BY <1>2
  <2> DEFINE h == [s \in UpTo(S, n + 1) |-> SumStep(f, g, s)]
  <2>2. \A s \in UpTo(S, n + 1) : s # {} => s \ {Picked(s)} \in UpTo(S, n)
    BY <1>f, SmallerWithoutPicked DEF UpTo
  <2>3. UpTo(S, n) \subseteq UpTo(S, n + 1)
    BY <1>f DEF UpTo
  <2>4. \A s \in UpTo(S, n) : h[s] = g[s]
    BY <2>1, <2>3 DEF IsSumOver
  <2>5. \A s \in UpTo(S, n + 1) : SumStep(f, h, s) = SumStep(f, g, s)
    <3> HIDE DEF h
    <3>1. QED
      BY <2>2, <2>4 DEF SumStep
  <2>6. IsSumOver(f, UpTo(S, n + 1), h)
    BY <2>5 DEF IsSumOver
  <2>7. QED
    BY <2>6
<1>3. Cardinality(S) \in T
  <2> HIDE DEF T
  <2>1. QED
    BY <1>f, <1>1, <1>2, NatByInduction
<1>4. UpTo(S, Cardinality(S)) = SUBSET S
  BY <1>f, FS_Subset DEF UpTo
<1>5. \E g : IsSumOver(f, SUBSET S, g)
  BY <1>3, <1>4
<1>6. QED
  BY <1>5 DEF Partial

LEMMA SumIsPartial ==
  ASSUME NEW f, NEW S
  PROVE  SumFunctionOnSet(f, S) = Partial(f, S)[S]
BY DEF SumFunctionOnSet, FoldFunctionOnSet, MapThenFoldSet, Partial, IsSumOver, SumStep, Picked

-----------------------------------------------------------------------------
(* A set of finite sets with the empty one, and with every set whose       *)
(* smaller ones it has, has all the finite subsets of S.                   *)
LEMMA SetsByInduction ==
  ASSUME NEW S, IsFiniteSet(S), NEW T,
         \A s \in SUBSET S :
           (\A r \in SUBSET s : Cardinality(r) < Cardinality(s) => r \in T) => s \in T
  PROVE  S \in T
<1> DEFINE N == {n \in Nat : \A s \in SUBSET S : Cardinality(s) < n => s \in T}
<1>f. \A s \in SUBSET S : IsFiniteSet(s) /\ Cardinality(s) \in Nat
  BY FS_Subset, FS_CardinalityType
<1>1. 0 \in N
  BY <1>f
<1>2. ASSUME NEW n \in Nat, n \in N PROVE n + 1 \in N
  <2> SUFFICES ASSUME NEW s \in SUBSET S, Cardinality(s) < n + 1 PROVE s \in T
    OBVIOUS
  <2>1. \A r \in SUBSET s : Cardinality(r) < Cardinality(s) => r \in T
    BY <1>f, <1>2
  <2>2. QED
    BY <2>1
<1>3. Cardinality(S) + 1 \in N
  <2> HIDE DEF N
  <2>1. QED
    BY <1>f, <1>1, <1>2, NatByInduction
<1>4. QED
  BY <1>f, <1>3

\* The sums of the smaller sets are the same in whichever recursion.
LEMMA PartialIsSum ==
  ASSUME NEW f, NEW S, IsFiniteSet(S), NEW s \in SUBSET S
  PROVE  Partial(f, S)[s] = SumFunctionOnSet(f, s)
<1> DEFINE T == {r \in SUBSET S : r \subseteq s => Partial(f, S)[r] = Partial(f, s)[r]}
<1>1. IsFiniteSet(s)
  BY FS_Subset
<1>2. /\ IsSumOver(f, SUBSET S, Partial(f, S))
      /\ IsSumOver(f, SUBSET s, Partial(f, s))
  BY <1>1, SumIsDefined
<1>3. ASSUME NEW r \in SUBSET s,
             \A q \in SUBSET r : Cardinality(q) < Cardinality(r) => q \in T
      PROVE  r \in T
  <2>1. /\ Partial(f, S)[r] = SumStep(f, Partial(f, S), r)
        /\ Partial(f, s)[r] = SumStep(f, Partial(f, s), r)
    BY <1>2 DEF IsSumOver
  <2>2. r # {} => Partial(f, S)[r \ {Picked(r)}] = Partial(f, s)[r \ {Picked(r)}]
    <3> SUFFICES ASSUME r # {}
                 PROVE  Partial(f, S)[r \ {Picked(r)}] = Partial(f, s)[r \ {Picked(r)}]
      OBVIOUS
    <3>1. IsFiniteSet(r)
      BY <1>1, FS_Subset
    <3>2. Cardinality(r \ {Picked(r)}) < Cardinality(r)
      BY <3>1, SmallerWithoutPicked
    <3>3. QED
      BY <1>3, <3>2
  <2>3. SumStep(f, Partial(f, S), r) = SumStep(f, Partial(f, s), r)
    BY <2>2 DEF SumStep
  <2>4. QED
    BY <2>1, <2>3
<1>4. s \in T
  <2> HIDE DEF T
  <2>1. QED
    BY <1>1, <1>3, SetsByInduction
<1>5. QED
  BY <1>4, SumIsPartial

LEMMA SumIsStep ==
  ASSUME NEW f, NEW S, IsFiniteSet(S)
  PROVE  SumFunctionOnSet(f, S) =
           IF S = {} THEN 0 ELSE f[Picked(S)] + SumFunctionOnSet(f, S \ {Picked(S)})
<1>1. Partial(f, S)[S] = SumStep(f, Partial(f, S), S)
  <2>1. IsSumOver(f, SUBSET S, Partial(f, S)) /\ S \in SUBSET S
    BY SumIsDefined
  <2>2. QED
    BY <2>1 DEF IsSumOver
<1>2. Partial(f, S)[S \ {Picked(S)}] = SumFunctionOnSet(f, S \ {Picked(S)})
  BY PartialIsSum
<1>3. QED
  BY <1>1, <1>2, SumIsPartial DEF SumStep

-----------------------------------------------------------------------------
(* What the sums are.                                                      *)

LEMMA SumEmpty == \A f : SumFunctionOnSet(f, {}) = 0
BY SumIsStep, FS_EmptySet

LEMMA SumNat ==
  ASSUME NEW f, NEW S, IsFiniteSet(S), \A x \in S : f[x] \in Nat
  PROVE  SumFunctionOnSet(f, S) \in Nat
<1> DEFINE T == {s \in SUBSET S : SumFunctionOnSet(f, s) \in Nat}
<1>1. ASSUME NEW s \in SUBSET S,
             \A r \in SUBSET s : Cardinality(r) < Cardinality(s) => r \in T
      PROVE  s \in T
  <2>1. IsFiniteSet(s)
    BY FS_Subset
  <2>2. CASE s = {}
    BY <2>2, SumEmpty
  <2>3. CASE s # {}
    <3>1. s \ {Picked(s)} \in T /\ f[Picked(s)] \in Nat
      BY <1>1, <2>1, <2>3, SmallerWithoutPicked, PickedIn
    <3>2. QED
      BY <2>1, <2>3, <3>1, SumIsStep
  <2>4. QED
    BY <2>2, <2>3
<1>2. S \in T
  <2> HIDE DEF T
  <2>1. QED
    BY <1>1, SetsByInduction
<1>3. QED
  BY <1>2

\* Any element may be taken out first.
LEMMA SumOne ==
  ASSUME NEW f, NEW S, IsFiniteSet(S), \A y \in S : f[y] \in Nat, NEW x \in S
  PROVE  SumFunctionOnSet(f, S) = f[x] + SumFunctionOnSet(f, S \ {x})
<1> DEFINE T == {s \in SUBSET S : \A y \in s :
                  SumFunctionOnSet(f, s) = f[y] + SumFunctionOnSet(f, s \ {y})}
<1>1. ASSUME NEW s \in SUBSET S,
             \A r \in SUBSET s : Cardinality(r) < Cardinality(s) => r \in T
      PROVE  s \in T
  <2> SUFFICES ASSUME NEW y \in s
               PROVE  SumFunctionOnSet(f, s) = f[y] + SumFunctionOnSet(f, s \ {y})
    OBVIOUS
  <2> DEFINE p == Picked(s)
             both == (s \ {y}) \ {p}
  <2>1. IsFiniteSet(s) /\ p \in s
    BY FS_Subset, PickedIn
  <2>2. SumFunctionOnSet(f, s) = f[p] + SumFunctionOnSet(f, s \ {p})
    BY <2>1, SumIsStep
  <2>3. CASE p = y
    BY <2>2, <2>3
  <2>4. CASE p # y
    <3>1. s \ {p} \in T /\ s \ {y} \in T
      <4>1. /\ Cardinality(s \ {p}) = Cardinality(s) - 1
            /\ Cardinality(s \ {y}) = Cardinality(s) - 1
            /\ Cardinality(s) \in Nat
        BY <2>1, FS_RemoveElement, FS_CardinalityType
      <4>2. QED
        BY <1>1, <4>1
    <3>2. (s \ {p}) \ {y} = both
      OBVIOUS
    <3>3. /\ SumFunctionOnSet(f, s \ {p}) = f[y] + SumFunctionOnSet(f, both)
          /\ SumFunctionOnSet(f, s \ {y}) = f[p] + SumFunctionOnSet(f, both)
      BY <2>1, <2>4, <3>1, <3>2
    <3>4. SumFunctionOnSet(f, both) \in Nat /\ f[p] \in Nat /\ f[y] \in Nat
      BY <2>1, FS_Subset, SumNat
    <3>5. QED
      BY <2>2, <3>3, <3>4
  <2>5. QED
    BY <2>3, <2>4
<1>2. S \in T
  <2> HIDE DEF T
  <2>1. QED
    BY <1>1, SetsByInduction
<1>3. QED
  BY <1>2

LEMMA SumSame ==
  ASSUME NEW f, NEW g, NEW S, IsFiniteSet(S), \A x \in S : f[x] = g[x]
  PROVE  SumFunctionOnSet(f, S) = SumFunctionOnSet(g, S)
<1> DEFINE T == {s \in SUBSET S : SumFunctionOnSet(f, s) = SumFunctionOnSet(g, s)}
<1>1. ASSUME NEW s \in SUBSET S,
             \A r \in SUBSET s : Cardinality(r) < Cardinality(s) => r \in T
      PROVE  s \in T
  <2>1. IsFiniteSet(s)
    BY FS_Subset
  <2>2. CASE s = {}
    BY <2>2, SumEmpty
  <2>3. CASE s # {}
    <3>1. s \ {Picked(s)} \in T /\ f[Picked(s)] = g[Picked(s)]
      BY <1>1, <2>1, <2>3, SmallerWithoutPicked, PickedIn
    <3>2. QED
      BY <2>1, <2>3, <3>1, SumIsStep
  <2>4. QED
    BY <2>2, <2>3
<1>2. S \in T
  <2> HIDE DEF T
  <2>1. QED
    BY <1>1, SetsByInduction
<1>3. QED
  BY <1>2

\* What the elements of a subset and the others add up to.
LEMMA SumSplit ==
  ASSUME NEW f, NEW S, IsFiniteSet(S), \A x \in S : f[x] \in Nat, NEW R \in SUBSET S
  PROVE  SumFunctionOnSet(f, S) = SumFunctionOnSet(f, R) + SumFunctionOnSet(f, S \ R)
<1> DEFINE T == {s \in SUBSET R : SumFunctionOnSet(f, (S \ R) \cup s)
                                 = SumFunctionOnSet(f, s) + SumFunctionOnSet(f, S \ R)}
<1>1. ASSUME NEW s \in SUBSET R,
             \A r \in SUBSET s : Cardinality(r) < Cardinality(s) => r \in T
      PROVE  s \in T
  <2> DEFINE p == Picked(s)
             all == (S \ R) \cup s
  <2>1. IsFiniteSet(s) /\ IsFiniteSet(all) /\ IsFiniteSet(S \ R)
    BY FS_Subset
  <2>n. SumFunctionOnSet(f, S \ R) \in Nat
    BY <2>1, SumNat
  <2>2. CASE s = {}
    BY <2>2, <2>n, SumEmpty
  <2>3. CASE s # {}
    <3>1. p \in s /\ s \ {p} \in T
      <4>1. p \in s
        BY <2>3, PickedIn
      <4>2. s \ {p} \in SUBSET s /\ Cardinality(s \ {p}) < Cardinality(s)
        BY <2>1, <2>3, RestIsSmaller
      <4> HIDE DEF p, T
      <4>3. QED
        BY <1>1, <4>1, <4>2
    <3>2. all \ {p} = (S \ R) \cup (s \ {p})
      BY <3>1
    <3>3. /\ SumFunctionOnSet(f, all) = f[p] + SumFunctionOnSet(f, all \ {p})
          /\ SumFunctionOnSet(f, s) = f[p] + SumFunctionOnSet(f, s \ {p})
      BY <2>1, <3>1, SumOne
    <3>4. SumFunctionOnSet(f, s \ {p}) \in Nat /\ f[p] \in Nat
      BY <2>1, <3>1, FS_Subset, SumNat
    <3>5. QED
      BY <2>n, <3>1, <3>2, <3>3, <3>4
  <2>4. QED
    BY <2>2, <2>3
<1>2. R \in T
  <2>1. IsFiniteSet(R)
    BY FS_Subset
  <2> HIDE DEF T
  <2>2. QED
    BY <1>1, <2>1, SetsByInduction
<1>3. (S \ R) \cup R = S
  OBVIOUS
<1>4. QED
  BY <1>2, <1>3

LEMMA ImageIsFinite ==
  ASSUME NEW at, NEW S, IsFiniteSet(S)
  PROVE  IsFiniteSet({at[x] : x \in S})
<1> DEFINE T == {s \in SUBSET S : IsFiniteSet({at[x] : x \in s})}
<1>1. ASSUME NEW s \in SUBSET S,
             \A r \in SUBSET s : Cardinality(r) < Cardinality(s) => r \in T
      PROVE  s \in T
  <2>1. IsFiniteSet(s)
    BY FS_Subset
  <2>2. CASE s = {}
    <3>1. {at[x] : x \in s} = {}
      BY <2>2
    <3>2. QED
      BY <3>1, FS_EmptySet
  <2>3. CASE s # {}
    <3>1. s \ {Picked(s)} \in T
      <4> HIDE DEF T
      <4>1. QED
        BY <1>1, <2>1, <2>3, RestIsSmaller
    <3>2. {at[x] : x \in s} = {at[x] : x \in s \ {Picked(s)}} \cup {at[Picked(s)]}
      BY <2>3, PickedIn
    <3>3. IsFiniteSet({at[x] : x \in s \ {Picked(s)}} \cup {at[Picked(s)]})
      BY <3>1, FS_AddElement
    <3>4. QED
      BY <3>2, <3>3
  <2>4. QED
    BY <2>2, <2>3
<1>2. S \in T
  <2> HIDE DEF T
  <2>1. QED
    BY <1>1, SetsByInduction
<1>3. QED
  BY <1>2

\* A sum over the places of different things is the sum over those things.
LEMMA SumOverPlaces ==
  ASSUME NEW f, NEW g, NEW at, NEW S, IsFiniteSet(S),
         \A x \in S : f[x] = g[at[x]] /\ f[x] \in Nat,
         \A x, y \in S : at[x] = at[y] => x = y
  PROVE  SumFunctionOnSet(f, S) = SumFunctionOnSet(g, {at[x] : x \in S})
<1> DEFINE things(s) == {at[x] : x \in s}
           T == {s \in SUBSET S : SumFunctionOnSet(f, s) = SumFunctionOnSet(g, things(s))}
<1>1. ASSUME NEW s \in SUBSET S,
             \A r \in SUBSET s : Cardinality(r) < Cardinality(s) => r \in T
      PROVE  s \in T
  <2> DEFINE p == Picked(s)
  <2>1. IsFiniteSet(s) /\ IsFiniteSet(things(s))
    <3>1. IsFiniteSet(s)
      BY FS_Subset
    <3>2. QED
      BY <3>1, ImageIsFinite
  <2>2. CASE s = {}
    <3>1. things(s) = {}
      BY <2>2
    <3>2. QED
      BY <2>2, <3>1, SumEmpty
  <2>3. CASE s # {}
    <3>1. p \in s /\ s \ {p} \in T
      <4>1. p \in s
        BY <2>3, PickedIn
      <4>2. s \ {p} \in SUBSET s /\ Cardinality(s \ {p}) < Cardinality(s)
        BY <2>1, <2>3, RestIsSmaller
      <4> HIDE DEF p, T
      <4>3. QED
        BY <1>1, <4>1, <4>2
    <3>2. things(s \ {p}) = things(s) \ {at[p]} /\ at[p] \in things(s)
      BY <3>1
    <3>3. \A y \in things(s) : g[y] \in Nat
      OBVIOUS
    <3>4. /\ SumFunctionOnSet(f, s) = f[p] + SumFunctionOnSet(f, s \ {p})
          /\ SumFunctionOnSet(g, things(s)) = g[at[p]] + SumFunctionOnSet(g, things(s) \ {at[p]})
      <4> HIDE DEF things
      <4>1. QED
        BY <2>1, <3>1, <3>2, <3>3, SumOne
    <3>5. QED
      BY <3>1, <3>2, <3>4
  <2>4. QED
    BY <2>2, <2>3
<1>2. S \in T
  <2> HIDE DEF T
  <2>1. QED
    BY <1>1, SetsByInduction
<1>3. QED
  BY <1>2

-----------------------------------------------------------------------------
(* A loop is the states it goes through: from x, each is F of the one      *)
(* before it.                                                              *)

IsLoop(F, x, s) == s[0] = x /\ \A n \in Nat : s[n + 1] = F[s[n]]

LoopTo(F, x, n, a) == a[0] = x /\ \A k \in 0..n - 1 : a[k + 1] = F[a[k]]

LEMMA LoopAgrees ==
  ASSUME NEW F, NEW x, NEW n \in Nat, NEW m \in Nat, n <= m, NEW a, NEW b,
         LoopTo(F, x, n, a), LoopTo(F, x, m, b)
  PROVE  \A k \in 0..n : a[k] = b[k]
<1> DEFINE T == {k \in Nat : k <= n => a[k] = b[k]}
<1>1. 0 \in T
  BY DEF LoopTo
<1>2. ASSUME NEW k \in Nat, k \in T PROVE k + 1 \in T
  <2> SUFFICES ASSUME k + 1 <= n PROVE a[k + 1] = b[k + 1]
    OBVIOUS
  <2>1. k \in 0..n - 1 /\ k \in 0..m - 1 /\ a[k] = b[k]
    BY <1>2
  <2>2. QED
    BY <2>1 DEF LoopTo
<1>3. \A k \in Nat : k \in T
  <2> HIDE DEF T
  <2>1. QED
    BY <1>1, <1>2, NatByInduction
<1>4. QED
  BY <1>3

LEMMA LoopExists ==
  ASSUME NEW S, NEW F \in [S -> S], NEW x \in S
  PROVE  \E s \in [Nat -> S] : IsLoop(F, x, s)
<1> DEFINE T == {n \in Nat : \E a \in [0..n -> S] : LoopTo(F, x, n, a)}
           Part(n) == CHOOSE a \in [0..n -> S] : LoopTo(F, x, n, a)
           s == [n \in Nat |-> Part(n)[n]]
<1>1. 0 \in T
  <2> DEFINE a == [k \in 0..0 |-> x]
  <2>1. a \in [0..0 -> S] /\ LoopTo(F, x, 0, a)
    BY DEF LoopTo
  <2>2. QED
    BY <2>1
<1>2. ASSUME NEW n \in Nat, n \in T PROVE n + 1 \in T
  <2>1. PICK a \in [0..n -> S] : LoopTo(F, x, n, a)
    BY <1>2
  <2> DEFINE b == [k \in 0..n + 1 |-> IF k <= n THEN a[k] ELSE F[a[n]]]
  <2>2. b \in [0..n + 1 -> S]
    <3>1. \A k \in 0..n + 1 : k <= n => k \in 0..n
      OBVIOUS
    <3>2. n \in 0..n
      OBVIOUS
    <3>3. QED
      BY <3>1, <3>2
  <2>3. b[0] = x
    BY <2>1 DEF LoopTo
  <2>4. \A k \in 0..(n + 1) - 1 : b[k + 1] = F[b[k]]
    <3> SUFFICES ASSUME NEW k \in 0..(n + 1) - 1 PROVE b[k + 1] = F[b[k]]
      OBVIOUS
    <3>1. k \in 0..n /\ k + 1 \in 0..n + 1 /\ b[k] = a[k]
      OBVIOUS
    <3>2. CASE k = n
      BY <3>1, <3>2
    <3>3. CASE k # n
      <4>1. k \in 0..n - 1 /\ k + 1 <= n
        BY <3>1, <3>3
      <4>2. QED
        BY <2>1, <3>1, <4>1 DEF LoopTo
    <3>4. QED
      BY <3>2, <3>3
  <2> HIDE DEF b
  <2>5. QED
    BY <2>2, <2>3, <2>4 DEF LoopTo
<1>3. \A n \in Nat : n \in T
  <2> HIDE DEF T
  <2>1. QED
    BY <1>1, <1>2, NatByInduction
<1>4. \A n \in Nat : Part(n) \in [0..n -> S] /\ LoopTo(F, x, n, Part(n))
  BY <1>3
<1> HIDE DEF Part
<1>5. s \in [Nat -> S]
  BY <1>4
<1>6. s[0] = x
  BY <1>4 DEF LoopTo
<1>7. ASSUME NEW n \in Nat PROVE s[n + 1] = F[s[n]]
  <2>1. PICK a, b : a = Part(n) /\ b = Part(n + 1)
    OBVIOUS
  <2>2. LoopTo(F, x, n, a) /\ LoopTo(F, x, n + 1, b) /\ n <= n + 1 /\ n + 1 \in Nat
    BY <1>4, <2>1
  <2>3. \A k \in 0..n : a[k] = b[k]
    BY <2>2, LoopAgrees
  <2>4. a[n] = b[n] /\ n \in 0..(n + 1) - 1
    BY <2>3
  <2>5. b[n + 1] = F[b[n]]
    BY <2>2, <2>4 DEF LoopTo
  <2>6. QED
    BY <2>1, <2>4, <2>5
<1>8. QED
  BY <1>5, <1>6, <1>7 DEF IsLoop
=============================================================================
