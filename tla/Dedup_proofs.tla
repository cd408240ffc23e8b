---------------------------- MODULE Dedup_proofs ----------------------------
(***************************************************************************)
(* HTIndex finds every fragment, and what files point to is what was read  *)
(* from them, for every archive and all hashes.                            *)
(*                                                                         *)
(* h ^ i is its own inverse among the numbers below a power of two         *)
(* (XorAlwaysWorks), so that a search looks at every slot once.  Holds is  *)
(* what a table filled up to a fragment has: each is found before any with *)
(* a greater number.  A turn of update() keeps it (TurnIs), the turns come *)
(* to an end (PassesEnd), and so update() leaves out no fragment           *)
(* (UpdateIs).                                                             *)
(***************************************************************************)
EXTENDS Dedup, SumLemmas

-----------------------------------------------------------------------------
(* Shifts and exclusive or.                                                *)

\* A recursive definition of a value for every number has the values of a loop.
IsRecursion(F, x, f) == f[0] = x /\ \A k \in Nat : k # 0 => f[k] = F[f[k - 1]]

LEMMA RecursionExists ==
  ASSUME NEW S, NEW F \in [S -> S], NEW x \in S
  PROVE  \E f \in [Nat -> S] : IsRecursion(F, x, f)
<1>1. PICK s \in [Nat -> S] : IsLoop(F, x, s)
  BY LoopExists
<1>2. \A k \in Nat : k # 0 => s[k] = F[s[k - 1]]
  <2> SUFFICES ASSUME NEW k \in Nat, k # 0 PROVE s[k] = F[s[k - 1]]
    OBVIOUS
  <2>1. k - 1 \in Nat /\ (k - 1) + 1 = k
    OBVIOUS
  <2>2. s[(k - 1) + 1] = F[s[k - 1]]
    BY <1>1, <2>1 DEF IsLoop
  <2>3. QED
    BY <2>1, <2>2
<1>3. QED
  BY <1>1, <1>2 DEF IsLoop, IsRecursion

LEMMA ShiftIs ==
  /\ Shift \in [Nat -> Nat] /\ Shift[0] = 1
  /\ \A k \in Nat : Shift[k + 1] = 2 * Shift[k]
<1> DEFINE F == [n \in Nat |-> 2 * n]
           Body(f, k) == IF k = 0 THEN 1 ELSE 2 * f[k - 1]
<1>1. F \in [Nat -> Nat] /\ 1 \in Nat
  OBVIOUS
<1>2. PICK f \in [Nat -> Nat] : IsRecursion(F, 1, f)
  <2> HIDE DEF F
  <2>1. QED
    BY <1>1, RecursionExists
<1>3. \A k \in Nat : f[k] = Body(f, k)
  <2> SUFFICES ASSUME NEW k \in Nat PROVE f[k] = Body(f, k)
    OBVIOUS
  <2>1. CASE k = 0
    BY <1>2, <2>1 DEF IsRecursion
  <2>2. CASE k # 0
    <3>1. k - 1 \in Nat /\ f[k - 1] \in Nat
      BY <2>2
    <3>2. QED
      BY <1>2, <2>2, <3>1 DEF IsRecursion
  <2>3. QED
    BY <2>1, <2>2
<1>4. f = [k \in Nat |-> Body(f, k)]
  BY <1>3
<1>5. Shift = [k \in Nat |-> Body(Shift, k)]
  BY <1>4 DEF Shift
<1>6. \A k \in Nat : Shift[k] = Body(Shift, k)
  <2> HIDE DEF Body
  <2>1. QED
    BY <1>5
<1>7. \A k \in Nat : Shift[k + 1] = 2 * Shift[k]
  <2> SUFFICES ASSUME NEW k \in Nat PROVE Shift[k + 1] = 2 * Shift[k]
    OBVIOUS
  <2>1. k + 1 \in Nat /\ k + 1 # 0 /\ (k + 1) - 1 = k
    OBVIOUS
  <2>2. QED
    BY <1>6, <2>1
<1>8. Shift[0] = 1
  BY <1>6
<1>9. \A k \in Nat : Shift[k] \in Nat
  <2> DEFINE T == {k \in Nat : Shift[k] \in Nat}
  <2>1. 0 \in T
    BY <1>8
  <2>2. \A k \in Nat : k \in T => k + 1 \in T
    BY <1>7
  <2>3. \A k \in Nat : k \in T
    <3> HIDE DEF T
    <3>1. QED
      BY <2>1, <2>2, NatByInduction
  <2>4. QED
    BY <2>3
<1>10. Shift \in [Nat -> Nat]
  <2> HIDE DEF Body
  <2>1. QED
    BY <1>5, <1>9
<1>11. QED
  BY <1>7, <1>8, <1>10

LEMMA ShiftGrows ==
  \A k \in Nat : Shift[k] > k /\ (k >= 1 => Shift[k] > 3 * (k - 1))
<1> DEFINE T == {k \in Nat : Shift[k] > k /\ (k >= 1 => Shift[k] > 3 * (k - 1))}
<1>1. 0 \in T
  BY ShiftIs
<1>2. ASSUME NEW k \in Nat, k \in T PROVE k + 1 \in T
  <2>1. Shift[k] \in Nat /\ Shift[k + 1] = 2 * Shift[k] /\ Shift[0] = 1
    BY ShiftIs
  <2>2. CASE k = 0
    BY <2>1, <2>2
  <2>3. CASE k >= 1
    BY <1>2, <2>1, <2>3
  <2>4. QED
    BY <2>2, <2>3
<1>3. \A k \in Nat : k \in T
  <2> HIDE DEF T
  <2>1. QED
    BY <1>1, <1>2, NatByInduction
<1>4. QED
  BY <1>3

\* Exclusive or of numbers with one digit more.
XorDigit(g, h, i) == ((h + i) % 2) + 2 * g[h \div 2][i \div 2]

XorTables == [Nat -> [Nat -> Nat]]

LEMMA XorDigitIs ==
  ASSUME NEW g \in XorTables, NEW h \in Nat, NEW i \in Nat
  PROVE  XorDigit(g, h, i) \in Nat
<1>1. h \div 2 \in Nat /\ i \div 2 \in Nat /\ (h + i) % 2 \in Nat
  OBVIOUS
<1>2. g[h \div 2][i \div 2] \in Nat
  BY <1>1 DEF XorTables
<1>3. QED
  BY <1>1, <1>2 DEF XorDigit

XorBody(f, k) ==
  [h \in Nat |-> [i \in Nat |-> IF k = 0 THEN 0 ELSE XorDigit(f[k - 1], h, i)]]

LEMMA XorBodyIs ==
  ASSUME NEW f, NEW k \in Nat, NEW h \in Nat, NEW i \in Nat
  PROVE  XorBody(f, k)[h][i] = IF k = 0 THEN 0 ELSE XorDigit(f[k - 1], h, i)
BY DEF XorBody

LEMMA XorBodyType ==
  ASSUME NEW f, NEW k \in Nat, k # 0 => f[k - 1] \in XorTables
  PROVE  XorBody(f, k) \in XorTables
<1>1. CASE k = 0
  BY <1>1 DEF XorBody, XorTables
<1>2. CASE k # 0
  <2>1. PICK g \in XorTables : g = f[k - 1]
    BY <1>2
  <2>2. XorBody(f, k) = [h \in Nat |-> [i \in Nat |-> XorDigit(g, h, i)]]
    BY <1>2, <2>1 DEF XorBody
  <2>3. \A h, i \in Nat : XorDigit(g, h, i) \in Nat
    BY XorDigitIs
  <2>4. [h \in Nat |-> [i \in Nat |-> XorDigit(g, h, i)]] \in [Nat -> [Nat -> Nat]]
    BY <2>3
  <2>5. QED
    BY <2>2, <2>4 DEF XorTables
<1>3. QED
  BY <1>1, <1>2

LEMMA XorIs ==
  /\ Xor \in [Nat -> XorTables]
  /\ \A h, i \in Nat : Xor[0][h][i] = 0
  /\ \A k, h, i \in Nat : Xor[k + 1][h][i] = XorDigit(Xor[k], h, i)
<1> DEFINE F == [g \in XorTables |-> [h \in Nat |-> [i \in Nat |-> XorDigit(g, h, i)]]]
           Zero == [h \in Nat |-> [i \in Nat |-> 0]]
<1>1. F \in [XorTables -> XorTables] /\ Zero \in XorTables
  <2>1. Zero \in XorTables
    BY DEF XorTables
  <2>2. ASSUME NEW g \in XorTables PROVE F[g] \in XorTables
    BY <2>2, XorDigitIs DEF XorTables
  <2>3. QED
    BY <2>1, <2>2
<1>2. PICK f \in [Nat -> XorTables] : IsRecursion(F, Zero, f)
  <2> HIDE DEF F, Zero
  <2>1. QED
    BY <1>1, RecursionExists
<1>3. \A k \in Nat : f[k] = XorBody(f, k)
  <2> SUFFICES ASSUME NEW k \in Nat PROVE f[k] = XorBody(f, k)
    OBVIOUS
  <2>1. CASE k = 0
    BY <1>2, <2>1 DEF IsRecursion, XorBody
  <2>2. CASE k # 0
    <3>1. k - 1 \in Nat /\ f[k - 1] \in XorTables
      BY <2>2
    <3>2. f[k] = F[f[k - 1]]
      BY <1>2, <2>2 DEF IsRecursion
    <3>3. QED
      BY <2>2, <3>1, <3>2 DEF XorBody
  <2>3. QED
    BY <2>1, <2>2
<1>4. f = [k \in Nat |-> XorBody(f, k)]
  BY <1>3
<1>5. Xor = [k \in Nat |-> XorBody(Xor, k)]
  BY <1>4 DEF Xor, XorBody, XorDigit
<1>6. \A k \in Nat : Xor[k] = XorBody(Xor, k)
  BY <1>5
<1>7. \A h, i \in Nat : Xor[0][h][i] = 0
  BY <1>6, XorBodyIs
<1>8. \A k, h, i \in Nat : Xor[k + 1][h][i] = XorDigit(Xor[k], h, i)
  <2> SUFFICES ASSUME NEW k \in Nat, NEW h \in Nat, NEW i \in Nat
               PROVE  Xor[k + 1][h][i] = XorDigit(Xor[k], h, i)
    OBVIOUS
  <2>1. k + 1 \in Nat /\ k + 1 # 0 /\ (k + 1) - 1 = k
    OBVIOUS
  <2>2. PICK n \in Nat : n = k + 1
    BY <2>1
  <2>3. Xor[n] = XorBody(Xor, n)
    BY <1>6
  <2>4. XorBody(Xor, n)[h][i] = IF n = 0 THEN 0 ELSE XorDigit(Xor[n - 1], h, i)
    BY XorBodyIs
  <2>5. QED
    BY <2>1, <2>2, <2>3, <2>4
<1>9. \A k \in Nat : Xor[k] \in XorTables
  <2> DEFINE T == {k \in Nat : Xor[k] \in XorTables}
  <2>1. 0 \in T
    BY <1>6, XorBodyType
  <2>2. ASSUME NEW k \in Nat, k \in T PROVE k + 1 \in T
    <3>1. k + 1 \in Nat /\ k + 1 # 0 /\ (k + 1) - 1 = k
      OBVIOUS
    <3>2. Xor[k + 1] = XorBody(Xor, k + 1)
      BY <1>6, <3>1
    <3>4. XorBody(Xor, k + 1) \in XorTables
      BY <2>2, <3>1, XorBodyType
    <3>5. QED
      BY <3>1, <3>2, <3>4
  <2>3. \A k \in Nat : k \in T
    <3> HIDE DEF T
    <3>1. QED
      BY <2>1, <2>2, NatByInduction
  <2>4. QED
    BY <2>3
<1>10. QED
  BY <1>5, <1>7, <1>8, <1>9

\* Among numbers below a power of two, h ^ i is one of them, and h ^ (h ^ i) is i.
XorWorks(k, d) ==
  \A h, i \in 0..Shift[k] - 1 :
    /\ Xor[d][h][i] \in 0..Shift[k] - 1
    /\ Xor[d][h][Xor[d][h][i]] = i

LEMMA XorZero == \A d \in Nat : Xor[d][0][0] = 0
<1> DEFINE T == {d \in Nat : Xor[d][0][0] = 0}
<1>1. 0 \in T
  BY XorIs
<1>2. ASSUME NEW d \in Nat, d \in T PROVE d + 1 \in T
  <2>1. Xor[d + 1][0][0] = XorDigit(Xor[d], 0, 0)
    BY XorIs
  <2>2. 0 \div 2 = 0 /\ (0 + 0) % 2 = 0
    OBVIOUS
  <2>3. QED
    BY <1>2, <2>1, <2>2 DEF XorDigit
<1>3. \A d \in Nat : d \in T
  <2> HIDE DEF T
  <2>1. QED
    BY <1>1, <1>2, NatByInduction
<1>4. QED
  BY <1>3

\* The last digit, and the others.
LEMMA LastDigit ==
  ASSUME NEW n \in Nat, NEW h \in 0..2 * n - 1, NEW i \in 0..2 * n - 1, NEW x \in 0..n - 1,
         NEW y, y = ((h + i) % 2) + 2 * x
  PROVE  /\ h \div 2 \in 0..n - 1 /\ i \div 2 \in 0..n - 1
         /\ y \in 0..2 * n - 1 /\ y \div 2 = x
         /\ ((h + y) % 2) + 2 * (i \div 2) = i
<1>1. PICK c, d, e, f \in Int : c = h \div 2 /\ d = h % 2 /\ e = i \div 2 /\ f = i % 2
  OBVIOUS
<1>2. h = 2 * c + d /\ i = 2 * e + f /\ d \in 0..1 /\ f \in 0..1
  BY <1>1
<1>3. c \in 0..n - 1 /\ e \in 0..n - 1
  BY <1>2
<1>4. CASE d = f
  <2>1. (h + i) % 2 = 0
    BY <1>2, <1>4
  <2>2. y = 2 * x
    BY <2>1
  <2>3. (h + y) % 2 = f
    BY <1>2, <1>4, <2>2
  <2>4. QED
    BY <1>1, <1>2, <1>3, <2>2, <2>3
<1>5. CASE d # f
  <2>1. (h + i) % 2 = 1
    BY <1>2, <1>5
  <2>2. y = 2 * x + 1
    BY <2>1
  <2>3. (h + y) % 2 = f
    BY <1>2, <1>5, <2>2
  <2>4. QED
    BY <1>1, <1>2, <1>3, <2>2, <2>3
<1>6. QED
  BY <1>4, <1>5

LEMMA XorAlwaysWorks == \A k \in Nat : \A d \in Nat : d >= k => XorWorks(k, d)
<1> DEFINE T == {k \in Nat : \A d \in Nat : d >= k => XorWorks(k, d)}
<1>1. 0 \in T
  BY XorZero, ShiftIs DEF XorWorks
<1>2. ASSUME NEW k \in Nat, k \in T PROVE k + 1 \in T
  <2> SUFFICES ASSUME NEW e \in Nat, e >= k + 1 PROVE XorWorks(k + 1, e)
    OBVIOUS
  <2>1. PICK d \in Nat : e = d + 1 /\ d >= k
    <3>1. e - 1 \in Nat /\ e = (e - 1) + 1 /\ e - 1 >= k
      OBVIOUS
    <3>2. QED
      BY <3>1
  <2>2. PICK n \in Nat : n = Shift[k] /\ Shift[k + 1] = 2 * n
    BY ShiftIs
  <2>3. \A a, b \in 0..n - 1 : Xor[d][a][b] \in 0..n - 1 /\ Xor[d][a][Xor[d][a][b]] = b
    BY <1>2, <2>1, <2>2 DEF XorWorks
  <2>4. ASSUME NEW h \in 0..2 * n - 1, NEW i \in 0..2 * n - 1
        PROVE  Xor[e][h][i] \in 0..2 * n - 1 /\ Xor[e][h][Xor[e][h][i]] = i
    <3>1. PICK x, y, a, b : a = h \div 2 /\ b = i \div 2 /\ x = Xor[d][a][b] /\ y = Xor[e][h][i]
      OBVIOUS
    <3>2. h \in Nat /\ i \in Nat /\ a \in 0..n - 1 /\ b \in 0..n - 1
      BY <3>1
    <3>3. x \in 0..n - 1 /\ Xor[d][a][x] = b
      BY <2>3, <3>1, <3>2
    <3>4. y = ((h + i) % 2) + 2 * x
      <4>1. Xor[d + 1][h][i] = XorDigit(Xor[d], h, i)
        BY <3>2, XorIs
      <4>2. QED
        BY <2>1, <3>1, <4>1 DEF XorDigit
    <3>5. y \in 0..2 * n - 1 /\ y \div 2 = x /\ ((h + y) % 2) + 2 * (i \div 2) = i
      BY <3>3, <3>4, LastDigit
    <3>6. Xor[e][h][y] = ((h + y) % 2) + 2 * Xor[d][a][x]
      <4>1. y \in Nat
        BY <3>5
      <4>2. Xor[d + 1][h][y] = XorDigit(Xor[d], h, y)
        BY <3>2, <4>1, XorIs
      <4>3. QED
        BY <2>1, <3>1, <3>5, <4>2 DEF XorDigit
    <3>7. QED
      BY <3>1, <3>3, <3>5, <3>6
  <2>5. QED
    BY <2>2, <2>4 DEF XorWorks
<1>3. \A k \in Nat : k \in T
  <2> HIDE DEF T
  <2>1. QED
    BY <1>1, <1>2, NatByInduction
<1>4. QED
  BY <1>3

-----------------------------------------------------------------------------
(* The table.                                                              *)

Fragments == Seq([sha : Shas, known : BOOLEAN])

LEMMA ElementIs ==
  ASSUME NEW S, NEW s \in Seq(S), NEW n \in 1..Len(s)
  PROVE  s[n] \in S
OBVIOUS

LEMMA FragmentIs ==
  ASSUME NEW fragments \in Fragments, NEW n \in 1..Len(fragments)
  PROVE  fragments[n].sha \in Shas /\ fragments[n].known \in BOOLEAN
<1>1. fragments[n] \in [sha : Shas, known : BOOLEAN]
  <2>1. PICK S : S = [sha : Shas, known : BOOLEAN]
    OBVIOUS
  <2>2. fragments \in Seq(S)
    BY <2>1 DEF Fragments
  <2>3. QED
    BY <2>1, <2>2, ElementIs
<1>2. QED
  BY <1>1

\* A table of 2^k slots.
IsTable(t, k) == t \in [0..Shift[k] - 1 -> Nat]

LEMMA SizeIs ==
  ASSUME NEW k \in Nat, NEW t, IsTable(t, k)
  PROVE  /\ DOMAIN t = 0..Shift[k] - 1 /\ Size(t) = Shift[k]
         /\ Shift[k] \in Nat \ {0} /\ Shift[k] > k
<1>1. Shift[k] \in Nat \ {0} /\ Shift[k] > k
  BY ShiftIs, ShiftGrows
<1>2. DOMAIN t = 0..Shift[k] - 1
  BY DEF IsTable
<1>3. Cardinality(0..Shift[k] - 1) = Shift[k]
  BY <1>1, FS_Interval
<1>4. QED
  BY <1>1, <1>2, <1>3 DEF Size

\* Every slot is looked at.
LEMMA ProbeIs ==
  ASSUME NEW k \in Nat, NEW t, IsTable(t, k), NEW sha \in Shas
  PROVE  /\ \A i \in DOMAIN t : Probe(t, sha, i) \in DOMAIN t
         /\ \A slot \in DOMAIN t : \E i \in DOMAIN t : Probe(t, sha, i) = slot
<1>1. PICK n, h : n = Shift[k] /\ h = Hash(t, sha)
  OBVIOUS
<1>2. DOMAIN t = 0..n - 1 /\ Size(t) = n /\ n \in Nat \ {0} /\ n > k
  BY <1>1, SizeIs
<1>3. h \in 0..n - 1
  <2>1. Prefix[sha] \in Nat
    BY DedupAssumption
  <2>2. h = Prefix[sha] % n
    BY <1>1, <1>2 DEF Hash
  <2>3. QED
    BY <1>2, <2>1, <2>2
<1>4. XorWorks(k, n)
  BY <1>2, XorAlwaysWorks
<1>5. \A i \in 0..n - 1 : Xor[n][h][i] \in 0..n - 1 /\ Xor[n][h][Xor[n][h][i]] = i
  BY <1>1, <1>3, <1>4 DEF XorWorks
<1>6. \A i : Probe(t, sha, i) = Xor[n][h][i]
  BY <1>1, <1>2 DEF Probe
<1>7. QED
  BY <1>2, <1>5, <1>6

\* On the way to fragment m there are only fragments with lower numbers: no free slot,
\* and none that a search for m must not come to first.
Reached(t, sha, m) ==
  \E i \in DOMAIN t : /\ t[Probe(t, sha, i)] = m
                      /\ \A j \in 0..i - 1 : t[Probe(t, sha, j)] \in 1..m - 1

\* The fragments before n are in the table, once, and no others.
Holds(t, fragments, n) ==
  /\ \A slot \in DOMAIN t :
       t[slot] # 0 => t[slot] \in 1..n - 1 /\ fragments[t[slot]].known
  /\ \A s1, s2 \in DOMAIN t : t[s1] # 0 /\ t[s1] = t[s2] => s1 = s2
  /\ \A m \in 1..n - 1 : fragments[m].known => Reached(t, fragments[m].sha, m)

LEMMA MinIs ==
  ASSUME NEW T, T \subseteq Nat, T # {}
  PROVE  Min(T) \in T /\ \A n \in T : Min(T) <= n
BY LeastNat DEF Min

\* Fewer fragments than slots leave a slot free.
LEMMA SlotIsFree ==
  ASSUME NEW k \in Nat, NEW t, IsTable(t, k), NEW fragments, NEW n \in Nat \ {0},
         Holds(t, fragments, n), n <= Shift[k]
  PROVE  \E slot \in DOMAIN t : t[slot] = 0
<1> SUFFICES ASSUME \A slot \in DOMAIN t : t[slot] # 0 PROVE FALSE
  OBVIOUS
<1>1. t \in [DOMAIN t -> 1..n - 1]
  <2>1. \A slot \in DOMAIN t : t[slot] \in 1..n - 1
    BY DEF Holds
  <2>2. t = [slot \in DOMAIN t |-> t[slot]]
    BY DEF IsTable
  <2>3. QED
    BY <2>1, <2>2
<1>2. DOMAIN t = 0..Shift[k] - 1 /\ Shift[k] \in Nat \ {0}
  BY SizeIs
<1>3. PICK S, T, m : S = DOMAIN t /\ T = 1..n - 1 /\ m = Shift[k]
  OBVIOUS
<1>4. IsFiniteSet(T) /\ Cardinality(T) = n - 1
  <2>1. n - 1 \in Int /\ ~(1 > n - 1 /\ n # 1) /\ (n - 1) - 1 + 1 = n - 1
    OBVIOUS
  <2>2. QED
    BY <1>3, <2>1, FS_Interval
<1>5. IsFiniteSet(S) /\ Cardinality(S) = m
  <2>1. m \in Nat \ {0} /\ S = 0..m - 1
    BY <1>2, <1>3
  <2>2. m - 1 \in Int /\ ~(0 > m - 1) /\ (m - 1) - 0 + 1 = m
    BY <2>1
  <2>3. QED
    BY <2>1, <2>2, FS_Interval
<1>6. Cardinality(T) < Cardinality(S) /\ t \in [S -> T]
  BY <1>1, <1>2, <1>3, <1>4, <1>5
<1>7. \E s1, s2 \in S : s1 # s2 /\ t[s1] = t[s2]
  BY <1>4, <1>5, <1>6, FS_PigeonHole
<1>8. QED
  BY <1>3, <1>7 DEF Holds

LEMMA EmptyIs ==
  ASSUME NEW k \in Nat, NEW fragments
  PROVE  IsTable(Empty(Shift[k]), k) /\ Holds(Empty(Shift[k]), fragments, 1)
BY DEF IsTable, Empty, Holds

\* What Put does where a slot is free.
LEMMA PutIs ==
  ASSUME NEW k \in Nat, NEW t, IsTable(t, k), NEW sha \in Shas, NEW n \in Nat,
         \E slot \in DOMAIN t : t[slot] = 0
  PROVE  \E i \in DOMAIN t :
           /\ t[Probe(t, sha, i)] = 0 /\ Probe(t, sha, i) \in DOMAIN t
           /\ \A j \in 0..i - 1 : j \in DOMAIN t /\ t[Probe(t, sha, j)] # 0
           /\ Put(t, sha, n) = [t EXCEPT ![Probe(t, sha, i)] = n]
<1>1. PICK free : free = {i \in 0..Size(t) - 1 : t[Probe(t, sha, i)] = 0}
  OBVIOUS
<1>2. DOMAIN t = 0..Size(t) - 1 /\ Size(t) \in Nat
  BY SizeIs
<1>3. free # {} /\ free \subseteq Nat
  <2>1. PICK slot \in DOMAIN t : t[slot] = 0
    OBVIOUS
  <2>2. PICK i \in DOMAIN t : Probe(t, sha, i) = slot
    BY ProbeIs
  <2>3. i \in free
    BY <1>1, <1>2, <2>1, <2>2
  <2>4. QED
    BY <1>1, <2>3
<1>4. PICK i : i = Min(free)
  OBVIOUS
<1>5. i \in free /\ \A j \in free : i <= j
  BY <1>3, <1>4, MinIs
<1>6. i \in DOMAIN t /\ t[Probe(t, sha, i)] = 0 /\ Probe(t, sha, i) \in DOMAIN t
  BY <1>1, <1>2, <1>5, ProbeIs
<1>7. ASSUME NEW j \in 0..i - 1 PROVE j \in DOMAIN t /\ t[Probe(t, sha, j)] # 0
  <2>1. j \in 0..Size(t) - 1 /\ ~(i <= j)
    BY <1>2, <1>6
  <2>2. j \notin free
    BY <1>5, <2>1
  <2>3. QED
    BY <1>1, <1>2, <2>1, <2>2
<1>8. Put(t, sha, n) = [t EXCEPT ![Probe(t, sha, i)] = n]
  BY <1>1, <1>3, <1>4 DEF Put
<1>9. QED
  BY <1>6, <1>7, <1>8

\* Put in the first free slot, a fragment comes after those with lower numbers.
LEMMA PutHolds ==
  ASSUME NEW k \in Nat, NEW t, IsTable(t, k), NEW fragments \in Fragments,
         NEW n \in 1..Len(fragments), fragments[n].known,
         Holds(t, fragments, n), n <= Shift[k],
         NEW u, u = Put(t, fragments[n].sha, n)
  PROVE  IsTable(u, k) /\ Holds(u, fragments, n + 1)
<1>1. PICK sha : sha = fragments[n].sha
  OBVIOUS
<1>2. sha \in Shas /\ n \in Nat \ {0}
  BY <1>1, FragmentIs
<1>3. \E slot \in DOMAIN t : t[slot] = 0
  BY <1>2, SlotIsFree
<1>4. PICK i \in DOMAIN t :
        /\ t[Probe(t, sha, i)] = 0 /\ Probe(t, sha, i) \in DOMAIN t
        /\ \A j \in 0..i - 1 : j \in DOMAIN t /\ t[Probe(t, sha, j)] # 0
        /\ Put(t, sha, n) = [t EXCEPT ![Probe(t, sha, i)] = n]
  BY <1>2, <1>3, PutIs
<1>5. PICK p : p = Probe(t, sha, i)
  OBVIOUS
<1>6. u = [t EXCEPT ![p] = n] /\ p \in DOMAIN t /\ t[p] = 0
  BY <1>1, <1>4, <1>5
<1>7. IsTable(u, k) /\ DOMAIN u = DOMAIN t /\ Size(u) = Size(t)
  BY <1>2, <1>6 DEF IsTable, Size
<1>8. \A s, j : Probe(u, s, j) = Probe(t, s, j)
  BY <1>7 DEF Probe, Hash
<1>9. u[p] = n /\ \A slot \in DOMAIN t : slot # p => u[slot] = t[slot]
  BY <1>6
<1>10. \A slot \in DOMAIN t : t[slot] # 0 => u[slot] = t[slot]
  BY <1>6, <1>9
<1>11. \A slot \in DOMAIN t : t[slot] # 0 => t[slot] \in 1..n - 1 /\ fragments[t[slot]].known
  BY DEF Holds
<1>12. \A slot \in DOMAIN u : u[slot] # 0 => u[slot] \in 1..(n + 1) - 1 /\ fragments[u[slot]].known
  <2> SUFFICES ASSUME NEW slot \in DOMAIN t, u[slot] # 0
               PROVE  u[slot] \in 1..(n + 1) - 1 /\ fragments[u[slot]].known
    BY <1>7
  <2>1. CASE slot = p
    BY <1>2, <1>9, <2>1
  <2>2. CASE slot # p
    BY <1>2, <1>9, <1>11, <2>2
  <2>3. QED
    BY <2>1, <2>2
<1>13. \A s1, s2 \in DOMAIN u : u[s1] # 0 /\ u[s1] = u[s2] => s1 = s2
  <2> SUFFICES ASSUME NEW s1 \in DOMAIN t, NEW s2 \in DOMAIN t, u[s1] # 0, u[s1] = u[s2], s1 # s2
               PROVE  FALSE
    BY <1>7
  <2>1. \A slot \in DOMAIN t : slot # p => u[slot] # n
    BY <1>2, <1>9, <1>11
  <2>2. s1 # p /\ s2 # p
    BY <1>9, <2>1
  <2>3. t[s1] # 0 /\ t[s1] = t[s2]
    BY <1>9, <2>2
  <2>4. QED
    BY <2>3 DEF Holds
<1>14. ASSUME NEW m \in 1..(n + 1) - 1, fragments[m].known PROVE Reached(u, fragments[m].sha, m)
  <2>1. CASE m = n
    <3>1. u[Probe(u, sha, i)] = n
      BY <1>5, <1>8, <1>9
    <3>2. ASSUME NEW j \in 0..i - 1 PROVE u[Probe(u, sha, j)] \in 1..n - 1
      <4>1. j \in DOMAIN t /\ t[Probe(t, sha, j)] # 0
        BY <1>4
      <4>2. Probe(t, sha, j) \in DOMAIN t
        BY <1>2, <4>1, ProbeIs
      <4>3. QED
        BY <1>8, <1>10, <1>11, <4>1, <4>2
    <3>3. QED
      BY <1>1, <1>7, <2>1, <3>1, <3>2 DEF Reached
  <2>2. CASE m # n
    <3>1. PICK s : s = fragments[m].sha
      OBVIOUS
    <3>2. m \in 1..n - 1 /\ m \in 1..Len(fragments)
      BY <1>2, <2>2
    <3>3. s \in Shas
      BY <3>1, <3>2, FragmentIs
    <3>4. PICK x \in DOMAIN t : /\ t[Probe(t, s, x)] = m
                                /\ \A j \in 0..x - 1 : t[Probe(t, s, j)] \in 1..m - 1
      BY <1>14, <3>1, <3>2 DEF Holds, Reached
    <3>5. u[Probe(u, s, x)] = m
      BY <1>8, <1>10, <3>2, <3>3, <3>4, ProbeIs
    <3>6. ASSUME NEW j \in 0..x - 1 PROVE u[Probe(u, s, j)] \in 1..m - 1
      <4>1. j \in DOMAIN t
        BY <3>4, SizeIs
      <4>2. t[Probe(t, s, j)] \in 1..m - 1 /\ Probe(t, s, j) \in DOMAIN t
        BY <3>3, <3>4, <4>1, ProbeIs
      <4>3. QED
        BY <1>8, <1>10, <4>2
    <3>7. QED
      BY <1>7, <3>1, <3>4, <3>5, <3>6 DEF Reached
  <2>3. QED
    BY <2>1, <2>2
<1>15. QED
  BY <1>7, <1>12, <1>13, <1>14 DEF Holds

-----------------------------------------------------------------------------
(* update().                                                               *)

Tables == UNION {[0..Shift[k] - 1 -> Nat] : k \in Nat}

Records == [t : Tables, htsize : Nat]

\* The index has 2^k slots, and the fragments before htsize.
Fits(r, fragments, k) ==
  /\ IsTable(r.t, k) /\ k <= Len(fragments) + Estimate
  /\ r.htsize \in 1..HtSize(fragments) /\ r.htsize <= Shift[k]
  /\ Holds(r.t, fragments, r.htsize)

\* ht.size() counts the unused ht[0].
LEMMA FragmentsLen ==
  ASSUME NEW fragments \in Fragments
  PROVE  Len(fragments) \in Nat /\ HtSize(fragments) = Len(fragments) + 1
BY DEF Fragments, HtSize

\* Only a table too small for the fragments is crowded.
LEMMA CrowdedIs ==
  ASSUME NEW k \in Nat, NEW t, IsTable(t, k), NEW L \in Nat, NEW n \in 1..L
  PROVE  /\ Crowded(t, n) => k + 1 <= L + Estimate /\ k <= L + 1
         /\ ~Crowded(t, n) => n + 1 <= Shift[k]
<1>1. PICK size \in Nat : size = Shift[k] /\ Size(t) = size /\ size > k
  BY SizeIs
<1>2. Crowded(t, n) <=> n >= (size \div 4) * 3
  BY <1>1 DEF Crowded
<1>3. Estimate \in Nat \ {0}
  BY DedupAssumption
<1>4. k >= 2 => size \div 4 >= k - 1
  <2> SUFFICES ASSUME k >= 2 PROVE size \div 4 >= k - 1
    OBVIOUS
  <2>1. k - 2 \in Nat /\ k - 1 \in Nat /\ (k - 2) + 1 = k - 1 /\ (k - 1) + 1 = k
    OBVIOUS
  <2>2. PICK x \in Nat : x = Shift[k - 2] /\ x > k - 2
    BY <2>1, ShiftIs, ShiftGrows
  <2>3. Shift[k - 1] = 2 * x
    BY <2>1, <2>2, ShiftIs
  <2>4. size = 4 * x
    BY <1>1, <2>1, <2>3, ShiftIs
  <2>5. QED
    BY <2>2, <2>4
<1>5. Crowded(t, n) => k + 1 <= L + Estimate /\ k <= L + 1
  <2> SUFFICES ASSUME Crowded(t, n) PROVE k + 1 <= L + Estimate /\ k <= L + 1
    OBVIOUS
  <2>1. CASE k < 2
    BY <1>3, <2>1
  <2>2. CASE k >= 2
    <3>1. PICK q \in Nat : q = size \div 4
      BY <1>1
    <3>2. n >= q * 3 /\ q >= k - 1
      BY <1>2, <1>4, <2>2, <3>1
    <3>3. QED
      BY <1>3, <2>2, <3>2
  <2>3. QED
    BY <2>1, <2>2
<1>6. ~Crowded(t, n) => n + 1 <= Shift[k]
  <2>1. PICK q \in Nat : q = size \div 4 /\ 4 * q <= size
    BY <1>1
  <2>2. QED
    BY <1>1, <1>2, <2>1
<1>7. QED
  BY <1>5, <1>6

\* A fragment is put in the table, or is not known and left out.
LEMMA FilledIs ==
  ASSUME NEW k \in Nat, NEW t, IsTable(t, k), NEW fragments \in Fragments,
         NEW n \in 1..Len(fragments), Holds(t, fragments, n), n <= Shift[k],
         NEW u, u = IF fragments[n].known THEN Put(t, fragments[n].sha, n) ELSE t
  PROVE  IsTable(u, k) /\ Holds(u, fragments, n + 1)
<1>1. CASE fragments[n].known
  BY <1>1, PutHolds
<1>2. CASE ~fragments[n].known
  <2>1. u = t /\ n \in Nat
    BY <1>2
  <2>2. \A m \in 1..(n + 1) - 1 : fragments[m].known => m \in 1..n - 1
    BY <1>2, <2>1
  <2>3. \A x \in 1..n - 1 : x \in 1..(n + 1) - 1
    BY <2>1
  <2>4. QED
    BY <2>1, <2>2, <2>3 DEF Holds
<1>3. QED
  BY <1>1, <1>2

\* What a turn does: the table has grown, or has one fragment more.
Grown(r, s, fragments, k) ==
  Fits(s, fragments, k + 1) /\ k <= Len(fragments) + 1

Longer(r, s, fragments, k) ==
  Fits(s, fragments, k) /\ s.htsize = r.htsize + 1

LEMMA TurnIs ==
  ASSUME NEW fragments \in Fragments, NEW k \in Nat, NEW r \in Records,
         Fits(r, fragments, k), r.htsize < HtSize(fragments),
         NEW s, s = Turn(r, fragments)
  PROVE  s \in Records /\ (Longer(r, s, fragments, k) \/ Grown(r, s, fragments, k))
<1>1. PICK L \in Nat : L = Len(fragments) /\ HtSize(fragments) = L + 1
  BY FragmentsLen
<1>2. PICK h : h = r.htsize
  OBVIOUS
<1>3. h \in 1..L /\ IsTable(r.t, k) /\ h <= Shift[k] /\ Holds(r.t, fragments, h)
  BY <1>1, <1>2 DEF Fits, Records
<1>4. Size(r.t) = Shift[k] /\ Shift[k] \in Nat \ {0} /\ Shift[k + 1] = 2 * Shift[k]
  BY <1>3, SizeIs, ShiftIs
<1>5. CASE Crowded(r.t, h)
  <2>1. PICK t : t = Empty(Shift[k + 1])
    OBVIOUS
  <2>2. IsTable(t, k + 1) /\ Holds(t, fragments, 1)
    BY <2>1, EmptyIs
  <2>3. PICK u : u = IF fragments[1].known THEN Put(t, fragments[1].sha, 1) ELSE t
    OBVIOUS
  <2>4. s = [t |-> u, htsize |-> 2]
    BY <1>2, <1>4, <1>5, <2>1, <2>3 DEF Turn, From
  <2>5. 1 \in 1..Len(fragments) /\ 1 <= Shift[k + 1] /\ 2 <= Shift[k + 1] /\ k + 1 \in Nat
    BY <1>1, <1>3, <1>4
  <2>6. IsTable(u, k + 1) /\ Holds(u, fragments, 2)
    <3>1. IsTable(u, k + 1) /\ Holds(u, fragments, 1 + 1)
      BY <2>2, <2>3, <2>5, FilledIs
    <3>2. QED
      BY <3>1
  <2>7. k + 1 <= L + Estimate /\ k <= L + 1
    BY <1>3, <1>5, CrowdedIs
  <2>8. Grown(r, s, fragments, k)
    BY <1>1, <1>3, <2>4, <2>5, <2>6, <2>7 DEF Grown, Fits
  <2>9. s \in Records
    BY <2>4, <2>5, <2>6 DEF Records, Tables, IsTable
  <2>10. QED
    BY <2>8, <2>9
<1>6. CASE ~Crowded(r.t, h)
  <2>1. PICK u : u = IF fragments[h].known THEN Put(r.t, fragments[h].sha, h) ELSE r.t
    OBVIOUS
  <2>2. s = [t |-> u, htsize |-> h + 1]
    BY <1>2, <1>6, <2>1 DEF Turn
  <2>3. IsTable(u, k) /\ Holds(u, fragments, h + 1)
    BY <1>1, <1>3, <2>1, FilledIs
  <2>4. h + 1 <= Shift[k]
    BY <1>3, <1>6, CrowdedIs
  <2>5. k <= Len(fragments) + Estimate
    BY DEF Fits
  <2>6. Longer(r, s, fragments, k)
    BY <1>1, <1>2, <1>3, <2>2, <2>3, <2>4, <2>5 DEF Longer, Fits
  <2>7. s \in Records
    BY <1>3, <2>2, <2>3 DEF Records, Tables, IsTable
  <2>8. QED
    BY <2>6, <2>7
<1>7. QED
  BY <1>5, <1>6

\* The loop, which stays where it has ended.
Ended(r, fragments) == r.htsize >= HtSize(fragments)

Looped(r, fragments) == IF Ended(r, fragments) THEN r ELSE Turn(r, fragments)

FitRecords(fragments) == {r \in Records : \E k \in Nat : Fits(r, fragments, k)}

UpdateRuns(r, fragments) ==
  {s \in [Nat -> FitRecords(fragments)] :
     s[0] = r /\ \A n \in Nat : s[n + 1] = Looped(s[n], fragments)}

LEMMA LoopedIs ==
  ASSUME NEW fragments \in Fragments, NEW r \in FitRecords(fragments)
  PROVE  Looped(r, fragments) \in FitRecords(fragments)
<1>1. CASE Ended(r, fragments)
  BY <1>1 DEF Looped
<1>2. CASE ~Ended(r, fragments)
  <2>1. PICK k \in Nat : Fits(r, fragments, k)
    BY DEF FitRecords
  <2>2. PICK s : s = Turn(r, fragments)
    OBVIOUS
  <2>3. r \in Records /\ r.htsize < HtSize(fragments)
    BY <1>2, FragmentsLen DEF FitRecords, Records, Ended
  <2>4. s \in Records /\ (Longer(r, s, fragments, k) \/ Grown(r, s, fragments, k))
    BY <2>1, <2>2, <2>3, TurnIs
  <2>5. s \in FitRecords(fragments)
    BY <2>4 DEF FitRecords, Longer, Grown
  <2>6. QED
    BY <1>2, <2>2, <2>5 DEF Looped
<1>3. QED
  BY <1>1, <1>2

LEMMA UpdateRunExists ==
  ASSUME NEW fragments \in Fragments, NEW r \in FitRecords(fragments)
  PROVE  \E s : s \in UpdateRuns(r, fragments)
<1> DEFINE S == FitRecords(fragments)
           F == [x \in S |-> Looped(x, fragments)]
<1>1. F \in [S -> S]
  BY LoopedIs
<1>2. PICK s \in [Nat -> S] : IsLoop(F, r, s)
  BY <1>1, LoopExists
<1>3. \A n \in Nat : s[n + 1] = Looped(s[n], fragments)
  <2> SUFFICES ASSUME NEW n \in Nat PROVE s[n + 1] = Looped(s[n], fragments)
    OBVIOUS
  <2>1. s[n] \in S /\ s[n + 1] = F[s[n]]
    BY <1>2 DEF IsLoop
  <2>2. QED
    BY <2>1
<1>4. s \in UpdateRuns(r, fragments)
  BY <1>2, <1>3 DEF IsLoop, UpdateRuns
<1>5. QED
  BY <1>4

\* The loop of Update, as a function on the number of its turns.
UpdateAfter(r, fragments, N, a) ==
  a = [k \in 0..N |-> IF k = 0 THEN r ELSE Looped(a[k - 1], fragments)]

LEMMA UpdateIsRun ==
  ASSUME NEW fragments \in Fragments, NEW r, NEW s \in UpdateRuns(r, fragments),
         Turns(fragments) \in Nat
  PROVE  Update(r, fragments) = s[Turns(fragments)]
<1>1. PICK N \in Nat : N = Turns(fragments)
  OBVIOUS
<1>2. \A z : (CHOOSE y \in {(IF x.htsize >= HtSize(fragments) THEN x ELSE Turn(x, fragments)) : x \in {z}} : TRUE)
               = Looped(z, fragments)
  BY DEF Looped, Ended
<1>3. \A a : (a = [k \in 0..Turns(fragments) |->
                     IF k = 0 THEN r
                     ELSE CHOOSE y \in {(IF x.htsize >= HtSize(fragments) THEN x ELSE Turn(x, fragments)) : x \in {a[k - 1]}} : TRUE])
              <=> UpdateAfter(r, fragments, N, a)
  BY <1>1, <1>2, Zenon DEF UpdateAfter
<1>4. PICK c : c = CHOOSE a : UpdateAfter(r, fragments, N, a)
  OBVIOUS
<1>5. Update(r, fragments) = c[N]
  <2>1. (CHOOSE a : a = [k \in 0..Turns(fragments) |->
                     IF k = 0 THEN r
                     ELSE CHOOSE y \in {(IF x.htsize >= HtSize(fragments) THEN x ELSE Turn(x, fragments)) : x \in {a[k - 1]}} : TRUE])
          = c
    BY <1>3, <1>4
  <2>2. QED
    BY <1>1, <2>1 DEF Update
<1>6. \A n \in 0..N : n # 0 => n - 1 \in Nat /\ n - 1 \in 0..N /\ (n - 1) + 1 = n
  OBVIOUS
<1>7. UpdateAfter(r, fragments, N, c)
  <2> DEFINE a == [n \in 0..N |-> s[n]]
  <2>1. \A n \in 0..N : s[n] = IF n = 0 THEN r ELSE Looped(a[n - 1], fragments)
    <3> SUFFICES ASSUME NEW n \in 0..N
                 PROVE  s[n] = IF n = 0 THEN r ELSE Looped(a[n - 1], fragments)
      OBVIOUS
    <3>1. CASE n = 0
      BY <3>1 DEF UpdateRuns
    <3>2. CASE n # 0
      <4>1. s[(n - 1) + 1] = Looped(s[n - 1], fragments)
        BY <1>6, <3>2 DEF UpdateRuns
      <4>2. QED
        BY <1>6, <3>2, <4>1
    <3>3. QED
      BY <3>1, <3>2
  <2>2. a = [n \in 0..N |-> IF n = 0 THEN r ELSE Looped(a[n - 1], fragments)]
    BY <2>1
  <2>3. UpdateAfter(r, fragments, N, a)
    BY <2>2 DEF UpdateAfter
  <2>4. QED
    BY <1>4, <2>3
<1>8. \A n \in 0..N : c[n] = IF n = 0 THEN r ELSE Looped(c[n - 1], fragments)
  BY <1>7 DEF UpdateAfter
<1> DEFINE T == {n \in Nat : n <= N => c[n] = s[n]}
<1>9. 0 \in T
  BY <1>8 DEF UpdateRuns
<1>10. ASSUME NEW n \in Nat, n \in T PROVE n + 1 \in T
  <2> SUFFICES ASSUME n + 1 <= N PROVE c[n + 1] = s[n + 1]
    OBVIOUS
  <2>1. n <= N /\ n + 1 \in 0..N /\ n + 1 # 0 /\ (n + 1) - 1 = n
    OBVIOUS
  <2>2. c[n + 1] = Looped(c[n], fragments)
    BY <1>8, <2>1
  <2>3. s[n + 1] = Looped(s[n], fragments)
    BY DEF UpdateRuns
  <2>4. QED
    BY <1>10, <2>1, <2>2, <2>3
<1>11. \A n \in Nat : n \in T
  <2> HIDE DEF T
  <2>1. QED
    BY <1>9, <1>10, NatByInduction
<1>12. QED
  BY <1>1, <1>5, <1>11

\* Once at the end of the fragments, the loop is there.
LEMMA EndedStays ==
  ASSUME NEW fragments \in Fragments, NEW r, NEW s \in UpdateRuns(r, fragments),
         NEW n \in Nat, NEW m \in Nat, n <= m, Ended(s[n], fragments)
  PROVE  Ended(s[m], fragments)
<1> DEFINE T == {d \in Nat : Ended(s[n + d], fragments)}
<1>1. 0 \in T
  OBVIOUS
<1>2. ASSUME NEW d \in Nat, d \in T PROVE d + 1 \in T
  <2>1. n + d \in Nat /\ n + (d + 1) = (n + d) + 1
    OBVIOUS
  <2>2. s[(n + d) + 1] = Looped(s[n + d], fragments)
    BY <2>1 DEF UpdateRuns
  <2>3. QED
    BY <1>2, <2>1, <2>2 DEF Looped
<1>3. \A d \in Nat : d \in T
  <2> HIDE DEF T
  <2>1. QED
    BY <1>1, <1>2, NatByInduction
<1>4. m - n \in T
  <2> HIDE DEF T
  <2>1. QED
    BY <1>3
<1>5. QED
  BY <1>4

\* A pass over the fragments ends, or ends in a larger table.
PassEnds(fragments, s, n, k, m) ==
  Ended(s[m], fragments) \/ Grown(s[n], s[m], fragments, k)

LEMMA PassIs ==
  ASSUME NEW fragments \in Fragments, NEW r, NEW s \in UpdateRuns(r, fragments)
  PROVE  \A d \in Nat : \A n, k \in Nat :
           Fits(s[n], fragments, k) /\ s[n].htsize + d >= HtSize(fragments)
             => \E m \in n..n + d : PassEnds(fragments, s, n, k, m)
<1> DEFINE Within(d, n, k) == \E m \in n..n + d : PassEnds(fragments, s, n, k, m)
           T == {d \in Nat : \A n, k \in Nat :
             Fits(s[n], fragments, k) /\ s[n].htsize + d >= HtSize(fragments)
               => Within(d, n, k)}
<1>0. \A n \in Nat : s[n] \in Records /\ s[n].htsize \in Nat /\ s[n + 1] = Looped(s[n], fragments)
  BY DEF UpdateRuns, FitRecords, Records
<1>h. HtSize(fragments) \in Nat
  BY FragmentsLen
<1>1. 0 \in T
  <2> SUFFICES ASSUME NEW n \in Nat, NEW k \in Nat, s[n].htsize + 0 >= HtSize(fragments)
               PROVE  Within(0, n, k)
    OBVIOUS
  <2>1. Ended(s[n], fragments)
    BY <1>0 DEF Ended
  <2>2. n \in n..n + 0
    OBVIOUS
  <2>3. QED
    BY <2>1, <2>2 DEF PassEnds
<1>2. ASSUME NEW d \in Nat, d \in T PROVE d + 1 \in T
  <2> SUFFICES ASSUME NEW n \in Nat, NEW k \in Nat, Fits(s[n], fragments, k),
                      s[n].htsize + (d + 1) >= HtSize(fragments)
               PROVE  Within(d + 1, n, k)
    OBVIOUS
  <2>1. n + 1 \in Nat /\ n \in n..n + (d + 1) /\ n + 1 \in n..n + (d + 1)
    OBVIOUS
  <2>2. CASE Ended(s[n], fragments)
    BY <2>1, <2>2 DEF PassEnds
  <2>3. CASE ~Ended(s[n], fragments)
    <3>1. PICK x, y : x = s[n] /\ y = s[n + 1]
      OBVIOUS
    <3>2. x \in Records /\ y = Turn(x, fragments) /\ x.htsize < HtSize(fragments)
      BY <1>0, <1>h, <2>3, <3>1 DEF Looped, Ended
    <3>3. Longer(x, y, fragments, k) \/ Grown(x, y, fragments, k)
      BY <3>1, <3>2, TurnIs
    <3>4. CASE Grown(x, y, fragments, k)
      BY <2>1, <3>1, <3>4 DEF PassEnds
    <3>5. CASE Longer(x, y, fragments, k)
      <4>1. Fits(s[n + 1], fragments, k) /\ s[n + 1].htsize + d >= HtSize(fragments)
        BY <1>0, <1>h, <3>1, <3>5 DEF Longer
      <4>2. PICK m \in n + 1..(n + 1) + d : PassEnds(fragments, s, n + 1, k, m)
        BY <1>2, <2>1, <4>1
      <4>3. m \in n..n + (d + 1)
        OBVIOUS
      <4>4. PassEnds(fragments, s, n, k, m)
        BY <4>2 DEF PassEnds, Grown
      <4>5. QED
        BY <4>3, <4>4
    <3>6. QED
      BY <3>3, <3>4, <3>5
  <2>4. QED
    BY <2>2, <2>3
<1>3. \A d \in Nat : d \in T
  <2> HIDE DEF T
  <2>1. QED
    BY <1>1, <1>2, NatByInduction
<1>4. QED
  BY <1>3

\* The passes end.
LEMMA PassesEnd ==
  ASSUME NEW fragments \in Fragments, NEW r, NEW s \in UpdateRuns(r, fragments),
         NEW L \in Nat, L = Len(fragments)
  PROVE  \A g \in Nat : \A n, k \in Nat :
           Fits(s[n], fragments, k) /\ k + g >= L + 2
             => \E m \in Nat : m <= n + (g + 1) * (L + 1) /\ Ended(s[m], fragments)
<1> DEFINE Within(g, n) == \E m \in Nat : m <= n + (g + 1) * (L + 1) /\ Ended(s[m], fragments)
           T == {g \in Nat : \A n, k \in Nat :
                   Fits(s[n], fragments, k) /\ k + g >= L + 2 => Within(g, n)}
<1>1. ASSUME NEW n \in Nat, NEW k \in Nat, Fits(s[n], fragments, k)
      PROVE  \E m \in n..n + L : PassEnds(fragments, s, n, k, m)
  <2>1. HtSize(fragments) = L + 1 /\ s[n].htsize \in 1..L + 1
    BY <1>1, FragmentsLen DEF Fits
  <2>2. s[n].htsize + L >= HtSize(fragments)
    BY <2>1
  <2>3. QED
    BY <1>1, <2>2, PassIs
<1>2. 0 \in T
  <2> SUFFICES ASSUME NEW n \in Nat, NEW k \in Nat, Fits(s[n], fragments, k), k + 0 >= L + 2
               PROVE  Within(0, n)
    OBVIOUS
  <2>1. PICK m \in n..n + L : PassEnds(fragments, s, n, k, m)
    BY <1>1
  <2>2. Ended(s[m], fragments)
    BY <2>1 DEF PassEnds, Grown
  <2>3. m \in Nat /\ m <= n + (0 + 1) * (L + 1)
    BY <2>1
  <2>4. QED
    BY <2>2, <2>3
<1>3. ASSUME NEW g \in Nat, g \in T PROVE g + 1 \in T
  <2> SUFFICES ASSUME NEW n \in Nat, NEW k \in Nat, Fits(s[n], fragments, k), k + (g + 1) >= L + 2
               PROVE  Within(g + 1, n)
    OBVIOUS
  <2>1. PICK p \in Nat : p = (g + 1) * (L + 1) /\ ((g + 1) + 1) * (L + 1) = p + (L + 1)
    OBVIOUS
  <2>2. PICK m \in n..n + L : PassEnds(fragments, s, n, k, m)
    BY <1>1
  <2>3. m \in Nat
    BY <2>2
  <2>4. CASE Ended(s[m], fragments)
    <3>1. m <= n + (p + (L + 1))
      BY <2>2
    <3>2. QED
      BY <2>1, <2>3, <2>4, <3>1
  <2>5. CASE Grown(s[n], s[m], fragments, k)
    <3>1. Fits(s[m], fragments, k + 1) /\ k + 1 \in Nat /\ (k + 1) + g >= L + 2
      BY <2>5 DEF Grown
    <3>2. PICK x \in Nat : x <= m + p /\ Ended(s[x], fragments)
      BY <1>3, <2>1, <2>3, <3>1
    <3>3. x <= n + (p + (L + 1))
      BY <2>2, <3>2
    <3>4. QED
      BY <2>1, <3>2, <3>3
  <2>6. QED
    BY <2>2, <2>4, <2>5 DEF PassEnds
<1>4. \A g \in Nat : g \in T
  <2> HIDE DEF T
  <2>1. QED
    BY <1>2, <1>3, NatByInduction
<1>5. QED
  BY <1>4

\* What update() does: all the fragments are in a table large enough for them.
LEMMA UpdateIs ==
  ASSUME NEW fragments \in Fragments, NEW r \in FitRecords(fragments),
         NEW s, s = Update(r, fragments)
  PROVE  s \in FitRecords(fragments) /\ s.htsize = HtSize(fragments)
<1>1. PICK L \in Nat : L = Len(fragments) /\ HtSize(fragments) = L + 1
  BY FragmentsLen
<1>2. PICK N \in Nat : N = Turns(fragments) /\ N = ((L + 2) + 1) * (L + 1)
  <2>1. Turns(fragments) = (L + 3) * (L + 1)
    BY <1>1 DEF Turns
  <2>2. (L + 3) * (L + 1) = ((L + 2) + 1) * (L + 1) /\ (L + 3) * (L + 1) \in Nat
    OBVIOUS
  <2>3. QED
    BY <2>1, <2>2
<1>3. PICK x : x \in UpdateRuns(r, fragments)
  BY UpdateRunExists
<1>4. s = x[N]
  BY <1>2, <1>3, UpdateIsRun
<1>5. x[0] = r /\ x[N] \in FitRecords(fragments)
  BY <1>3 DEF UpdateRuns
<1>6. PICK k \in Nat : Fits(x[0], fragments, k)
  BY <1>5 DEF FitRecords
<1>7. PICK m \in Nat : m <= 0 + ((L + 2) + 1) * (L + 1) /\ Ended(x[m], fragments)
  <2>1. L + 2 \in Nat /\ k + (L + 2) >= L + 2
    OBVIOUS
  <2>2. QED
    BY <1>1, <1>3, <1>6, <2>1, PassesEnd
<1>8. m <= N
  BY <1>2, <1>7
<1>9. Ended(s, fragments)
  BY <1>3, <1>4, <1>7, <1>8, EndedStays
<1>10. s.htsize \in 1..HtSize(fragments)
  BY <1>4, <1>5 DEF FitRecords, Fits
<1>11. QED
  BY <1>1, <1>4, <1>5, <1>9, <1>10 DEF Ended

-----------------------------------------------------------------------------
(* find().                                                                 *)

IndexOK == index \in FitRecords(ht) /\ index.htsize = HtSize(ht)

LEMMA IndexIs ==
  ASSUME ht \in Fragments, IndexOK
  PROVE  \E k \in Nat : /\ IsTable(index.t, k) /\ k <= Len(ht) + Estimate
                        /\ Holds(index.t, ht, Len(ht) + 1) /\ Len(ht) + 1 <= Shift[k]
BY FragmentsLen DEF IndexOK, FitRecords, Fits

\* The first stop is where the search ends.
LEMMA FindAt ==
  ASSUME NEW k \in Nat, IsTable(index.t, k), NEW sha, NEW i \in DOMAIN index.t,
         Stops(index.t, sha, Probe(index.t, sha, i)),
         \A j \in 0..i - 1 : ~Stops(index.t, sha, Probe(index.t, sha, j))
  PROVE  Find(sha) = index.t[Probe(index.t, sha, i)]
<1>1. PICK t, stop : /\ t = index.t
                     /\ stop = {j \in 0..Size(t) - 1 : Stops(t, sha, Probe(t, sha, j))}
  OBVIOUS
<1>2. DOMAIN t = 0..Size(t) - 1 /\ Size(t) \in Nat
  BY <1>1, SizeIs
<1>3. i \in stop /\ stop \subseteq Nat
  BY <1>1, <1>2
<1>4. Min(stop) \in stop /\ \A j \in stop : Min(stop) <= j
  BY <1>3, MinIs
<1>5. ~(Min(stop) \in 0..i - 1)
  BY <1>1, <1>4
<1>6. Min(stop) = i
  BY <1>2, <1>3, <1>4, <1>5
<1>7. QED
  BY <1>1, <1>3, <1>6 DEF Find

LEMMA FindNothing ==
  ASSUME NEW sha, NEW t, t = index.t,
         \A j \in 0..Size(t) - 1 : Stops(t, sha, Probe(t, sha, j)) => t[Probe(t, sha, j)] = 0
  PROVE  Find(sha) = 0
<1>1. PICK stop : stop = {j \in 0..Size(t) - 1 : Stops(t, sha, Probe(t, sha, j))}
  OBVIOUS
<1>2. CASE stop = {}
  BY <1>1, <1>2 DEF Find
<1>3. CASE stop # {}
  <2>1. \E j \in 0..Size(t) - 1 : j \in stop
    BY <1>1, <1>3
  <2>2. stop \subseteq Nat
    BY <1>1
  <2>3. Min(stop) \in stop
    BY <1>3, <2>2, MinIs
  <2>4. t[Probe(t, sha, Min(stop))] = 0
    BY <1>1, <2>3
  <2>5. QED
    BY <1>1, <1>3, <2>4 DEF Find
<1>4. QED
  BY <1>2, <1>3

LEMMA FindIs ==
  ASSUME ht \in Fragments, IndexOK
  PROVE  FindsFirst
<1> SUFFICES ASSUME NEW sha \in Shas
             PROVE  Find(sha) = IF Known(sha) = {} THEN 0 ELSE Min(Known(sha))
  BY DEF FindsFirst
<1>1. PICK k \in Nat : /\ IsTable(index.t, k)
                       /\ Holds(index.t, ht, Len(ht) + 1)
  BY IndexIs
<1>2. PICK t, L : t = index.t /\ L = Len(ht)
  OBVIOUS
<1>3. L \in Nat /\ (L + 1) - 1 = L
  BY <1>2, FragmentsLen
<1>4. /\ \A slot \in DOMAIN t : t[slot] # 0 => t[slot] \in 1..L /\ ht[t[slot]].known
      /\ \A m \in 1..L : ht[m].known => Reached(t, ht[m].sha, m)
  BY <1>1, <1>2, <1>3 DEF Holds
<1>5. IsTable(t, k) /\ DOMAIN t = 0..Size(t) - 1 /\ Size(t) \in Nat
  BY <1>1, <1>2, SizeIs
<1>6. \A slot \in DOMAIN t : t[slot] # 0 /\ Stops(t, sha, slot) => t[slot] \in Known(sha)
  BY <1>2, <1>4 DEF Stops, Known
<1>7. CASE Known(sha) = {}
  <2>1. \A j \in 0..Size(t) - 1 : Stops(t, sha, Probe(t, sha, j)) => t[Probe(t, sha, j)] = 0
    BY <1>5, <1>6, <1>7, ProbeIs
  <2>2. QED
    BY <1>2, <1>7, <2>1, FindNothing
<1>8. CASE Known(sha) # {}
  <2>1. PICK m : m = Min(Known(sha))
    OBVIOUS
  <2>2. m \in Known(sha) /\ \A n \in Known(sha) : m <= n
    BY <1>8, <2>1, MinIs DEF Known
  <2>3. m \in 1..L /\ ht[m].known /\ ht[m].sha = sha
    BY <1>2, <2>2 DEF Known
  <2>4. PICK i \in DOMAIN t : /\ t[Probe(t, sha, i)] = m
                              /\ \A j \in 0..i - 1 : t[Probe(t, sha, j)] \in 1..m - 1
    BY <1>4, <2>3 DEF Reached
  <2>5. Stops(t, sha, Probe(t, sha, i))
    BY <2>3, <2>4 DEF Stops
  <2>6. ASSUME NEW j \in 0..i - 1, Stops(t, sha, Probe(t, sha, j)) PROVE FALSE
    <3>1. j \in DOMAIN t /\ t[Probe(t, sha, j)] \in 1..m - 1
      BY <1>5, <2>4
    <3>2. Probe(t, sha, j) \in DOMAIN t
      BY <1>5, <3>1, ProbeIs
    <3>3. t[Probe(t, sha, j)] \in Known(sha)
      BY <1>6, <2>6, <3>1, <3>2
    <3>4. PICK n : n = t[Probe(t, sha, j)]
      OBVIOUS
    <3>5. m <= n
      BY <2>2, <3>3, <3>4
    <3>6. n \in 1..m - 1 /\ m \in Nat
      BY <1>3, <2>3, <3>1, <3>4
    <3>7. QED
      BY <3>5, <3>6
  <2>7. Find(sha) = m
    BY <1>1, <1>2, <2>4, <2>5, <2>6, FindAt
  <2>8. QED
    BY <1>8, <2>1, <2>7
<1>9. QED
  BY <1>7, <1>8

-----------------------------------------------------------------------------
(* The invariant.                                                          *)

BlockSet == [start : Nat, data : Seq(Shas)]

\* The data of a block are those of the fragments from its first on.
Right(b, fragments) ==
  \A i \in 1..Len(b.data) : /\ b.start + i - 1 \in 1..Len(fragments)
                            /\ fragments[b.start + i - 1].sha = b.data[i]

HtOK ==
  /\ ht \in Fragments /\ Len(OldHt) <= Len(ht)
  /\ \A n \in 1..Len(OldHt) : ht[n].sha = OldHt[n].sha

BlocksOK ==
  /\ sb \in Seq(Shas) /\ frags = Len(sb) /\ Len(OldHt) + frags <= Len(ht)
  /\ blocks \in Seq(BlockSet)
  /\ Right(Block, ht) /\ \A x \in 1..Len(blocks) : Right(blocks[x], ht)
  /\ \A n \in Len(OldHt) + 1..Len(ht) - frags :
       \E x \in 1..Len(blocks) : n - blocks[x].start + 1 \in 1..Len(blocks[x].data)

FilesOK ==
  /\ ptr \in Seq(Nat) /\ read \in Seq(Shas) /\ Len(ptr) = Len(read)
  /\ \A k \in 1..Len(ptr) : ptr[k] \in 1..Len(ht) /\ ht[ptr[k]].sha = read[k]

Inv == HtOK /\ IndexOK /\ BlocksOK /\ FilesOK /\ ended \in BOOLEAN

LEMMA AppendIs ==
  ASSUME NEW S, NEW s \in Seq(S), NEW e \in S, NEW u, u = Append(s, e)
  PROVE  /\ u \in Seq(S) /\ Len(u) = Len(s) + 1 /\ Len(s) \in Nat
         /\ u[Len(s) + 1] = e /\ \A n \in 1..Len(s) : u[n] = s[n]
OBVIOUS

LEMMA ElementsIn ==
  ASSUME NEW S, NEW U, NEW s \in Seq(U), \A n \in 1..Len(s) : s[n] \in S
  PROVE  s \in Seq(S)
OBVIOUS

\* What Inv says of the index and the types.
LEMMA InvTypes == Inv => TypeOK
<1> SUFFICES ASSUME Inv PROVE TypeOK
  OBVIOUS
<1>1. ht \in Fragments
  BY DEF Inv, HtOK
<1>2. PICK L \in Nat : L = Len(ht) /\ HtSize(ht) = L + 1
  BY <1>1, FragmentsLen
<1>3. PICK k \in Nat : /\ IsTable(index.t, k) /\ k <= L + Estimate
                       /\ Holds(index.t, ht, L + 1) /\ L + 1 <= Shift[k]
  BY <1>1, <1>2, IndexIs DEF Inv
<1>4. PICK t : t = index.t
  OBVIOUS
<1>5. DOMAIN t = 0..Size(t) - 1 /\ Size(t) = Shift[k]
  BY <1>3, <1>4, SizeIs
<1>6. \E slot \in DOMAIN t : t[slot] = 0
  BY <1>3, <1>4, SlotIsFree
<1>7. t \in [0..Size(t) - 1 -> 0..L]
  <2>1. \A slot \in DOMAIN t : t[slot] \in 0..L
    BY <1>2, <1>3, <1>4 DEF Holds
  <2>2. t = [slot \in DOMAIN t |-> t[slot]]
    BY <1>3, <1>4 DEF IsTable
  <2>3. QED
    BY <1>5, <2>1, <2>2
<1>8. \E j \in 0..L + Estimate : Size(t) = Shift[j]
  <2>1. k \in 0..L + Estimate
    BY <1>3, DedupAssumption
  <2>2. QED
    BY <1>5, <2>1
<1>9. ptr \in Seq(1..L)
  BY <1>2, ElementsIn DEF Inv, FilesOK
<1>10. /\ sb \in Seq(Shas) /\ frags = Len(sb) /\ blocks \in Seq([start : Nat, data : Seq(Shas)])
       /\ read \in Seq(Shas) /\ ended \in BOOLEAN /\ index.htsize = HtSize(ht)
  BY DEF Inv, BlocksOK, BlockSet, FilesOK, IndexOK
<1>11. ht \in Seq([sha : Shas, known : BOOLEAN])
  BY <1>1 DEF Fragments
<1>12. QED
  BY <1>2, <1>4, <1>6, <1>7, <1>8, <1>9, <1>10, <1>11 DEF TypeOK

\* What Inv says of the blocks and the files: the data a reader finds.
LEMMA InvReadsBack == Inv => ReadsBack
<1> SUFFICES ASSUME Inv PROVE ReadsBack
  OBVIOUS
<1>1. PICK L, O \in Nat : L = Len(ht) /\ O = Len(OldHt)
  BY FragmentsLen, DedupAssumption DEF Inv, HtOK
<1>2. \A x \in 1..Len(blocks) : blocks[x].data \in Seq(Shas) /\ Right(blocks[x], ht)
  <2> SUFFICES ASSUME NEW x \in 1..Len(blocks)
               PROVE  blocks[x].data \in Seq(Shas) /\ Right(blocks[x], ht)
    OBVIOUS
  <2>1. blocks[x] \in BlockSet
    BY ElementIs DEF Inv, BlocksOK
  <2>2. QED
    BY <2>1 DEF Inv, BlocksOK, BlockSet
<1>3. Block.data = sb /\ Block.start = (L + 1) - frags /\ sb \in Seq(Shas) /\ Right(Block, ht)
  BY <1>1 DEF Block, BlockStart, HtSize, Inv, BlocksOK
<1>4. \A b \in ToSet(blocks) \cup {Block} : b.data \in Seq(Shas) /\ Right(b, ht)
  <2> SUFFICES ASSUME NEW b \in ToSet(blocks) \cup {Block}
               PROVE  b.data \in Seq(Shas) /\ Right(b, ht)
    OBVIOUS
  <2>1. CASE b = Block
    BY <1>3, <2>1
  <2>2. CASE b # Block
    <3>1. PICK x \in DOMAIN blocks : b = blocks[x]
      BY <2>2 DEF ToSet
    <3>2. DOMAIN blocks = 1..Len(blocks)
      BY DEF Inv, BlocksOK
    <3>3. QED
      BY <1>2, <3>1, <3>2
  <2>3. QED
    BY <2>1, <2>2
<1>5. ASSUME NEW n \in 1..L, NEW b \in Having(n) PROVE b.data[n - b.start + 1] = ht[n].sha
  <2>1. b \in ToSet(blocks) \cup {Block} /\ n - b.start + 1 \in DOMAIN b.data
    BY DEF Having
  <2>2. PICK d, i : d = b.start /\ i = n - d + 1
    OBVIOUS
  <2>3. i \in 1..Len(b.data) /\ Right(b, ht)
    BY <1>4, <2>1, <2>2
  <2>4. d \in Nat
    <3>1. CASE b = Block
      <4>1. frags \in Nat /\ O + frags <= L
        BY <1>1 DEF Inv, BlocksOK
      <4>2. QED
        BY <1>1, <1>3, <2>2, <3>1, <4>1
    <3>2. CASE b # Block
      <4>1. PICK x \in DOMAIN blocks : b = blocks[x]
        BY <2>1, <3>2 DEF ToSet
      <4>2. b \in BlockSet
        BY <4>1, ElementIs DEF Inv, BlocksOK
      <4>3. QED
        BY <2>2, <4>2 DEF BlockSet
    <3>3. QED
      BY <3>1, <3>2
  <2>5. d + i - 1 = n
    BY <2>2, <2>4
  <2>6. QED
    BY <2>2, <2>3, <2>5 DEF Right
<1>6. ASSUME NEW n \in 1..L, n > O PROVE Having(n) # {}
  <2>1. frags \in Nat /\ frags = Len(sb) /\ O + frags <= L
    BY <1>1 DEF Inv, BlocksOK
  <2>2. CASE n <= L - frags
    <3>1. n \in O + 1..L - frags
      BY <1>1, <1>6, <2>1, <2>2
    <3>2. PICK x \in 1..Len(blocks) : n - blocks[x].start + 1 \in 1..Len(blocks[x].data)
      BY <1>1, <3>1 DEF Inv, BlocksOK
    <3>3. blocks[x] \in ToSet(blocks)
      BY DEF ToSet, Inv, BlocksOK
    <3>4. n - blocks[x].start + 1 \in DOMAIN blocks[x].data
      BY <1>2, <3>2
    <3>5. QED
      BY <3>3, <3>4 DEF Having
  <2>3. CASE n > L - frags
    <3>1. n - Block.start + 1 \in 1..Len(sb)
      BY <1>1, <1>3, <2>1, <2>3
    <3>2. n - Block.start + 1 \in DOMAIN Block.data
      BY <1>3, <3>1
    <3>3. QED
      BY <3>2 DEF Having
  <2>4. QED
    BY <1>1, <2>1, <2>2, <2>3
<1>7. ASSUME NEW n \in 1..L PROVE InArchive(n) = {ht[n].sha}
  <2>1. CASE n <= O
    BY <1>1, <2>1 DEF InArchive, Inv, HtOK
  <2>2. CASE n > O
    <3>1. InArchive(n) = {b.data[n - b.start + 1] : b \in Having(n)}
      BY <1>1, <2>2 DEF InArchive
    <3>2. QED
      BY <1>5, <1>6, <2>2, <3>1
  <2>3. QED
    BY <1>1, <2>1, <2>2
<1>8. QED
  BY <1>1, <1>7 DEF ReadsBack, Inv, FilesOK

-----------------------------------------------------------------------------
(* The first index.                                                        *)

LEMMA MaxIs ==
  ASSUME NEW n \in Nat, NEW T, T \subseteq 0..n, T # {}
  PROVE  Max(T) \in T
<1> DEFINE U == {x \in 1..n + 1 : x - 1 \in T}
<1>1. U \subseteq 1..n + 1 /\ n + 1 \in Nat
  OBVIOUS
<1>2. \A y \in T : y + 1 \in 1..n + 1 /\ (y + 1) - 1 = y
  OBVIOUS
<1>3. U # {}
  BY <1>2
<1>4. PICK x \in U : \A y \in U : y <= x
  <2> HIDE DEF U
  <2>1. QED
    BY <1>1, <1>3, GreatestNat
<1>5. x - 1 \in T /\ x \in 1..n + 1
  BY <1>4
<1>6. \A y \in T : x - 1 >= y
  <2> SUFFICES ASSUME NEW y \in T PROVE x - 1 >= y
    OBVIOUS
  <2>1. y + 1 \in U
    BY <1>2
  <2>2. y + 1 <= x
    BY <1>4, <2>1
  <2>3. QED
    BY <1>5, <2>2
<1>7. QED
  BY <1>5, <1>6 DEF Max

LEMMA FirstIndexIs ==
  ASSUME NEW fragments \in Fragments
  PROVE  [t |-> Empty(FirstSize), htsize |-> 1] \in FitRecords(fragments)
<1>1. PICK E \in Nat \ {0} : E = Estimate
  BY DedupAssumption
<1>2. PICK T : T = {k \in 0..3 * E : Shift[k] <= 3 * E}
  OBVIOUS
<1>3. 0 \in T
  BY <1>2, ShiftIs
<1>4. PICK k : k = Max(T)
  OBVIOUS
<1>5. k \in T
  <2>1. T \subseteq 0..3 * E /\ T # {} /\ 3 * E \in Nat
    BY <1>2, <1>3
  <2>2. QED
    BY <1>4, <2>1, MaxIs
<1>6. k \in Nat /\ Shift[k] <= 3 * E /\ Shift[k] \in Nat
  BY <1>2, <1>5, ShiftIs
<1>7. k <= E
  <2>1. CASE k = 0
    BY <2>1
  <2>2. CASE k # 0
    <3>1. Shift[k] > 3 * (k - 1)
      BY <1>6, <2>2, ShiftGrows
    <3>2. QED
      BY <1>6, <3>1
  <2>3. QED
    BY <2>1, <2>2
<1>8. FirstSize = Shift[k]
  BY <1>1, <1>2, <1>4 DEF FirstSize
<1>9. PICK t : t = Empty(Shift[k])
  OBVIOUS
<1>10. IsTable(t, k) /\ Holds(t, fragments, 1)
  BY <1>6, <1>9, EmptyIs
<1>11. PICK r : r = [t |-> t, htsize |-> 1]
  OBVIOUS
<1>12. Shift[k] > k
  BY <1>6, ShiftGrows
<1>13. Len(fragments) \in Nat /\ HtSize(fragments) = Len(fragments) + 1
  BY FragmentsLen
<1>14. k <= Len(fragments) + Estimate /\ 1 \in 1..HtSize(fragments) /\ 1 <= Shift[k]
  BY <1>1, <1>6, <1>7, <1>12, <1>13
<1>15. Fits(r, fragments, k)
  BY <1>10, <1>11, <1>14 DEF Fits
<1>16. r \in Records
  BY <1>6, <1>10, <1>11 DEF Records, Tables, IsTable
<1>17. QED
  BY <1>6, <1>8, <1>9, <1>11, <1>15, <1>16 DEF FitRecords

LEMMA InitInv == Init => Inv
<1> SUFFICES ASSUME Init PROVE Inv
  OBVIOUS
<1>1. OldHt \in Fragments
  BY DedupAssumption DEF Fragments
<1>2. PICK L \in Nat : L = Len(OldHt) /\ ht = OldHt
  BY <1>1, FragmentsLen DEF Init
<1>3. IndexOK
  <2>1. [t |-> Empty(FirstSize), htsize |-> 1] \in FitRecords(OldHt)
    BY <1>1, FirstIndexIs
  <2>2. index \in FitRecords(OldHt) /\ index.htsize = HtSize(OldHt)
    BY <1>1, <2>1, UpdateIs DEF Init
  <2>3. QED
    BY <1>2, <2>2 DEF IndexOK
<1>4. HtOK
  BY <1>1, <1>2 DEF HtOK
<1>5. sb = <<>> /\ frags = 0 /\ blocks = <<>> /\ ptr = <<>> /\ read = <<>> /\ ended = FALSE
  BY DEF Init
<1>6. BlocksOK
  <2>1. sb \in Seq(Shas) /\ frags = Len(sb) /\ blocks \in Seq(BlockSet) /\ L + frags <= Len(ht)
    BY <1>2, <1>5
  <2>2. Right(Block, ht)
    BY <1>5 DEF Right, Block
  <2>3. \A x \in 1..Len(blocks) : FALSE
    BY <1>5
  <2>4. \A n \in L + 1..Len(ht) - frags : FALSE
    BY <1>2, <1>5
  <2>5. QED
    BY <1>2, <2>1, <2>2, <2>3, <2>4 DEF BlocksOK
<1>7. FilesOK
  BY <1>5 DEF FilesOK
<1>8. QED
  BY <1>3, <1>4, <1>5, <1>6, <1>7 DEF Inv

-----------------------------------------------------------------------------
(* The steps.                                                              *)

\* One more fragment in ht: what was there stays.
LEMMA RightStays ==
  ASSUME NEW f \in Fragments, NEW e \in [sha : Shas, known : BOOLEAN], NEW g, g = Append(f, e),
         NEW b, Right(b, f)
  PROVE  Right(b, g)
<1>1. /\ Len(g) = Len(f) + 1 /\ Len(f) \in Nat
      /\ \A n \in 1..Len(f) : g[n] = f[n]
  BY AppendIs DEF Fragments
<1>2. \A n \in 1..Len(f) : n \in 1..Len(g)
  BY <1>1
<1>3. QED
  BY <1>1, <1>2 DEF Right

LEMMA FitsStays ==
  ASSUME NEW f \in Fragments, NEW e \in [sha : Shas, known : BOOLEAN], NEW g, g = Append(f, e),
         NEW r \in FitRecords(f), r.htsize = HtSize(f)
  PROVE  g \in Fragments /\ r \in FitRecords(g)
<1>1. /\ g \in Fragments /\ Len(g) = Len(f) + 1 /\ Len(f) \in Nat
      /\ \A n \in 1..Len(f) : g[n] = f[n]
  BY AppendIs DEF Fragments
<1>2. PICK L, h : L = Len(f) /\ h = L + 1 /\ HtSize(f) = h /\ HtSize(g) = h + 1
  BY <1>1 DEF HtSize
<1>3. PICK k \in Nat : Fits(r, f, k)
  BY DEF FitRecords
<1>4. /\ IsTable(r.t, k) /\ k <= L + Estimate /\ r.htsize = h /\ h <= Shift[k]
      /\ Holds(r.t, f, h)
  BY <1>2, <1>3 DEF Fits
<1>5. L \in Nat /\ h - 1 = L
  BY <1>1, <1>2
<1>6. Holds(r.t, g, h)
  BY <1>1, <1>2, <1>4, <1>5 DEF Holds
<1>7. k <= Len(g) + Estimate /\ h \in 1..HtSize(g)
  BY <1>1, <1>2, <1>4, <1>5, DedupAssumption
<1>8. Fits(r, g, k)
  BY <1>4, <1>6, <1>7 DEF Fits
<1>9. QED
  BY <1>1, <1>3, <1>8 DEF FitRecords

\* A fragment that is stored is in the block being filled.
LEMMA StoreBlocks ==
  ASSUME Inv, NEW sha \in Shas, NEW newblock \in BOOLEAN, Store(sha, newblock)
  PROVE  BlocksOK'
<1>1. PICK e : e = [sha |-> sha, known |-> TRUE]
  OBVIOUS
<1>2. PICK L, O, n \in Nat : L = Len(ht) /\ O = Len(OldHt) /\ n = frags
  BY FragmentsLen, DedupAssumption DEF Inv, HtOK, BlocksOK
<1>3. /\ ht \in Fragments /\ e \in [sha : Shas, known : BOOLEAN] /\ ht' = Append(ht, e)
  BY <1>1 DEF Inv, HtOK, Store
<1>4. /\ Len(ht') = L + 1 /\ ht'[L + 1] = e
      /\ \A m \in 1..L : ht'[m] = ht[m]
  BY <1>2, <1>3, AppendIs DEF Fragments
<1>5. \A b : Right(b, ht) => Right(b, ht')
  BY <1>3, RightStays
<1>6. /\ sb \in Seq(Shas) /\ Len(sb) = n /\ O + n <= L /\ blocks \in Seq(BlockSet)
      /\ Right(Block, ht) /\ \A x \in 1..Len(blocks) : Right(blocks[x], ht)
      /\ \A m \in O + 1..L - n :
           \E x \in 1..Len(blocks) : m - blocks[x].start + 1 \in 1..Len(blocks[x].data)
  BY <1>2 DEF Inv, BlocksOK
<1>7. Block = [start |-> L + 1 - n, data |-> sb] /\ Block.start = L + 1 - n /\ Block.data = sb
  BY <1>2 DEF Block, BlockStart, HtSize
<1>8. Block \in BlockSet
  BY <1>2, <1>6, <1>7 DEF BlockSet
<1>9. CASE newblock
  <2>1. blocks' = Append(blocks, Block) /\ sb' = <<sha>> /\ frags' = 1
    BY <1>9 DEF Store
  <2>2. PICK B \in Nat : B = Len(blocks)
    BY <1>6
  <2>3. /\ blocks' \in Seq(BlockSet) /\ Len(blocks') = B + 1 /\ blocks'[B + 1] = Block
        /\ \A x \in 1..B : blocks'[x] = blocks[x]
    BY <1>6, <1>8, <2>1, <2>2, AppendIs
  <2>4. sb' \in Seq(Shas) /\ frags' = Len(sb') /\ O + frags' <= Len(ht')
    BY <1>2, <1>4, <1>6, <2>1
  <2>5. Right(Block', ht')
    <3>1. (Block').start = L + 1 /\ (Block').data = <<sha>>
      BY <1>2, <1>4, <2>1 DEF Block, BlockStart, HtSize
    <3>2. \A i \in 1..Len(<<sha>>) : i = 1
      OBVIOUS
    <3>3. L + 1 + 1 - 1 = L + 1 /\ L + 1 \in 1..L + 1 /\ ht'[L + 1].sha = sha
      BY <1>1, <1>4
    <3>4. QED
      BY <1>4, <3>1, <3>2, <3>3 DEF Right
  <2>6. \A x \in 1..Len(blocks') : Right(blocks'[x], ht')
    <3> SUFFICES ASSUME NEW x \in 1..B + 1 PROVE Right(blocks'[x], ht')
      BY <2>3
    <3>1. CASE x = B + 1
      BY <1>5, <1>6, <2>3, <3>1
    <3>2. CASE x # B + 1
      <4>1. x \in 1..B
        BY <3>2
      <4>2. QED
        BY <1>5, <1>6, <2>2, <2>3, <4>1
    <3>3. QED
      BY <3>1, <3>2
  <2>7. ASSUME NEW m \in O + 1..(L + 1) - 1
        PROVE  \E x \in 1..B + 1 : m - blocks'[x].start + 1 \in 1..Len(blocks'[x].data)
    <3>1. CASE m <= L - n
      <4>1. m \in O + 1..L - n
        BY <1>2, <3>1
      <4>2. PICK x \in 1..B : m - blocks[x].start + 1 \in 1..Len(blocks[x].data)
        BY <1>6, <2>2, <4>1
      <4>3. x \in 1..B + 1 /\ blocks'[x] = blocks[x]
        BY <2>3
      <4>4. QED
        BY <4>2, <4>3
    <3>2. CASE ~(m <= L - n)
      <4>1. m - (L + 1 - n) + 1 \in 1..n
        BY <1>2, <3>2
      <4>2. m - blocks'[B + 1].start + 1 \in 1..Len(blocks'[B + 1].data)
        BY <1>6, <1>7, <2>3, <4>1
      <4>3. B + 1 \in 1..B + 1
        OBVIOUS
      <4>4. QED
        BY <4>2, <4>3
    <3>3. QED
      BY <3>1, <3>2
  <2>8. QED
    BY <1>2, <1>4, <2>1, <2>3, <2>4, <2>5, <2>6, <2>7 DEF BlocksOK
<1>10. CASE ~newblock
  <2>1. blocks' = blocks /\ sb' = Append(sb, sha) /\ frags' = n + 1
    BY <1>2, <1>10 DEF Store
  <2>2. /\ sb' \in Seq(Shas) /\ Len(sb') = n + 1 /\ sb'[n + 1] = sha
        /\ \A i \in 1..n : sb'[i] = sb[i]
    BY <1>6, <2>1, AppendIs
  <2>3. (Block').start = L + 1 - n /\ (Block').data = sb'
    <3>1. HtSize(ht') - frags' = L + 1 - n
      BY <1>2, <1>4, <2>1 DEF HtSize
    <3>2. QED
      BY <3>1 DEF Block, BlockStart
  <2>4. Right(Block', ht')
    <3> SUFFICES ASSUME NEW i \in 1..n + 1
                 PROVE  /\ (L + 1 - n) + i - 1 \in 1..L + 1
                        /\ ht'[(L + 1 - n) + i - 1].sha = sb'[i]
      BY <1>4, <2>2, <2>3 DEF Right
    <3>1. CASE i = n + 1
      <4>1. (L + 1 - n) + i - 1 = L + 1
        BY <3>1
      <4>2. QED
        BY <1>1, <1>4, <2>2, <3>1, <4>1
    <3>2. CASE i # n + 1
      <4>1. i \in 1..n
        BY <3>2
      <4>2. (L + 1 - n) + i - 1 \in 1..L /\ ht[(L + 1 - n) + i - 1].sha = sb[i]
        BY <1>2, <1>6, <1>7, <4>1 DEF Right
      <4>3. QED
        BY <1>4, <2>2, <4>1, <4>2
    <3>3. QED
      BY <3>1, <3>2
  <2>5. \A x \in 1..Len(blocks') : Right(blocks'[x], ht')
    BY <1>5, <1>6, <2>1
  <2>6. Len(ht') - frags' = L - n /\ O + frags' <= Len(ht')
    BY <1>2, <1>4, <1>6, <2>1
  <2>7. QED
    BY <1>2, <1>6, <2>1, <2>2, <2>4, <2>5, <2>6 DEF BlocksOK
<1>11. QED
  BY <1>9, <1>10

\* The file points to a fragment with the data read from it.
LEMMA PointedIs ==
  ASSUME Inv, NEW sha \in Shas, NEW n \in Nat,
         Len(ht) <= Len(ht'), \A m \in 1..Len(ht) : ht'[m] = ht[m],
         n \in 1..Len(ht') /\ ht'[n].sha = sha, Len(ht') \in Nat,
         ptr' = Append(ptr, n) /\ read' = Append(read, sha)
  PROVE  FilesOK'
<1>1. PICK L, M \in Nat : L = Len(ht) /\ M = Len(ptr)
  BY FragmentsLen DEF Inv, HtOK, FilesOK
<1>2. /\ ptr \in Seq(Nat) /\ read \in Seq(Shas) /\ Len(read) = M
      /\ \A k \in 1..M : ptr[k] \in 1..L /\ ht[ptr[k]].sha = read[k]
  BY <1>1 DEF Inv, FilesOK
<1>3. /\ ptr' \in Seq(Nat) /\ Len(ptr') = M + 1 /\ ptr'[M + 1] = n
      /\ \A k \in 1..M : ptr'[k] = ptr[k]
  BY <1>1, <1>2, AppendIs
<1>4. /\ read' \in Seq(Shas) /\ Len(read') = M + 1 /\ read'[M + 1] = sha
      /\ \A k \in 1..M : read'[k] = read[k]
  BY <1>2, AppendIs
<1>5. ASSUME NEW k \in 1..M + 1
      PROVE  ptr'[k] \in 1..Len(ht') /\ ht'[ptr'[k]].sha = read'[k]
  <2>1. CASE k = M + 1
    BY <1>3, <1>4, <2>1
  <2>2. CASE k # M + 1
    <3>1. k \in 1..M
      BY <2>2
    <3>2. PICK p : p = ptr[k]
      OBVIOUS
    <3>3. p \in 1..L /\ ht[p].sha = read[k]
      BY <1>2, <3>1, <3>2
    <3>4. p \in 1..Len(ht') /\ ht'[p] = ht[p]
      BY <1>1, <3>3
    <3>5. QED
      BY <1>3, <1>4, <3>1, <3>2, <3>3, <3>4
  <2>3. QED
    BY <2>1, <2>2
<1>6. QED
  BY <1>3, <1>4, <1>5 DEF FilesOK

LEMMA StoreInv ==
  ASSUME Inv, NEW sha \in Shas, NEW newblock \in BOOLEAN, Store(sha, newblock),
         read' = Append(read, sha), UNCHANGED ended
  PROVE  Inv'
<1>1. PICK e : e = [sha |-> sha, known |-> TRUE]
  OBVIOUS
<1>2. PICK L, O \in Nat : L = Len(ht) /\ O = Len(OldHt)
  BY FragmentsLen, DedupAssumption DEF Inv, HtOK
<1>3. /\ ht \in Fragments /\ e \in [sha : Shas, known : BOOLEAN] /\ ht' = Append(ht, e)
      /\ HtSize(ht) = L + 1
  BY <1>1, <1>2 DEF Inv, HtOK, Store, HtSize
<1>4. /\ ht' \in Fragments /\ Len(ht') = L + 1 /\ ht'[L + 1] = e
      /\ \A m \in 1..L : ht'[m] = ht[m]
  BY <1>2, <1>3, AppendIs DEF Fragments
<1>5. HtOK'
  <2>1. O <= L /\ \A n \in 1..O : ht[n].sha = OldHt[n].sha
    BY <1>2 DEF Inv, HtOK
  <2>2. \A n \in 1..O : n \in 1..L
    BY <2>1
  <2>3. O <= Len(ht') /\ \A n \in 1..O : ht'[n].sha = OldHt[n].sha
    BY <1>4, <2>1, <2>2
  <2>4. QED
    BY <1>2, <1>4, <2>3 DEF HtOK
<1>6. IndexOK'
  <2>1. index \in FitRecords(ht) /\ index.htsize = HtSize(ht)
    BY DEF Inv, IndexOK
  <2>2. index \in FitRecords(ht')
    BY <1>3, <2>1, FitsStays
  <2>3. index' = Update(index, ht')
    BY DEF Store
  <2>4. index' \in FitRecords(ht') /\ index'.htsize = HtSize(ht')
    BY <1>4, <2>2, <2>3, UpdateIs
  <2>5. QED
    BY <2>4 DEF IndexOK
<1>7. FilesOK'
  <2>1. ptr' = Append(ptr, L + 1)
    BY <1>3 DEF Store
  <2>2. Len(ht) <= Len(ht') /\ \A m \in 1..Len(ht) : ht'[m] = ht[m]
    BY <1>2, <1>4
  <2>3. L + 1 \in Nat /\ L + 1 \in 1..Len(ht') /\ ht'[L + 1].sha = sha /\ Len(ht') \in Nat
    BY <1>1, <1>4
  <2>4. QED
    BY <2>1, <2>2, <2>3, PointedIs
<1>8. BlocksOK'
  BY StoreBlocks
<1>9. QED
  BY <1>5, <1>6, <1>7, <1>8 DEF Inv

LEMMA FragmentInv ==
  ASSUME Inv, NEW sha \in Shas, NEW sa_force \in BOOLEAN, NEW newblock \in BOOLEAN,
         Fragment(sha, sa_force, newblock)
  PROVE  Inv'
<1>1. PICK htptr : htptr = IF sa_force THEN 0 ELSE Find(sha)
  OBVIOUS
<1>2. /\ read' = Append(read, sha) /\ UNCHANGED ended
      /\ htptr = 0 => Store(sha, newblock)
      /\ htptr # 0 => ptr' = Append(ptr, htptr) /\ UNCHANGED <<ht, index, sb, frags, blocks>>
  BY <1>1 DEF Fragment
<1>3. CASE htptr = 0
  BY <1>2, <1>3, StoreInv
<1>4. CASE htptr # 0
  <2>1. ht \in Fragments /\ Find(sha) = htptr
    BY <1>1, <1>4 DEF Inv, HtOK
  <2>2. Len(ht) \in Nat
    BY <2>1, FragmentsLen
  <2>3. FindsFirst
    BY <2>1, FindIs DEF Inv
  <2>4. Known(sha) # {} /\ htptr = Min(Known(sha))
    BY <1>4, <2>1, <2>3 DEF FindsFirst
  <2>5. htptr \in Known(sha)
    <3>1. Known(sha) \subseteq Nat
      BY DEF Known
    <3>2. QED
      BY <2>4, <3>1, MinIs
  <2>6. htptr \in Nat /\ htptr \in 1..Len(ht) /\ ht[htptr].sha = sha
    BY <2>2, <2>5 DEF Known
  <2>7. ht' = ht /\ index' = index /\ sb' = sb /\ frags' = frags /\ blocks' = blocks
    BY <1>2, <1>4
  <2>8. FilesOK'
    BY <1>2, <1>4, <2>2, <2>6, <2>7, PointedIs
  <2>9. Block' = Block
    BY <2>7 DEF Block, BlockStart
  <2>10. HtOK' /\ IndexOK' /\ BlocksOK'
    BY <2>7, <2>9 DEF Inv, HtOK, IndexOK, BlocksOK
  <2>11. QED
    BY <1>2, <2>8, <2>10 DEF Inv
<1>5. QED
  BY <1>3, <1>4

LEMMA EndOfFilesInv ==
  ASSUME Inv, EndOfFiles
  PROVE  Inv'
<1>1. /\ ended' = TRUE /\ ht' = ht /\ index' = index /\ ptr' = ptr /\ read' = read
      /\ IF frags > 0 THEN blocks' = Append(blocks, Block) /\ sb' = <<>> /\ frags' = 0
                      ELSE UNCHANGED <<blocks, sb, frags>>
  BY DEF EndOfFiles
<1>2. HtOK' /\ IndexOK' /\ FilesOK'
  BY <1>1 DEF Inv, HtOK, IndexOK, FilesOK
<1>3. PICK L, O, n \in Nat : L = Len(ht) /\ O = Len(OldHt) /\ n = frags
  BY FragmentsLen, DedupAssumption DEF Inv, HtOK, BlocksOK
<1>4. /\ sb \in Seq(Shas) /\ Len(sb) = n /\ O + n <= L /\ blocks \in Seq(BlockSet)
      /\ Right(Block, ht) /\ \A x \in 1..Len(blocks) : Right(blocks[x], ht)
      /\ \A m \in O + 1..L - n :
           \E x \in 1..Len(blocks) : m - blocks[x].start + 1 \in 1..Len(blocks[x].data)
  BY <1>3 DEF Inv, BlocksOK
<1>5. BlocksOK'
  <2>1. CASE frags > 0
    <3>1. blocks' = Append(blocks, Block) /\ sb' = <<>> /\ frags' = 0
      BY <1>1, <2>1
    <3>2. Block = [start |-> L + 1 - n, data |-> sb]
      BY <1>3 DEF Block, BlockStart, HtSize
    <3>3. Block \in BlockSet
      BY <1>3, <1>4, <3>2 DEF BlockSet
    <3>4. PICK B \in Nat : B = Len(blocks)
      BY <1>4
    <3>5. /\ blocks' \in Seq(BlockSet) /\ Len(blocks') = B + 1 /\ blocks'[B + 1] = Block
          /\ \A x \in 1..B : blocks'[x] = blocks[x]
      BY <1>4, <3>1, <3>3, <3>4, AppendIs
    <3>6. Right(Block', ht')
      <4>1. (Block').data = <<>> /\ Len(<<>>) = 0
        BY <3>1 DEF Block
      <4>2. QED
        BY <4>1 DEF Right
    <3>7. \A x \in 1..B + 1 : Right(blocks'[x], ht')
      <4> SUFFICES ASSUME NEW x \in 1..B + 1 PROVE Right(blocks'[x], ht')
        OBVIOUS
      <4>1. CASE x = B + 1
        BY <1>1, <1>4, <3>5, <4>1
      <4>2. CASE x # B + 1
        <5>1. x \in 1..B
          BY <4>2
        <5>2. QED
          BY <1>1, <1>4, <3>4, <3>5, <5>1
      <4>3. QED
        BY <4>1, <4>2
    <3>8. ASSUME NEW m \in O + 1..L
          PROVE  \E x \in 1..B + 1 : m - blocks'[x].start + 1 \in 1..Len(blocks'[x].data)
      <4>1. CASE m <= L - n
        <5>1. m \in O + 1..L - n
          BY <1>3, <4>1
        <5>2. PICK x \in 1..B : m - blocks[x].start + 1 \in 1..Len(blocks[x].data)
          BY <1>4, <3>4, <5>1
        <5>3. x \in 1..B + 1 /\ blocks'[x] = blocks[x]
          BY <3>5
        <5>4. QED
          BY <5>2, <5>3
      <4>2. CASE ~(m <= L - n)
        <5>1. m - (L + 1 - n) + 1 \in 1..n
          BY <1>3, <4>2
        <5>2. m - blocks'[B + 1].start + 1 \in 1..Len(blocks'[B + 1].data)
          BY <1>4, <3>2, <3>5, <5>1
        <5>3. B + 1 \in 1..B + 1
          OBVIOUS
        <5>4. QED
          BY <5>2, <5>3
      <4>3. QED
        BY <4>1, <4>2
    <3>9. sb' \in Seq(Shas) /\ frags' = Len(sb') /\ O + frags' <= Len(ht') /\ Len(ht') - frags' = L
      BY <1>1, <1>3, <1>4, <3>1
    <3>10. QED
      BY <1>3, <3>5, <3>6, <3>7, <3>8, <3>9 DEF BlocksOK
  <2>2. CASE ~(frags > 0)
    <3>1. blocks' = blocks /\ sb' = sb /\ frags' = frags
      BY <1>1, <2>2
    <3>2. Block' = Block
      BY <1>1, <3>1 DEF Block, BlockStart
    <3>3. QED
      BY <1>1, <3>1, <3>2 DEF Inv, BlocksOK
  <2>3. QED
    BY <2>1, <2>2
<1>6. QED
  BY <1>1, <1>2, <1>5 DEF Inv

LEMMA StutterInv ==
  ASSUME Inv, UNCHANGED vars
  PROVE  Inv'
<1>1. /\ ht' = ht /\ index' = index /\ sb' = sb /\ frags' = frags /\ blocks' = blocks
      /\ ptr' = ptr /\ read' = read /\ ended' = ended
  BY DEF vars
<1>2. Block' = Block
  BY <1>1 DEF Block, BlockStart
<1>3. QED
  BY <1>1, <1>2 DEF Inv, HtOK, IndexOK, BlocksOK, FilesOK

LEMMA InvHolds == Spec => []Inv
<1>1. Init => Inv
  BY InitInv
<1>2. Inv /\ [Next]_vars => Inv'
  <2> SUFFICES ASSUME Inv, [Next]_vars PROVE Inv'
    OBVIOUS
  <2>1. ASSUME NEW sha \in Shas, NEW sa_force \in BOOLEAN, NEW newblock \in BOOLEAN,
               Fragment(sha, sa_force, newblock)
        PROVE  Inv'
    BY <2>1, FragmentInv
  <2>2. CASE EndOfFiles
    BY <2>2, EndOfFilesInv
  <2>3. CASE UNCHANGED vars
    BY <2>3, StutterInv
  <2>4. QED
    BY <2>1, <2>2, <2>3 DEF Next
<1>3. QED
  BY <1>1, <1>2, PTL DEF Spec

\* The index always has room: it is a power of two with a free slot, not larger than
\* the fragments ask for, and update() leaves none of them out.
THEOREM DedupTypes == Spec => []TypeOK
BY InvHolds, InvTypes, PTL

\* Whatever the hashes of the fragments, in whatever order they come and however the
\* table has grown, find() gives the first fragment with a hash, and 0 only for none.
THEOREM FindTheorem == Spec => []FindsFirst
<1>1. Inv => FindsFirst
  BY FindIs DEF Inv, HtOK
<1>2. QED
  BY <1>1, InvHolds, PTL

\* What add stored of the files is what it read from them: every fragment they point to
\* is in a block, at the place its number says, with the data that were read, and no
\* block has other data there.
THEOREM ReadBackTheorem == Spec => []ReadsBack
BY InvHolds, InvReadsBack, PTL
=============================================================================
