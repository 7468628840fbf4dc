---------------------------- MODULE AnalysisProofs ----------------------------
(***************************************************************************)
(* What an analysis says is right for every workload: lemmas on orders and *)
(* sums, on the facts of one QueryInfo, and the invariance of its          *)
(* properties while reports arrive and analyses are repeated.              *)
(***************************************************************************)
EXTENDS Analysis, FiniteSetTheorems, SequenceTheorems, TLAPS

(***************************************************************************)
(* Least elements, in place of inductions.                                 *)
(***************************************************************************)
LEMMA LeastOf ==
    ASSUME NEW S \in SUBSET Nat, S # {}
    PROVE  \E x \in S : \A y \in S : x <= y
<1>1. PICK x \in S : \A y \in S : ~(<<y, x>> \in OpToRel(<, Nat))
    BY NatLessThanWellFounded, WFMin
<1>2. \A y \in S : ~(y < x)
    BY <1>1 DEF OpToRel
<1> QED
    BY <1>2

LEMMA MinOf ==
    ASSUME NEW S \in SUBSET Nat, S # {}
    PROVE  Min(S) \in S /\ \A y \in S : Min(S) <= y
BY LeastOf DEF Min

\* A finite set of numbers has a greatest.
LEMMA MaxOfFinite ==
    ASSUME NEW S \in SUBSET Nat, S # {}, IsFiniteSet(S)
    PROVE  Max(S) \in S /\ \A y \in S : y <= Max(S)
<1> SUFFICES \E x \in S : \A y \in S : x >= y
    BY DEF Max
<1>1. PICK above : above = [x \in S |-> {y \in S : y > x}]
    OBVIOUS
<1>2. \A x \in S : /\ above[x] \in SUBSET S /\ IsFiniteSet(above[x])
                   /\ Cardinality(above[x]) \in Nat
    BY <1>1, FS_Subset, FS_CardinalityType
<1>3. PICK sizes : sizes = {Cardinality(above[x]) : x \in S}
    OBVIOUS
<1>4. sizes \in SUBSET Nat /\ sizes # {}
    BY <1>2, <1>3
<1>5. PICK n \in sizes : \A m \in sizes : n <= m
    BY <1>4, LeastOf
<1>6. PICK x \in S : n = Cardinality(above[x])
    BY <1>3, <1>5
<1>7. ASSUME NEW y \in S, ~(x >= y)
      PROVE  FALSE
    <2>1. x \in Nat /\ y \in Nat /\ y > x
        BY <1>6, <1>7
    <2>2. above[y] \in SUBSET above[x]
        <3>1. \A z \in S : z \in Nat /\ (z > y => z > x)
            BY <2>1
        <3> QED
            BY <1>1, <3>1
    <2>3. y \in above[x] /\ y \notin above[y]
        BY <1>1, <2>1
    <2>4. Cardinality(above[y]) <= Cardinality(above[x]) /\ Cardinality(above[y]) # Cardinality(above[x])
        BY <1>2, <2>2, <2>3, FS_Subset
    <2>5. Cardinality(above[y]) \in sizes
        BY <1>3
    <2>6. n <= Cardinality(above[y])
        BY <1>5, <2>5
    <2> QED
        BY <1>2, <1>6, <2>4, <2>6
<1> QED
    BY <1>7

(***************************************************************************)
(* Orders.  before[x] are the elements of S that come before x.            *)
(***************************************************************************)
Orders(before, S) ==
    /\ before \in [S -> SUBSET S]
    /\ \A x \in S : x \notin before[x]
    /\ \A x \in S : \A y \in before[x] : before[y] \subseteq before[x]
    /\ \A x, y \in S : x # y => x \in before[y] \/ y \in before[x]

\* In an ordered set, an element comes before another iff fewer do.
LEMMA RanksAgree ==
    ASSUME NEW S, IsFiniteSet(S), NEW before, Orders(before, S)
    PROVE  \A x \in S : /\ Cardinality(before[x]) \in 0 .. Cardinality(S) - 1
                        /\ \A y \in S : x \in before[y] <=> Cardinality(before[x]) < Cardinality(before[y])
<1>1. \A x \in S : /\ before[x] \in SUBSET S /\ IsFiniteSet(before[x])
                   /\ Cardinality(before[x]) \in Nat /\ Cardinality(S) \in Nat
    BY FS_Subset, FS_CardinalityType DEF Orders
<1>2. ASSUME NEW x \in S
      PROVE  Cardinality(before[x]) <= Cardinality(S) /\ Cardinality(before[x]) # Cardinality(S)
    <2>1. before[x] # S /\ before[x] \in SUBSET S
        BY <1>1 DEF Orders
    <2> QED
        BY <2>1, FS_Subset
<1>3. ASSUME NEW x \in S, NEW y \in S, x \in before[y]
      PROVE  Cardinality(before[x]) < Cardinality(before[y])
    <2>1. before[x] \in SUBSET before[y] /\ before[x] # before[y]
        BY <1>3 DEF Orders
    <2>2. /\ Cardinality(before[x]) <= Cardinality(before[y])
          /\ Cardinality(before[x]) # Cardinality(before[y])
        BY <1>1, <2>1, FS_Subset
    <2> QED
        BY <1>1, <2>2
<1>4. ASSUME NEW x \in S, NEW y \in S, Cardinality(before[x]) < Cardinality(before[y])
      PROVE  x \in before[y]
    <2>1. x # y /\ ~(y \in before[x])
        BY <1>1, <1>3, <1>4
    <2> QED
        BY <2>1 DEF Orders
<1> QED
    BY <1>1, <1>2, <1>3, <1>4

\* Every rank is taken.
LEMMA RanksTaken ==
    ASSUME NEW S, IsFiniteSet(S), NEW before, Orders(before, S), NEW r \in 1 .. Cardinality(S)
    PROVE  \E x \in S : Cardinality(before[x]) = r - 1
<1>1. PICK n \in Nat : n = Cardinality(S)
    BY FS_CardinalityType
<1>2. PICK g : g = [x \in S |-> Cardinality(before[x]) + 1]
    OBVIOUS
<1>3. \A x \in S : g[x] \in 1 .. n
    BY <1>1, <1>2, RanksAgree
<1>4. \A x, y \in S : g[x] = g[y] => x = y
    <2> SUFFICES ASSUME NEW x \in S, NEW y \in S, g[x] = g[y]
                 PROVE  x = y
        OBVIOUS
    <2>1. Cardinality(before[x]) \in Nat /\ Cardinality(before[y]) \in Nat
        BY <1>1, RanksAgree
    <2>2. Cardinality(before[x]) = Cardinality(before[y])
        BY <1>2, <2>1
    <2>3. ~(x \in before[y]) /\ ~(y \in before[x])
        BY <2>1, <2>2, RanksAgree
    <2> QED
        BY <2>3 DEF Orders
<1>5. g \in Injection(S, 1 .. n)
    BY <1>2, <1>3, <1>4 DEF Injection, IsInjective
<1>6. IsFiniteSet(1 .. n) /\ Cardinality(1 .. n) = n
    BY FS_Interval
<1>7. g \in Surjection(S, 1 .. n)
    BY <1>1, <1>5, <1>6, FS_Injection
<1>8. PICK x \in S : g[x] = r
    BY <1>1, <1>7 DEF Surjection
<1>9. Cardinality(before[x]) \in Nat
    BY <1>1, RanksAgree
<1> QED
    BY <1>1, <1>2, <1>8, <1>9

\* f lists the elements of S as before orders them.
Lists(f, S, before) ==
    /\ DOMAIN f = 1 .. Cardinality(S) /\ Cardinality(S) \in Nat
    /\ \A r \in DOMAIN f : f[r] \in S
    /\ \A x \in S : \E r \in DOMAIN f : f[r] = x
    /\ \A q, r \in DOMAIN f : q < r <=> f[q] \in before[f[r]]

LEMMA Listing ==
    ASSUME NEW S, IsFiniteSet(S), NEW before, Orders(before, S), NEW f,
           DOMAIN f = 1 .. Cardinality(S),
           \A r \in DOMAIN f : f[r] \in S /\ Cardinality(before[f[r]]) = r - 1
    PROVE  Lists(f, S, before)
<1>1. PICK n \in Nat : n = Cardinality(S)
    BY FS_CardinalityType
<1>2. ASSUME NEW x \in S
      PROVE  \E r \in DOMAIN f : f[r] = x
    <2>1. PICK r \in 1 .. n : r = Cardinality(before[x]) + 1
        BY <1>1, RanksAgree
    <2>2. f[r] \in S /\ Cardinality(before[f[r]]) = Cardinality(before[x]) /\ Cardinality(before[x]) \in Nat
        BY <1>1, <2>1, RanksAgree
    <2>3. ~(x \in before[f[r]]) /\ ~(f[r] \in before[x])
        BY <2>2, RanksAgree
    <2>4. f[r] = x
        BY <2>2, <2>3 DEF Orders
    <2> QED
        BY <1>1, <2>4
<1>3. ASSUME NEW q \in DOMAIN f, NEW r \in DOMAIN f
      PROVE  q < r <=> f[q] \in before[f[r]]
    <2>1. Cardinality(before[f[q]]) = q - 1 /\ Cardinality(before[f[r]]) = r - 1 /\ q \in Int /\ r \in Int
        BY <1>1
    <2>2. f[q] \in before[f[r]] <=> q - 1 < r - 1
        BY <2>1, RanksAgree
    <2> QED
        BY <2>1, <2>2
<1> QED
    BY <1>1, <1>2, <1>3 DEF Lists


\* InOrder lists what it is given.
LEMMA InOrderLists ==
    ASSUME NEW S, IsFiniteSet(S), NEW before, Orders(before, S), NEW f,
           f = [r \in 1 .. Cardinality(S) |-> CHOOSE x \in S : Cardinality(before[x]) = r - 1]
    PROVE  Lists(f, S, before)
<1>1. DOMAIN f = 1 .. Cardinality(S)
    OBVIOUS
<1>2. ASSUME NEW r \in 1 .. Cardinality(S)
      PROVE  f[r] \in S /\ Cardinality(before[f[r]]) = r - 1
    <2>1. \E x \in S : Cardinality(before[x]) = r - 1
        BY RanksTaken
    <2> QED
        BY <2>1
<1> QED
    BY <1>1, <1>2, Listing

\* Positions sorted by integer keys, the smallest first, and by their place.
Behind(key, S) == [l \in S |-> {k \in S : key[k] < key[l] \/ (k < l /\ ~(key[l] < key[k]))}]

LEMMA KeysOrder ==
    ASSUME NEW S \in SUBSET Int, NEW key, \A k \in S : key[k] \in Int
    PROVE  Orders(Behind(key, S), S)
<1>1. PICK before : before = Behind(key, S)
    OBVIOUS
<1>2. \A k, l \in S : /\ k \in Int /\ l \in Int /\ key[k] \in Int /\ key[l] \in Int
                      /\ k \in before[l] <=> key[k] < key[l] \/ (k < l /\ ~(key[l] < key[k]))
    BY <1>1 DEF Behind
<1>3. before \in [S -> SUBSET S]
    BY <1>1 DEF Behind
<1>4. \A k \in S : k \notin before[k]
    BY <1>2
<1>5. ASSUME NEW l \in S, NEW k \in before[l], NEW j \in before[k]
      PROVE  j \in before[l]
    <2>1. k \in S /\ j \in S
        BY <1>3, <1>5
    <2> QED
        BY <1>2, <1>5, <2>1
<1>6. \A k, l \in S : k # l => k \in before[l] \/ l \in before[k]
    BY <1>2
<1> QED
    BY <1>1, <1>3, <1>4, <1>5, <1>6 DEF Orders


LEMMA LargestFirst ==
    ASSUME NEW S \in SUBSET Int, IsFiniteSet(S), NEW key, \A k \in S : key[k] \in Int
    PROVE  Lists(Sorted(key, S, >), S, Behind([k \in S |-> -key[k]], S))
<1>1. PICK before : before = Behind([k \in S |-> -key[k]], S)
    OBVIOUS
<1>2. Orders(before, S)
    BY <1>1, KeysOrder
<1>3. ASSUME NEW x \in S
      PROVE  {y \in S : key[y] > key[x] \/ (y < x /\ ~(key[x] > key[y]))} = before[x]
    <2>1. PICK neg : neg = [k \in S |-> -key[k]]
        OBVIOUS
    <2>2. before[x] = {y \in S : neg[y] < neg[x] \/ (y < x /\ ~(neg[x] < neg[y]))}
        BY <1>1, <1>3, <2>1 DEF Behind
    <2>3. ASSUME NEW y \in S
          PROVE  (key[y] > key[x] \/ (y < x /\ ~(key[x] > key[y])))
                     <=> (neg[y] < neg[x] \/ (y < x /\ ~(neg[x] < neg[y])))
        BY <2>1
    <2> QED
        BY <2>2, <2>3, Zenon
<1>4. PICK f : f = Sorted(key, S, >)
    OBVIOUS
<1>5. f = [r \in 1 .. Cardinality(S) |->
              CHOOSE x \in S : Cardinality({y \in S : key[y] > key[x] \/ (y < x /\ ~(key[x] > key[y]))}) = r - 1]
    BY <1>4 DEF Sorted, InOrder
<1>6. ASSUME NEW r \in 1 .. Cardinality(S)
      PROVE  f[r] \in S /\ Cardinality(before[f[r]]) = r - 1
    <2>1. \E x \in S : Cardinality(before[x]) = r - 1
        BY <1>2, RanksTaken
    <2>2. \E x \in S : Cardinality({y \in S : key[y] > key[x] \/ (y < x /\ ~(key[x] > key[y]))}) = r - 1
        BY <1>3, <2>1
    <2>3. /\ f[r] \in S
          /\ Cardinality({y \in S : key[y] > key[f[r]] \/ (y < f[r] /\ ~(key[f[r]] > key[y]))}) = r - 1
        BY <1>5, <2>2
    <2> QED
        BY <1>3, <2>3
<1> QED
    BY <1>1, <1>2, <1>4, <1>5, <1>6, Listing


LEMMA SmallestFirst ==
    ASSUME NEW S \in SUBSET Int, IsFiniteSet(S), NEW key, \A k \in S : key[k] \in Int
    PROVE  Lists(Sorted(key, S, <), S, Behind(key, S))
<1>1. PICK before : before = Behind(key, S)
    OBVIOUS
<1>2. Orders(before, S)
    BY <1>1, KeysOrder
<1>3. \A x \in S : before[x] = {y \in S : key[y] < key[x] \/ (y < x /\ ~(key[x] < key[y]))}
    BY <1>1 DEF Behind
<1>4. PICK f : f = Sorted(key, S, <)
    OBVIOUS
<1>5. f = [r \in 1 .. Cardinality(S) |->
              CHOOSE x \in S : Cardinality({y \in S : key[y] < key[x] \/ (y < x /\ ~(key[x] < key[y]))}) = r - 1]
    BY <1>4 DEF Sorted, InOrder
<1>6. ASSUME NEW r \in 1 .. Cardinality(S)
      PROVE  f[r] \in S /\ Cardinality(before[f[r]]) = r - 1
    <2>1. \E x \in S : Cardinality(before[x]) = r - 1
        BY <1>2, RanksTaken
    <2>2. \E x \in S : Cardinality({y \in S : key[y] < key[x] \/ (y < x /\ ~(key[x] < key[y]))}) = r - 1
        BY <1>3, <2>1
    <2>3. /\ f[r] \in S
          /\ Cardinality({y \in S : key[y] < key[f[r]] \/ (y < f[r] /\ ~(key[f[r]] < key[y]))}) = r - 1
        BY <1>5, <2>2
    <2> QED
        BY <1>3, <2>3
<1> QED
    BY <1>1, <1>2, <1>4, <1>5, <1>6, Listing

\* How far a finding is from the worst.
Mildness(findings, S) == [k \in S |-> -Order(findings[k].severity)]

LEMMA WorstComeFirst ==
    ASSUME NEW S \in SUBSET Int, IsFiniteSet(S), NEW findings
    PROVE  /\ Lists(Sorted(findings, S, Less), S, Behind(Mildness(findings, S), S))
           /\ \A k \in S : Mildness(findings, S)[k] \in Int
<1>1. PICK key : key = Mildness(findings, S)
    OBVIOUS
<1>2. \A k \in S : key[k] = -Order(findings[k].severity) /\ Order(findings[k].severity) \in Int
    BY <1>1 DEF Mildness, Order
<1>3. PICK before : before = Behind(key, S)
    OBVIOUS
<1>4. Orders(before, S)
    BY <1>2, <1>3, KeysOrder
<1>5. ASSUME NEW x \in S
      PROVE  before[x] = {y \in S : \/ Less(findings[y], findings[x])
                                    \/ (y < x /\ ~Less(findings[x], findings[y]))}
    <2>1. before[x] = {y \in S : key[y] < key[x] \/ (y < x /\ ~(key[x] < key[y]))}
        BY <1>3 DEF Behind
    <2>2. \A y \in S : /\ Less(findings[y], findings[x]) <=> key[y] < key[x]
                       /\ Less(findings[x], findings[y]) <=> key[x] < key[y]
        BY <1>2 DEF Less
    <2> QED
        BY <2>1, <2>2, Zenon
<1>6. PICK f : f = Sorted(findings, S, Less)
    OBVIOUS
<1>7. f = [r \in 1 .. Cardinality(S) |->
              CHOOSE x \in S :
                  Cardinality({y \in S : \/ Less(findings[y], findings[x])
                                         \/ (y < x /\ ~Less(findings[x], findings[y]))}) = r - 1]
    BY <1>6 DEF Sorted, InOrder
<1>8. ASSUME NEW r \in 1 .. Cardinality(S)
      PROVE  f[r] \in S /\ Cardinality(before[f[r]]) = r - 1
    <2>1. \E x \in S : Cardinality(before[x]) = r - 1
        BY <1>4, RanksTaken
    <2>2. \E x \in S : Cardinality({y \in S : \/ Less(findings[y], findings[x])
                                              \/ (y < x /\ ~Less(findings[x], findings[y]))}) = r - 1
        BY <1>5, <2>1
    <2>3. /\ f[r] \in S
          /\ Cardinality({y \in S : \/ Less(findings[y], findings[f[r]])
                                    \/ (y < f[r] /\ ~Less(findings[f[r]], findings[y]))}) = r - 1
        BY <1>7, <2>2
    <2> QED
        BY <1>5, <2>3
<1>9. Lists(f, S, before)
    <2>1. DOMAIN f = 1 .. Cardinality(S)
        BY <1>7
    <2> QED
        BY <1>4, <1>8, <2>1, Listing
<1> QED
    BY <1>1, <1>2, <1>3, <1>6, <1>9


(***************************************************************************)
(* Lists.                                                                  *)
(***************************************************************************)
LEMMA SameInterval ==
    ASSUME NEW m \in Nat, NEW n \in Nat, 1 .. m = 1 .. n
    PROVE  m = n
<1>1. m \in 1 .. n \/ m = 0
    OBVIOUS
<1>2. n \in 1 .. m \/ n = 0
    OBVIOUS
<1> QED
    BY <1>1, <1>2

\* A function on an initial segment of the numbers is a sequence.
LEMMA SegmentIsSeq ==
    ASSUME NEW n \in Nat, NEW f, f = [k \in 1 .. n |-> f[k]], NEW S, \A k \in 1 .. n : f[k] \in S
    PROVE  f \in Seq(S) /\ Len(f) = n
<1>1. f \in [1 .. n -> S]
    OBVIOUS
<1>2. f \in Seq(S)
    BY <1>1, IsASeq
<1>3. DOMAIN f = 1 .. Len(f) /\ Len(f) \in Nat
    BY <1>2, LenProperties
<1>4. DOMAIN f = 1 .. n
    BY <1>1
<1> QED
    BY <1>2, <1>3, <1>4, SameInterval

LEMMA SegmentLength ==
    ASSUME NEW n \in Nat, NEW f, f = [k \in 1 .. n |-> f[k]]
    PROVE  Len(f) = n
<1>1. PICK S : S = {f[k] : k \in 1 .. n}
    OBVIOUS
<1>2. \A k \in 1 .. n : f[k] \in S
    BY <1>1
<1> QED
    BY <1>2, SegmentIsSeq

AtRank(S, key, r) ==
    CHOOSE x \in S : Cardinality({y \in S : key[y] > key[x] \/ (y < x /\ ~(key[x] > key[y]))}) = r - 1

LEMMA SortedIsList ==
    ASSUME NEW S, Cardinality(S) \in Nat, NEW key
    PROVE  Len(Sorted(key, S, >)) = Cardinality(S)
<1>1. PICK n \in Nat : n = Cardinality(S)
    OBVIOUS
<1>2. PICK f : f = Sorted(key, S, >)
    OBVIOUS
<1>3. f = [r \in 1 .. n |-> AtRank(S, key, r)]
    BY <1>1, <1>2 DEF Sorted, InOrder, AtRank
<1>4. f = [r \in 1 .. n |-> f[r]]
    BY <1>3
<1> QED
    BY <1>1, <1>2, <1>4, SegmentLength

\* No element is listed twice.
LEMMA ListedOnce ==
    ASSUME NEW S, NEW before, Orders(before, S), NEW f, Lists(f, S, before)
    PROVE  \A q, r \in DOMAIN f : f[q] = f[r] => q = r
<1> SUFFICES ASSUME NEW q \in DOMAIN f, NEW r \in DOMAIN f, f[q] = f[r]
             PROVE  q = r
    OBVIOUS
<1>1. f[q] \in S /\ ~(f[q] \in before[f[q]])
    BY DEF Lists, Orders
<1>2. ~(q < r) /\ ~(r < q)
    BY <1>1 DEF Lists
<1>3. q \in Int /\ r \in Int
    BY DEF Lists
<1> QED
    BY <1>2, <1>3

(***************************************************************************)
(* Findings.                                                               *)
(***************************************************************************)
\* g holds those of the findings that are in S, the worst first.
HoldsWorstFirst(g, findings, S) ==
    /\ Len(g) \in Nat /\ DOMAIN g = 1 .. Len(g)
    /\ \A r \in DOMAIN g : \E k \in S : g[r] = findings[k]
    /\ \A k \in S : \E r \in DOMAIN g : g[r] = findings[k]
    /\ \A q, r \in DOMAIN g : q < r => Order(g[q].severity) >= Order(g[r].severity)

LEMMA Sorting ==
    ASSUME NEW n \in Nat, NEW S \in SUBSET (1 .. n), NEW findings,
           \A k, l \in S : findings[k] = findings[l] => k = l
    PROVE  LET g == WorstFirst(findings, S)
           IN  HoldsWorstFirst(g, findings, S) /\ \A q, r \in DOMAIN g : g[q] = g[r] => q = r
<1>1. IsFiniteSet(S) /\ S \in SUBSET Int
    <2>1. IsFiniteSet(1 .. n)
        BY FS_Interval
    <2>2. IsFiniteSet(S)
        BY <2>1, FS_Subset
    <2> QED
        BY <2>2
<1>2. PICK f : f = Sorted(findings, S, Less)
    OBVIOUS
<1>3. PICK key : key = Mildness(findings, S)
    OBVIOUS
<1>4. PICK before : before = Behind(key, S)
    OBVIOUS
<1>5. Lists(f, S, before) /\ Orders(before, S)
    BY <1>1, <1>2, <1>3, <1>4, WorstComeFirst, KeysOrder
<1>6. PICK g : g = WorstFirst(findings, S)
    OBVIOUS
<1>7. g = [r \in DOMAIN f |-> findings[f[r]]]
    BY <1>2, <1>6 DEF WorstFirst
<1>8. PICK m \in Nat : m = Cardinality(S) /\ DOMAIN f = 1 .. m
    BY <1>5 DEF Lists
<1>9. Len(g) = m /\ DOMAIN g = 1 .. m
    <2>1. g = [k \in 1 .. m |-> g[k]]
        BY <1>7, <1>8
    <2> QED
        BY <2>1, SegmentIsSeq
<1>10. ASSUME NEW q \in 1 .. m, NEW r \in 1 .. m, q < r
       PROVE  Order(g[q].severity) >= Order(g[r].severity)
    <2>1. f[q] \in S /\ f[r] \in S /\ f[q] \in before[f[r]]
        BY <1>5, <1>8, <1>10 DEF Lists
    <2>2. ~(key[f[r]] < key[f[q]])
        <3>1. key[f[q]] < key[f[r]] \/ ~(key[f[r]] < key[f[q]])
            BY <1>4, <2>1 DEF Behind
        <3>2. key[f[q]] \in Int /\ key[f[r]] \in Int
            BY <1>1, <1>3, <2>1, WorstComeFirst
        <3> QED
            BY <3>1, <3>2
    <2>3. /\ key[f[r]] = -Order(g[r].severity) /\ key[f[q]] = -Order(g[q].severity)
          /\ Order(g[r].severity) \in Int /\ Order(g[q].severity) \in Int
        BY <1>3, <1>7, <1>8, <2>1 DEF Mildness, Order
    <2> QED
        BY <2>2, <2>3
<1>11. HoldsWorstFirst(g, findings, S)
    BY <1>5, <1>7, <1>8, <1>9, <1>10 DEF HoldsWorstFirst, Lists
<1>12. ASSUME NEW q \in 1 .. m, NEW r \in 1 .. m, g[q] = g[r]
       PROVE  q = r
    <2>1. f[q] \in S /\ f[r] \in S /\ findings[f[q]] = findings[f[r]]
        BY <1>5, <1>7, <1>8, <1>12 DEF Lists
    <2> QED
        BY <1>5, <1>8, <2>1, ListedOnce
<1> QED
    BY <1>6, <1>9, <1>11, <1>12


\* The rules: what the properties need of their order and severities.
RulesStand(rules, facts) ==
    /\ DOMAIN rules = 1 .. 19
    /\ \A k, l \in 1 .. 19 : rules[k].id = rules[l].id => k = l
    /\ \A k \in 1 .. 19 : rules[k].severity = "critical" <=> k = 1
    /\ \A k \in 1 .. 19 : rules[k].severity \in {"critical", "warn", "info"}
    /\ rules[1].id = "failed" /\ rules[1].fires = Failed(facts)
    /\ rules[6].id = "stage-skew" /\ rules[6].fires = StageSkew(facts)

LEMMA RulesAre ==
    ASSUME NEW facts
    PROVE  RulesStand(DefaultEngine(facts), facts)
<1>1. PICK rules : rules = DefaultEngine(facts)
    OBVIOUS
<1>2. PICK ids : ids = <<"failed", "cpu-bound", "memory-pressure", "disk-spill", "queued-too-long", "stage-skew",
                         "hotspot-stage", "scan-too-large", "poor-selectivity", "under-parallelised",
                         "long-blocked", "row-explosion", "missed-pushdown", "local-filter-dominates",
                         "duplicate-federated-scans", "divergent-scan-rowcounts", "iceberg-metadata-table",
                         "unpushable-expression", "slow-empty-scan">>
    OBVIOUS
<1>3. DOMAIN rules = 1 .. 19
    BY <1>1 DEF DefaultEngine
<1>4. \A k \in 1 .. 19 : rules[k].id = ids[k]
    BY <1>1, <1>2 DEF DefaultEngine, Rule
<1>5. \A k, l \in 1 .. 19 : ids[k] = ids[l] => k = l
    BY <1>2
<1>6. \A k \in 1 .. 19 : /\ rules[k].severity = "critical" <=> k = 1
                         /\ rules[k].severity \in {"critical", "warn", "info"}
    BY <1>1 DEF DefaultEngine, Rule
<1>7. /\ rules[1].id = "failed" /\ rules[1].fires = Failed(facts)
      /\ rules[6].id = "stage-skew" /\ rules[6].fires = StageSkew(facts)
    BY <1>1 DEF DefaultEngine, Rule
<1>8. \A k, l \in 1 .. 19 : rules[k].id = rules[l].id => k = l
    BY <1>4, <1>5
<1> QED
    BY <1>1, <1>3, <1>6, <1>7, <1>8, Zenon DEF RulesStand


\* The findings are those of the rules that fire, worst first.
FindingsOf(facts, findings) ==
    LET rules == DefaultEngine(facts)
        fired == {k \in 1 .. 19 : rules[k].fires}
    IN  HoldsWorstFirst(findings, rules, fired)

LEMMA FindingsAre ==
    ASSUME NEW facts
    PROVE  FindingsOf(facts, WorstFirst(Run(facts), DOMAIN Run(facts)))
<1>1. PICK rules : rules = DefaultEngine(facts)
    OBVIOUS
<1>2. PICK fired \in SUBSET (1 .. 19) : fired = {k \in 1 .. 19 : rules[k].fires}
    OBVIOUS
<1>3. DOMAIN rules = 1 .. 19 /\ \A k, l \in 1 .. 19 : rules[k] = rules[l] => k = l
    BY <1>1, RulesAre DEF RulesStand
<1>4. PICK ran : ran = Run(facts)
    OBVIOUS
<1>5. ran = WorstFirst(rules, fired)
    BY <1>1, <1>2, <1>3, <1>4 DEF Run
<1>6. HoldsWorstFirst(ran, rules, fired) /\ \A q, r \in DOMAIN ran : ran[q] = ran[r] => q = r
    <2>1. \A k, l \in fired : rules[k] = rules[l] => k = l
        BY <1>3
    <2> QED
        BY <1>5, <2>1, Sorting
<1>7. PICK n \in Nat : n = Len(ran) /\ DOMAIN ran = 1 .. n
    BY <1>6 DEF HoldsWorstFirst
<1>8. PICK findings : findings = WorstFirst(ran, DOMAIN ran)
    OBVIOUS
<1>9. HoldsWorstFirst(findings, ran, 1 .. n)
    BY <1>6, <1>7, <1>8, Sorting
<1>10. HoldsWorstFirst(findings, rules, fired)
    <2>1. ASSUME NEW r \in DOMAIN findings
          PROVE  \E k \in fired : findings[r] = rules[k]
        <3>1. PICK q \in 1 .. n : findings[r] = ran[q]
            BY <1>9 DEF HoldsWorstFirst
        <3>2. PICK k \in fired : ran[q] = rules[k]
            BY <1>6, <1>7 DEF HoldsWorstFirst
        <3> QED
            BY <3>1, <3>2
    <2>2. \A k \in fired : \E r \in DOMAIN findings : findings[r] = rules[k]
        BY <1>6, <1>7, <1>9 DEF HoldsWorstFirst
    <2> QED
        BY <1>9, <2>1, <2>2 DEF HoldsWorstFirst
<1> QED
    BY <1>1, <1>2, <1>4, <1>8, <1>10 DEF FindingsOf

\* What LeadsWithWorst says of a reply (analyze_query.go:88-121).
LEMMA Leading ==
    ASSUME NEW facts, NEW findings, FindingsOf(facts, findings),
           NEW headline, headline = buildHeadline(facts, findings)
    PROVE  LET named == {f \in Range(findings) : f.id \in Range(headline)}
           IN  /\ \A f \in named, other \in Range(findings) \ named : Order(other.severity) <= Order(f.severity)
               /\ facts.state = "FAILED" => findings # << >> /\ findings[1].id = "failed"
               /\ \A k, l \in DOMAIN findings :
                     k < l => Order(findings[k].severity) >= Order(findings[l].severity)
               /\ Len(headline) <= 2
<1>1. PICK rules : rules = DefaultEngine(facts)
    OBVIOUS
<1>2. PICK fired \in SUBSET (1 .. 19) : fired = {k \in 1 .. 19 : rules[k].fires}
    OBVIOUS
<1>3. HoldsWorstFirst(findings, rules, fired)
    BY <1>1, <1>2 DEF FindingsOf
<1>4. PICK n \in Nat : n = Len(findings) /\ DOMAIN findings = 1 .. n
    BY <1>3 DEF HoldsWorstFirst
<1>5. /\ \A r \in 1 .. n : \E k \in fired : findings[r] = rules[k]
      /\ \A k \in fired : \E r \in 1 .. n : findings[r] = rules[k]
      /\ \A q, r \in 1 .. n : q < r => Order(findings[q].severity) >= Order(findings[r].severity)
    BY <1>3, <1>4 DEF HoldsWorstFirst
<1>5a. /\ \A k, l \in fired : rules[k].id = rules[l].id => k = l
       /\ \A k \in fired : /\ rules[k].severity \in {"critical", "warn", "info"}
                           /\ rules[k].severity = "critical" <=> k = 1
                           /\ rules[k].id = "failed" <=> k = 1
       /\ facts.state = "FAILED" => 1 \in fired
    <2>1. /\ \A k, l \in 1 .. 19 : rules[k].id = rules[l].id => k = l
          /\ \A k \in 1 .. 19 : rules[k].severity = "critical" <=> k = 1
          /\ \A k \in 1 .. 19 : rules[k].severity \in {"critical", "warn", "info"}
          /\ rules[1].id = "failed" /\ rules[1].fires = Failed(facts)
        <3>1. RulesStand(rules, facts)
            BY <1>1, RulesAre
        <3> QED
            BY <3>1 DEF RulesStand
    <2>2. 1 \in 1 .. 19
        OBVIOUS
    <2>3. facts.state = "FAILED" => 1 \in fired
        BY <1>2, <2>1, <2>2 DEF Failed
    <2> QED
        BY <2>1, <2>2, <2>3
<1>6. ASSUME NEW r \in 1 .. n
      PROVE  /\ findings[r].severity \in {"critical", "warn", "info"}
             /\ findings[r].severity = "critical" <=> findings[r].id = "failed"
             /\ \A q \in 1 .. n : findings[q].id = findings[r].id => findings[q] = findings[r]
    <2>1. PICK k \in fired : findings[r] = rules[k]
        BY <1>5
    <2>2. ASSUME NEW q \in 1 .. n, findings[q].id = findings[r].id
          PROVE  findings[q] = findings[r]
        <3>1. PICK l \in fired : findings[q] = rules[l]
            BY <1>5
        <3> QED
            BY <1>5a, <2>1, <2>2, <3>1
    <2> QED
        BY <1>5a, <2>1, <2>2
<1>7. \A r \in 1 .. n : /\ Order(findings[r].severity) \in 1 .. 3
                        /\ Order(findings[r].severity) = 3 <=> findings[r].id = "failed"
    BY <1>6 DEF Order
<1>8. ASSUME facts.state = "FAILED"
      PROVE  n > 0 /\ findings[1].id = "failed"
    <2>1. 1 \in fired /\ rules[1].id = "failed"
        BY <1>8, <1>5a
    <2>2. PICK r \in 1 .. n : findings[r].id = "failed"
        BY <1>5, <2>1
    <2>3. Order(findings[1].severity) >= Order(findings[r].severity) /\ 1 \in 1 .. n
        BY <1>5, <1>7, <2>2
    <2> QED
        BY <1>7, <2>2, <2>3
<1>9. CASE facts.state = "FAILED"
    <2>1. headline = <<"failed">>
        BY <1>9 DEF buildHeadline
    <2>2. Range(headline) = {"failed"} /\ Len(headline) = 1
        BY <2>1 DEF Range
    <2>3. \A f \in Range(findings) : Order(f.severity) \in 1 .. 3 /\ (f.id = "failed" => Order(f.severity) = 3)
        BY <1>4, <1>7 DEF Range
    <2>4. findings # << >>
        BY <1>4, <1>8, <1>9
    <2> QED
        BY <1>4, <1>5, <1>8, <1>9, <2>2, <2>3, <2>4
<1>10. CASE facts.state # "FAILED"
    <2>1. headline = [k \in 1 .. Min({2, n}) |-> findings[k].id]
        BY <1>4, <1>10 DEF buildHeadline
    <2>2. PICK m \in Nat : m = Min({2, n}) /\ m <= 2 /\ m <= n /\ (m = 2 \/ m = n)
        <3>1. {2, n} \in SUBSET Nat
            OBVIOUS
        <3> QED
            BY <3>1, MinOf
    <2>3. headline = [k \in 1 .. m |-> headline[k]]
        BY <2>1, <2>2
    <2>4. Len(headline) = m
        BY <2>3, SegmentIsSeq
    <2>5. ASSUME NEW f \in Range(findings), f.id \in Range(headline)
          PROVE  \E q \in 1 .. m : f = findings[q]
        <3>1. PICK q \in 1 .. m : f.id = findings[q].id
            BY <2>1, <2>2, <2>5 DEF Range
        <3>2. PICK r \in 1 .. n : f = findings[r]
            BY <1>4 DEF Range
        <3> QED
            BY <1>6, <2>2, <3>1, <3>2
    <2>6. ASSUME NEW f \in Range(findings), f.id \notin Range(headline)
          PROVE  \E q \in m + 1 .. n : f = findings[q]
        <3>1. PICK r \in 1 .. n : f = findings[r]
            BY <1>4 DEF Range
        <3>2. r \notin 1 .. m
            BY <2>1, <2>2, <2>6, <3>1 DEF Range
        <3> QED
            BY <2>2, <3>1, <3>2
    <2>7. \A q \in 1 .. m, r \in m + 1 .. n : Order(findings[r].severity) <= Order(findings[q].severity)
        BY <1>5, <1>7, <2>2
    <2>8. ASSUME NEW f \in Range(findings), f.id \in Range(headline),
                 NEW other \in Range(findings), other.id \notin Range(headline)
          PROVE  Order(other.severity) <= Order(f.severity)
        BY <2>5, <2>6, <2>7, <2>8
    <2>9. Len(headline) <= 2
        BY <2>2, <2>4
    <2> QED
        BY <1>4, <1>5, <1>10, <2>8, <2>9
<1> QED
    BY <1>9, <1>10


(***************************************************************************)
(* Sums.                                                                   *)
(***************************************************************************)
Member(S) == CHOOSE x \in S : TRUE

\* g gives for each part of S the sum of f over it.
Adds(g, f, S) ==
    g = [s \in SUBSET S |-> IF s = {} THEN 0 ELSE f[Member(s)] + g[s \ {Member(s)}]]

Sum(f, S) == (CHOOSE g : Adds(g, f, S))[S]

LEMMA SumIs ==
    ASSUME NEW f, NEW S
    PROVE  SumFunctionOnSet(f, S) = Sum(f, S)
BY DEF SumFunctionOnSet, FoldFunctionOnSet, MapThenFoldSet, Sum, Adds, Member

LEMMA AnyIn ==
    ASSUME NEW S, S # {}
    PROVE  Member(S) \in S
BY DEF Member

\* Sums depend on nothing but the numbers.
LEMMA AddsAgree ==
    ASSUME NEW f, NEW g, NEW S, Adds(g, f, S), NEW e, NEW h, NEW T, Adds(h, e, T),
           NEW s \in SUBSET S, s \in SUBSET T, IsFiniteSet(s), \A x \in s : f[x] = e[x]
    PROVE  g[s] = h[s]
<1> SUFFICES ASSUME g[s] # h[s]
             PROVE  FALSE
    OBVIOUS
<1>1. PICK bad : bad = {t \in SUBSET s : g[t] # h[t]}
    OBVIOUS
<1>2. PICK sizes : sizes = {Cardinality(t) : t \in bad}
    OBVIOUS
<1>3. \A t \in SUBSET s : IsFiniteSet(t) /\ Cardinality(t) \in Nat
    BY FS_Subset, FS_CardinalityType
<1>4. sizes \in SUBSET Nat /\ sizes # {}
    BY <1>1, <1>2, <1>3
<1>5. PICK n \in sizes : \A m \in sizes : n <= m
    BY <1>4, LeastOf
<1>6. PICK t \in bad : n = Cardinality(t)
    BY <1>2, <1>5
<1>7. t \in SUBSET s /\ g[t] # h[t] /\ t \in SUBSET S /\ t \in SUBSET T
    BY <1>1, <1>6
<1>8. /\ g[t] = IF t = {} THEN 0 ELSE f[Member(t)] + g[t \ {Member(t)}]
      /\ h[t] = IF t = {} THEN 0 ELSE e[Member(t)] + h[t \ {Member(t)}]
    BY <1>7 DEF Adds
<1>9. t # {} /\ Member(t) \in t
    BY <1>7, <1>8, AnyIn
<1>10. PICK u : u = t \ {Member(t)}
    OBVIOUS
<1>11. u \in SUBSET s /\ Cardinality(u) < Cardinality(t)
    <2>1. Cardinality(u) = Cardinality(t) - 1
        BY <1>3, <1>7, <1>9, <1>10, FS_RemoveElement
    <2> QED
        BY <1>3, <1>7, <1>10, <2>1
<1>12. u \notin bad
    <2>1. ASSUME u \in bad
          PROVE  FALSE
        <3>1. n <= Cardinality(u)
            BY <1>2, <1>5, <2>1
        <3> QED
            BY <1>3, <1>6, <1>7, <1>11, <3>1
    <2> QED
        BY <2>1
<1>13. g[u] = h[u] /\ f[Member(t)] = e[Member(t)]
    BY <1>1, <1>7, <1>9, <1>11, <1>12
<1> QED
    BY <1>7, <1>8, <1>9, <1>10, <1>13

LEMMA AddsExist ==
    ASSUME NEW f, NEW S, IsFiniteSet(S)
    PROVE  \E g : Adds(g, f, S)
<1> SUFFICES ASSUME ~\E g : Adds(g, f, S)
             PROVE  FALSE
    OBVIOUS
<1>1. PICK bad : bad = {s \in SUBSET S : ~\E g : Adds(g, f, s)}
    OBVIOUS
<1>2. PICK sizes : sizes = {Cardinality(s) : s \in bad}
    OBVIOUS
<1>3. \A s \in SUBSET S : IsFiniteSet(s) /\ Cardinality(s) \in Nat
    BY FS_Subset, FS_CardinalityType
<1>4. sizes \in SUBSET Nat /\ sizes # {}
    BY <1>1, <1>2, <1>3
<1>5. PICK n \in sizes : \A m \in sizes : n <= m
    BY <1>4, LeastOf
<1>6. PICK t \in bad : n = Cardinality(t)
    BY <1>2, <1>5
<1>7. t \in SUBSET S /\ ~\E g : Adds(g, f, t)
    BY <1>1, <1>6
<1>8. ASSUME NEW s \in SUBSET t, s # t
      PROVE  \E g : Adds(g, f, s)
    <2>1. s \in SUBSET S
        BY <1>7
    <2>2. Cardinality(s) <= Cardinality(t) /\ Cardinality(s) # Cardinality(t)
        BY <1>3, <1>7, <1>8, FS_Subset
    <2>3. Cardinality(s) \notin sizes
        BY <1>3, <1>5, <1>6, <1>7, <2>1, <2>2
    <2> QED
        BY <1>1, <1>2, <2>1, <2>3
<1>9. PICK H : H = [s \in SUBSET t |-> Sum(f, s)]
    OBVIOUS
<1>10. ASSUME NEW s \in SUBSET t, s # t, s # {}
       PROVE  H[s] = f[Member(s)] + H[s \ {Member(s)}]
    <2>1. PICK g : Adds(g, f, s) /\ H[s] = g[s]
        BY <1>8, <1>9, <1>10 DEF Sum
    <2>2. PICK u : u = s \ {Member(s)}
        OBVIOUS
    <2>3. u \in SUBSET t /\ u # t /\ u \in SUBSET s
        BY <1>10, <2>2
    <2>4. PICK h : Adds(h, f, u) /\ H[u] = h[u]
        BY <1>8, <1>9, <2>3 DEF Sum
    <2>5. g[u] = h[u]
        <3>1. IsFiniteSet(u) /\ u \in SUBSET u
            BY <1>3, <1>7, <2>3
        <3> QED
            BY <2>1, <2>3, <2>4, <3>1, AddsAgree
    <2>6. g[s] = f[Member(s)] + g[u]
        BY <1>10, <2>1, <2>2 DEF Adds
    <2> QED
        BY <2>1, <2>2, <2>4, <2>5, <2>6
<1>11. H[{}] = 0 \/ t = {}
    <2>1. ASSUME t # {}
          PROVE  H[{}] = 0
        <3>1. PICK g : Adds(g, f, {}) /\ H[{}] = g[{}]
            BY <1>8, <1>9, <2>1 DEF Sum
        <3> QED
            BY <3>1 DEF Adds
    <2> QED
        BY <2>1
<1>12. PICK G : G = [s \in SUBSET t |-> IF s = {} THEN 0 ELSE f[Member(s)] + H[s \ {Member(s)}]]
    OBVIOUS
<1>13. ASSUME NEW s \in SUBSET t, s # {}
       PROVE  H[s \ {Member(s)}] = G[s \ {Member(s)}]
    <2>1. PICK u : u = s \ {Member(s)}
        OBVIOUS
    <2>2. u \in SUBSET t /\ u # t /\ t # {}
        BY <1>13, <2>1, AnyIn
    <2>3. CASE u = {}
        BY <1>11, <1>12, <2>1, <2>2, <2>3
    <2>4. CASE u # {}
        BY <1>10, <1>12, <2>1, <2>2, <2>4
    <2> QED
        BY <2>3, <2>4
<1>14. Adds(G, f, t)
    <2>1. G = [s \in SUBSET t |-> IF s = {} THEN 0 ELSE f[Member(s)] + G[s \ {Member(s)}]]
        BY <1>12, <1>13
    <2> QED
        BY <2>1 DEF Adds
<1> QED
    BY <1>7, <1>14


LEMMA SumOfNothing ==
    ASSUME NEW f
    PROVE  Sum(f, {}) = 0
<1>1. PICK g : Adds(g, f, {}) /\ Sum(f, {}) = g[{}]
    BY FS_EmptySet, AddsExist DEF Sum
<1> QED
    BY <1>1 DEF Adds

LEMMA SumsAgree ==
    ASSUME NEW f, NEW e, NEW S, IsFiniteSet(S), \A x \in S : f[x] = e[x]
    PROVE  Sum(f, S) = Sum(e, S)
<1>1. PICK g : Adds(g, f, S) /\ Sum(f, S) = g[S]
    BY AddsExist DEF Sum
<1>2. PICK h : Adds(h, e, S) /\ Sum(e, S) = h[S]
    BY AddsExist DEF Sum
<1>3. g[S] = h[S]
    BY <1>1, <1>2, AddsAgree
<1> QED
    BY <1>1, <1>2, <1>3

LEMMA SumOfAny ==
    ASSUME NEW f, NEW S, IsFiniteSet(S), S # {}
    PROVE  Sum(f, S) = f[Member(S)] + Sum(f, S \ {Member(S)})
<1>1. PICK u : u = S \ {Member(S)}
    OBVIOUS
<1>2. IsFiniteSet(u) /\ u \in SUBSET S /\ u \in SUBSET u
    BY <1>1, FS_Subset
<1>3. PICK g : Adds(g, f, S) /\ Sum(f, S) = g[S]
    BY AddsExist DEF Sum
<1>4. PICK h : Adds(h, f, u) /\ Sum(f, u) = h[u]
    BY <1>2, AddsExist DEF Sum
<1>5. g[u] = h[u]
    BY <1>2, <1>3, <1>4, AddsAgree
<1>6. g[S] = f[Member(S)] + g[u]
    BY <1>1, <1>3 DEF Adds
<1> QED
    BY <1>1, <1>3, <1>4, <1>5, <1>6

\* Of the parts of S that are not good, a smallest one.
LEMMA Smallest ==
    ASSUME NEW S, IsFiniteSet(S), NEW bad \in SUBSET (SUBSET S), bad # {}
    PROVE  \E t \in bad : \A u \in SUBSET t : u # t => u \notin bad
<1>1. PICK sizes : sizes = {Cardinality(t) : t \in bad}
    OBVIOUS
<1>2. \A t \in SUBSET S : IsFiniteSet(t) /\ Cardinality(t) \in Nat
    BY FS_Subset, FS_CardinalityType
<1>3. sizes \in SUBSET Nat /\ sizes # {}
    BY <1>1, <1>2
<1>4. PICK n \in sizes : \A m \in sizes : n <= m
    BY <1>3, LeastOf
<1>5. PICK t \in bad : n = Cardinality(t)
    BY <1>1, <1>4
<1>6. ASSUME NEW u \in SUBSET t, u # t, u \in bad
      PROVE  FALSE
    <2>1. IsFiniteSet(t) /\ Cardinality(t) \in Nat /\ Cardinality(u) \in Nat
        BY <1>2, <1>5, <1>6
    <2>2. Cardinality(u) <= Cardinality(t) /\ Cardinality(u) # Cardinality(t)
        BY <1>6, <2>1, FS_Subset
    <2>3. n <= Cardinality(u)
        BY <1>1, <1>4, <1>6
    <2> QED
        BY <1>5, <2>1, <2>2, <2>3
<1> QED
    BY <1>5, <1>6

LEMMA SumIsNat ==
    ASSUME NEW f, NEW S, IsFiniteSet(S), \A x \in S : f[x] \in Nat
    PROVE  Sum(f, S) \in Nat
<1> SUFFICES ASSUME ~(Sum(f, S) \in Nat)
             PROVE  FALSE
    OBVIOUS
<1>1. PICK bad \in SUBSET (SUBSET S) : bad = {t \in SUBSET S : ~(Sum(f, t) \in Nat)}
    OBVIOUS
<1>2. bad # {}
    BY <1>1
<1>3. PICK t \in bad : \A u \in SUBSET t : u # t => u \notin bad
    BY <1>2, Smallest
<1>4. t \in SUBSET S /\ IsFiniteSet(t) /\ ~(Sum(f, t) \in Nat)
    BY <1>1, <1>3, FS_Subset
<1>5. t # {}
    BY <1>4, SumOfNothing
<1>6. PICK u : u = t \ {Member(t)}
    OBVIOUS
<1>7. u \in SUBSET t /\ u # t /\ Member(t) \in S
    BY <1>4, <1>5, <1>6, AnyIn
<1>8. Sum(f, u) \in Nat
    BY <1>1, <1>3, <1>4, <1>7
<1>9. Sum(f, t) = f[Member(t)] + Sum(f, u)
    BY <1>4, <1>5, <1>6, SumOfAny
<1> QED
    BY <1>4, <1>7, <1>8, <1>9

LEMMA SumRemoves ==
    ASSUME NEW f, NEW S, IsFiniteSet(S), \A x \in S : f[x] \in Nat, NEW a \in S
    PROVE  Sum(f, S) = f[a] + Sum(f, S \ {a})
<1> SUFFICES ASSUME Sum(f, S) # f[a] + Sum(f, S \ {a})
             PROVE  FALSE
    OBVIOUS
<1>1. PICK bad \in SUBSET (SUBSET S) :
          bad = {t \in SUBSET S : \E x \in t : Sum(f, t) # f[x] + Sum(f, t \ {x})}
    OBVIOUS
<1>2. bad # {}
    BY <1>1
<1>3. PICK t \in bad : \A u \in SUBSET t : u # t => u \notin bad
    BY <1>2, Smallest
<1>4. t \in SUBSET S /\ IsFiniteSet(t)
    BY <1>1, <1>3, FS_Subset
<1>5. PICK x \in t : Sum(f, t) # f[x] + Sum(f, t \ {x})
    BY <1>1, <1>3
<1>6. PICK y \in t : y = Member(t)
    BY <1>5, AnyIn
<1>7. Sum(f, t) = f[y] + Sum(f, t \ {y})
    BY <1>4, <1>5, <1>6, SumOfAny
<1>8. x # y
    BY <1>5, <1>7
<1>9. PICK u : u = t \ {y}
    OBVIOUS
<1>10. PICK v : v = t \ {x}
    OBVIOUS
<1>11. PICK w : w = (t \ {x}) \ {y}
    OBVIOUS
<1>12. /\ u \in SUBSET t /\ u # t /\ x \in u /\ w = u \ {x}
       /\ v \in SUBSET t /\ v # t /\ y \in v /\ w = v \ {y}
    BY <1>5, <1>6, <1>8, <1>9, <1>10, <1>11
<1>13. u \in SUBSET S /\ v \in SUBSET S /\ w \in SUBSET S
    BY <1>4, <1>12
<1>14. Sum(f, u) = f[x] + Sum(f, w)
    <2>1. u \notin bad
        BY <1>3, <1>12
    <2>2. \A z \in u : Sum(f, u) = f[z] + Sum(f, u \ {z})
        BY <1>1, <1>13, <2>1
    <2> QED
        BY <1>12, <2>2
<1>15. Sum(f, v) = f[y] + Sum(f, w)
    <2>1. v \notin bad
        BY <1>3, <1>12
    <2>2. \A z \in v : Sum(f, v) = f[z] + Sum(f, v \ {z})
        BY <1>1, <1>13, <2>1
    <2> QED
        BY <1>12, <2>2
<1>16. Sum(f, w) \in Nat /\ f[x] \in Nat /\ f[y] \in Nat
    <2>1. IsFiniteSet(w) /\ \A z \in w : f[z] \in Nat
        BY <1>13, FS_Subset
    <2> QED
        BY <1>4, <2>1, SumIsNat
<1> QED
    BY <1>5, <1>7, <1>9, <1>10, <1>14, <1>15, <1>16

LEMMA SumAdds ==
    ASSUME NEW f, NEW S, IsFiniteSet(S), \A x \in S : f[x] \in Nat, NEW a, a \notin S, f[a] \in Nat
    PROVE  Sum(f, S \union {a}) = Sum(f, S) + f[a]
<1>1. PICK T : T = S \union {a}
    OBVIOUS
<1>2. IsFiniteSet(T) /\ \A x \in T : f[x] \in Nat
    BY <1>1, FS_AddElement
<1>3. T \ {a} = S /\ a \in T
    BY <1>1
<1>4. Sum(f, T) = f[a] + Sum(f, S)
    BY <1>2, <1>3, SumRemoves
<1>5. Sum(f, S) \in Nat
    BY SumIsNat
<1> QED
    BY <1>1, <1>4, <1>5


(***************************************************************************)
(* Trees.                                                                  *)
(***************************************************************************)
\* How paths are ordered.
Ahead(S) == [q \in S |-> {p \in S : Preorder(p, q)}]

LEMMA PreorderOrders ==
    ASSUME NEW S, \A p \in S : p \in Seq(Nat \ {0})
    PROVE  Orders(Ahead(S), S)
<1>1. PICK before : before = Ahead(S)
    OBVIOUS
<1>2. \A p, q \in S : p \in before[q] <=> Preorder(p, q)
    BY <1>1 DEF Ahead
<1>3. \A p \in S : /\ Len(p) \in Nat /\ DOMAIN p = 1 .. Len(p)
                   /\ \A k \in 1 .. Len(p) : p[k] \in Nat
    OBVIOUS
<1>4. before \in [S -> SUBSET S]
    BY <1>1 DEF Ahead
<1>5. ASSUME NEW p \in S, p \in before[p]
      PROVE  FALSE
    <2>1. PICK n \in 0 .. Len(p) : n < Len(p) /\ (n = Len(p) \/ p[n + 1] < p[n + 1])
        BY <1>2, <1>5 DEF Preorder
    <2>2. p[n + 1] \in Nat
        BY <1>3, <2>1
    <2> QED
        BY <1>3, <2>1, <2>2
<1>6. ASSUME NEW r \in S, NEW q \in before[r], NEW p \in before[q]
      PROVE  p \in before[r]
    <2>1. p \in S /\ q \in S
        BY <1>4, <1>6
    <2>2. PICK n \in 0 .. Len(p) : /\ n < Len(q) /\ \A k \in 1 .. n : p[k] = q[k]
                                   /\ n = Len(p) \/ p[n + 1] < q[n + 1]
        BY <1>2, <1>6, <2>1 DEF Preorder
    <2>3. PICK m \in 0 .. Len(q) : /\ m < Len(r) /\ \A k \in 1 .. m : q[k] = r[k]
                                   /\ m = Len(q) \/ q[m + 1] < r[m + 1]
        BY <1>2, <1>6, <2>1 DEF Preorder
    <2>4. /\ Len(p) \in Nat /\ Len(q) \in Nat /\ Len(r) \in Nat /\ n \in Nat /\ m \in Nat
          /\ \A k \in 1 .. Len(p) : p[k] \in Nat
          /\ \A k \in 1 .. Len(q) : q[k] \in Nat
          /\ \A k \in 1 .. Len(r) : r[k] \in Nat
        BY <1>3, <2>1, <2>2, <2>3
    <2>5. CASE n < m
        <3>1. q[n + 1] = r[n + 1] /\ \A k \in 1 .. n : p[k] = r[k]
            BY <2>2, <2>3, <2>4, <2>5
        <3>2. n < Len(r) /\ (n = Len(p) \/ p[n + 1] < r[n + 1])
            BY <2>2, <2>3, <2>4, <2>5, <3>1
        <3>3. Preorder(p, r)
            BY <2>2, <3>1, <3>2 DEF Preorder
        <3> QED
            BY <1>2, <2>1, <3>3
    <2>6. CASE m <= n
        <3>1. \A k \in 1 .. m : p[k] = r[k]
            BY <2>2, <2>3, <2>4, <2>6
        <3>2. q[m + 1] < r[m + 1] /\ m < Len(r) /\ m \in 0 .. Len(p)
            BY <2>2, <2>3, <2>4, <2>6
        <3>3. m = Len(p) \/ p[m + 1] < r[m + 1]
            <4>1. CASE m < n
                <5>1. p[m + 1] = q[m + 1]
                    BY <2>2, <2>4, <4>1
                <5> QED
                    BY <3>2, <5>1
            <4>2. CASE m = n /\ n # Len(p)
                <5>1. /\ m + 1 \in 1 .. Len(p) /\ m + 1 \in 1 .. Len(q) /\ m + 1 \in 1 .. Len(r)
                      /\ p[m + 1] < q[m + 1]
                    BY <2>2, <2>3, <2>4, <4>2
                <5>2. p[m + 1] \in Nat /\ q[m + 1] \in Nat /\ r[m + 1] \in Nat
                    BY <2>4, <5>1
                <5> QED
                    BY <3>2, <5>1, <5>2
            <4> QED
                BY <2>4, <2>6, <4>1, <4>2
        <3>4. Preorder(p, r)
            BY <3>1, <3>2, <3>3 DEF Preorder
        <3> QED
            BY <1>2, <2>1, <3>4
    <2> QED
        BY <2>4, <2>5, <2>6
<1>7. ASSUME NEW p \in S, NEW q \in S, p # q
      PROVE  p \in before[q] \/ q \in before[p]
    <2>1. PICK i \in Nat : i = Len(p) /\ DOMAIN p = 1 .. i /\ \A k \in 1 .. i : p[k] \in Nat
        BY <1>3
    <2>2. PICK j \in Nat : j = Len(q) /\ DOMAIN q = 1 .. j /\ \A k \in 1 .. j : q[k] \in Nat
        BY <1>3
    <2>3. PICK D \in SUBSET Nat :
              D = {k \in Nat : k <= i /\ k <= j /\ (k = i \/ k = j \/ p[k + 1] # q[k + 1])}
        OBVIOUS
    <2>4. D # {}
        <3>1. i <= j => i \in D
            BY <2>3
        <3>2. j <= i => j \in D
            BY <2>3
        <3> QED
            BY <3>1, <3>2
    <2>5. PICK n \in D : \A m \in D : n <= m
        BY <2>4, LeastOf
    <2>6. n \in Nat /\ n <= i /\ n <= j /\ (n = i \/ n = j \/ p[n + 1] # q[n + 1])
        BY <2>3, <2>5
    <2>7. ASSUME NEW k \in 1 .. n, p[k] # q[k]
          PROVE  FALSE
        <3>1. PICK m \in Nat : k = m + 1
            BY <2>6, <2>7
        <3>2. m \in D
            BY <2>3, <2>6, <2>7, <3>1
        <3> QED
            BY <2>5, <2>6, <3>1, <3>2
    <2>8. CASE n = i /\ n = j
        <3>1. p \in Seq(Nat \ {0}) /\ q \in Seq(Nat \ {0})
            OBVIOUS
        <3>2. p = q
            BY <2>1, <2>2, <2>7, <2>8, <3>1, SeqEqual
        <3> QED
            BY <1>7, <3>2
    <2>9. CASE n = i /\ n < j
        <3>1. Preorder(p, q)
            BY <2>1, <2>2, <2>7, <2>9 DEF Preorder
        <3> QED
            BY <1>2, <3>1
    <2>10. CASE n < i /\ n = j
        <3>1. Preorder(q, p)
            BY <2>1, <2>2, <2>7, <2>10 DEF Preorder
        <3> QED
            BY <1>2, <3>1
    <2>11. CASE n < i /\ n < j
        <3>1. p[n + 1] \in Nat /\ q[n + 1] \in Nat
            BY <2>1, <2>2, <2>6, <2>11
        <3>2. p[n + 1] < q[n + 1] \/ q[n + 1] < p[n + 1]
            BY <2>6, <2>11, <3>1
        <3>3. n \in 0 .. Len(p) /\ n \in 0 .. Len(q) /\ n < Len(p) /\ n < Len(q)
            BY <2>1, <2>2, <2>6, <2>11
        <3>4. Preorder(p, q) \/ Preorder(q, p)
            BY <2>7, <3>2, <3>3 DEF Preorder
        <3> QED
            BY <1>2, <3>4
    <2> QED
        BY <2>6, <2>8, <2>9, <2>10, <2>11
<1> QED
    BY <1>1, <1>4, <1>5, <1>6, <1>7 DEF Orders

\* A tree is walked in preorder, each node once.
LEMMA Walk ==
    ASSUME NEW S, IsFiniteSet(S), \A p \in S : p \in Seq(Nat \ {0})
    PROVE  Lists(InOrder(S, Preorder), S, Ahead(S)) /\ Orders(Ahead(S), S)
<1>1. PICK before : before = Ahead(S)
    OBVIOUS
<1>2. Orders(before, S)
    BY <1>1, PreorderOrders
<1>3. PICK f : f = InOrder(S, Preorder)
    OBVIOUS
<1>4. f = [r \in 1 .. Cardinality(S) |-> CHOOSE x \in S : Cardinality({y \in S : Preorder(y, x)}) = r - 1]
    BY <1>3 DEF InOrder
<1>5. ASSUME NEW r \in 1 .. Cardinality(S)
      PROVE  f[r] \in S /\ Cardinality(before[f[r]]) = r - 1
    <2>1. \E x \in S : Cardinality(before[x]) = r - 1
        BY <1>2, RanksTaken
    <2>2. \A x \in S : before[x] = {y \in S : Preorder(y, x)}
        BY <1>1 DEF Ahead
    <2>3. \E x \in S : Cardinality({y \in S : Preorder(y, x)}) = r - 1
        BY <2>1, <2>2
    <2>4. f[r] \in S /\ Cardinality({y \in S : Preorder(y, f[r])}) = r - 1
        BY <1>4, <2>3
    <2> QED
        BY <2>2, <2>4
<1> QED
    BY <1>1, <1>2, <1>3, <1>4, <1>5, Listing


(***************************************************************************)
(* The stages of one answer of the coordinator.                            *)
(***************************************************************************)
\* What may be known of a query at some moment.
IsSnapshot(query, status, heard, totals) ==
    /\ query \in Workloads
    /\ status \in {"RUNNING", "FINISHED", "FAILED"}
    /\ DOMAIN heard = DOMAIN query.plans
    /\ \A id \in DOMAIN query.plans : heard[id] \in 1 .. Len(query.reports[id])
    /\ totals \in 1 .. Len(query.stats)

\* f numbers the elements of T.
Numbers(f, n, T) ==
    /\ \A k, l \in 1 .. n : f[k] = f[l] => k = l
    /\ \A k \in 1 .. n : f[k] \in T
    /\ \A x \in T : \E k \in 1 .. n : f[k] = x

LEMMA SameNumber ==
    ASSUME NEW n \in Nat, NEW f, NEW T, Numbers(f, n, T)
    PROVE  IsFiniteSet(T) /\ Cardinality(T) = n
<1>1. PICK g : g = [k \in 1 .. n |-> f[k]]
    OBVIOUS
<1>2. g \in Bijection(1 .. n, T)
    BY <1>1 DEF Numbers, Bijection, Injection, Surjection, IsInjective
<1>3. IsFiniteSet(1 .. n) /\ Cardinality(1 .. n) = n
    BY FS_Interval
<1>4. ExistsBijection(1 .. n, T)
    BY <1>2 DEF ExistsBijection
<1> QED
    BY <1>3, <1>4, FS_Bijection

\* infos are the latest reports about the stages of a query, each once.
InfosStand(infos, query, heard) ==
    /\ Len(infos) \in Nat /\ DOMAIN infos = 1 .. Len(infos)
    /\ IsFiniteSet(DOMAIN query.plans) /\ Len(infos) = Cardinality(DOMAIN query.plans)
    /\ \A k \in DOMAIN infos :
          /\ infos[k].id \in DOMAIN query.plans
          /\ infos[k] = [Reported(query, infos[k].id, heard) EXCEPT !.subs = infos[k].subs]
    /\ \A k, l \in DOMAIN infos : infos[k].id = infos[l].id => k = l
    /\ \A id \in DOMAIN query.plans : \E k \in DOMAIN infos : infos[k].id = id
    /\ query.listed = << >> =>
          \A k, l \in DOMAIN infos : infos[l].id \in Range(infos[k].subs) => k < l

\* info is the latest report about a stage.
Told(info, query, id, heard, subs) == info = [Reported(query, id, heard) EXCEPT !.subs = subs]

LEMMA ReportedIs ==
    ASSUME NEW query, NEW id, NEW heard, NEW subs, NEW info, Told(info, query, id, heard, subs)
    PROVE  info.id = id /\ info.subs = subs
BY DEF Told, Reported

LEMMA ListedStages ==
    ASSUME NEW query \in Workloads, query.listed # << >>, NEW heard,
           NEW infos, infos = [k \in DOMAIN query.listed |->
               [Reported(query, query.listed[k].id, heard) EXCEPT !.subs = query.listed[k].subs]]
    PROVE  InfosStand(infos, query, heard)
<1>1. StagesStandOnce(query)
    BY WorkloadsAssumption
<1>2. PICK n \in Nat : n = Len(query.listed) /\ DOMAIN query.listed = 1 .. n
    BY <1>1 DEF StagesStandOnce
<1>3. /\ \A k \in 1 .. n : query.listed[k].id \in DOMAIN query.plans
      /\ \A k, l \in 1 .. n : query.listed[k].id = query.listed[l].id => k = l
      /\ \A id \in DOMAIN query.plans : \E k \in 1 .. n : query.listed[k].id = id
    BY <1>1, <1>2 DEF StagesStandOnce, IsInjective, Range
<1>4. PICK f : f = [k \in 1 .. n |-> query.listed[k].id]
    OBVIOUS
<1>5. IsFiniteSet(DOMAIN query.plans) /\ Cardinality(DOMAIN query.plans) = n
    <2>1. \A k \in 1 .. n : f[k] \in DOMAIN query.plans
        BY <1>3, <1>4
    <2>2. \A k, l \in 1 .. n : f[k] = f[l] => k = l
        BY <1>3, <1>4
    <2>3. \A x \in DOMAIN query.plans : \E k \in 1 .. n : f[k] = x
        BY <1>3, <1>4
    <2>4. Numbers(f, n, DOMAIN query.plans)
        BY <2>1, <2>2, <2>3 DEF Numbers
    <2> QED
        BY <1>2, <2>4, SameNumber
<1>6. Len(infos) = n /\ DOMAIN infos = 1 .. n
    <2>1. infos = [k \in 1 .. n |-> infos[k]]
        BY <1>2
    <2> QED
        BY <2>1, SegmentIsSeq
<1>7. ASSUME NEW k \in 1 .. n
      PROVE  /\ infos[k].id = query.listed[k].id
             /\ infos[k] = [Reported(query, infos[k].id, heard) EXCEPT !.subs = infos[k].subs]
    <2>1. PICK id, subs : id = query.listed[k].id /\ subs = query.listed[k].subs
        OBVIOUS
    <2>2. infos[k] = [Reported(query, id, heard) EXCEPT !.subs = subs]
        BY <1>2, <2>1
    <2>3. infos[k].id = id /\ infos[k].subs = subs
        <3>1. Told(infos[k], query, id, heard, subs)
            BY <2>2 DEF Told
        <3> QED
            <4>1. PICK info : info = infos[k]
                OBVIOUS
            <4>2. Told(info, query, id, heard, subs)
                BY <3>1, <4>1
            <4>3. info.id = id
                BY <4>2, ReportedIs
            <4>4. info.subs = subs
                BY <4>2, ReportedIs
            <4> QED
                BY <4>1, <4>3, <4>4
    <2> QED
        BY <2>1, <2>2, <2>3
<1>8. \A k \in 1 .. n : infos[k].id \in DOMAIN query.plans
    BY <1>3, <1>7
<1>9. \A k, l \in 1 .. n : infos[k].id = infos[l].id => k = l
    BY <1>3, <1>7
<1>10. ASSUME NEW id \in DOMAIN query.plans
       PROVE  \E k \in 1 .. n : infos[k].id = id
    <2>1. PICK k \in 1 .. n : query.listed[k].id = id
        BY <1>3
    <2> QED
        BY <1>7, <2>1
<1> QED
    BY <1>2, <1>5, <1>6, <1>7, <1>8, <1>9, <1>10, ZenonT(60) DEF InfosStand

LEMMA NestedStages ==
    ASSUME NEW query \in Workloads, query.listed = << >>, NEW heard, NEW tree,
           tree = [p \in DOMAIN query.shape |-> Reported(query, query.shape[p], heard)],
           NEW infos, infos = collectStages(tree)
    PROVE  InfosStand(infos, query, heard)
<1>1. StagesStandOnce(query)
    BY WorkloadsAssumption
<1>2. PICK S : S = DOMAIN query.shape
    OBVIOUS
<1>3. IsFiniteSet(S) /\ \A p \in S : p \in Seq(Nat \ {0})
    BY <1>1, <1>2 DEF StagesStandOnce, IsTree
<1>4. /\ \A p \in S : query.shape[p] \in DOMAIN query.plans
      /\ \A p, q \in S : query.shape[p] = query.shape[q] => p = q
      /\ \A id \in DOMAIN query.plans : \E p \in S : query.shape[p] = id
    BY <1>1, <1>2 DEF StagesStandOnce, IsInjective, Range
<1>5. PICK paths : paths = InOrder(S, Preorder)
    OBVIOUS
<1>6. PICK before : before = Ahead(S)
    OBVIOUS
<1>7. Lists(paths, S, before) /\ Orders(before, S)
    BY <1>3, <1>5, <1>6, Walk
<1>8. PICK n \in Nat : n = Cardinality(S) /\ DOMAIN paths = 1 .. n
    BY <1>7 DEF Lists
<1>9. infos = [k \in 1 .. n |-> [tree[paths[k]] EXCEPT !.subs = UpstreamIds(tree, paths[k])]]
    BY <1>2, <1>5, <1>8 DEF collectStages
<1>10. Len(infos) = n /\ DOMAIN infos = 1 .. n
    <2>1. infos = [k \in 1 .. n |-> infos[k]]
        BY <1>9
    <2> QED
        BY <2>1, SegmentIsSeq
<1>11. ASSUME NEW k \in 1 .. n
       PROVE  /\ paths[k] \in S /\ infos[k].id = query.shape[paths[k]]
              /\ infos[k].subs = UpstreamIds(tree, paths[k])
              /\ infos[k] = [Reported(query, infos[k].id, heard) EXCEPT !.subs = infos[k].subs]
    <2>1. PICK p \in S : p = paths[k]
        BY <1>7, <1>8 DEF Lists
    <2>2. infos[k] = [Reported(query, query.shape[p], heard) EXCEPT !.subs = UpstreamIds(tree, p)]
        BY <1>2, <1>9, <2>1
    <2>3. infos[k].id = query.shape[p] /\ infos[k].subs = UpstreamIds(tree, p)
        BY <2>2 DEF Reported
    <2> QED
        BY <2>1, <2>2, <2>3
<1>12. ASSUME NEW k \in 1 .. n, NEW l \in 1 .. n, infos[k].id = infos[l].id
       PROVE  k = l
    <2>1. PICK p, q \in S : p = paths[k] /\ q = paths[l]
        BY <1>11
    <2>2. query.shape[p] = query.shape[q]
        BY <1>11, <1>12, <2>1
    <2>3. paths[k] = paths[l]
        BY <1>4, <2>1, <2>2
    <2> QED
        BY <1>7, <1>8, <2>3, ListedOnce
<1>13. ASSUME NEW id \in DOMAIN query.plans
       PROVE  \E k \in 1 .. n : infos[k].id = id
    <2>1. PICK p \in S : query.shape[p] = id
        BY <1>4
    <2>2. PICK k \in 1 .. n : paths[k] = p
        BY <1>7, <1>8, <2>1 DEF Lists
    <2> QED
        BY <1>11, <2>1, <2>2
<1>14. PICK f : f = [k \in 1 .. n |-> infos[k].id]
    OBVIOUS
<1>15. IsFiniteSet(DOMAIN query.plans) /\ Cardinality(DOMAIN query.plans) = n
    <2>1. \A k \in 1 .. n : f[k] \in DOMAIN query.plans
        BY <1>4, <1>11, <1>14
    <2>2. \A k, l \in 1 .. n : f[k] = f[l] => k = l
        BY <1>12, <1>14
    <2>3. \A x \in DOMAIN query.plans : \E k \in 1 .. n : f[k] = x
        BY <1>13, <1>14
    <2>4. Numbers(f, n, DOMAIN query.plans)
        BY <2>1, <2>2, <2>3 DEF Numbers
    <2> QED
        BY <1>8, <2>4, SameNumber
<1>16. ASSUME NEW k \in 1 .. n, NEW l \in 1 .. n, infos[l].id \in Range(infos[k].subs)
       PROVE  k < l
    <2>1. PICK p \in S : p = paths[k]
        BY <1>11
    <2>2. PICK q \in S : q = paths[l]
        BY <1>11
    <2>3. PICK c \in Nat : Append(p, c) \in S /\ infos[l].id = tree[Append(p, c)].id
        <3>1. infos[k].subs = UpstreamIds(tree, p) /\ DOMAIN tree = S
            BY <1>2, <1>11, <2>1
        <3>2. PICK children \in SUBSET Nat :
                  /\ \A j \in children : Append(p, j) \in S
                  /\ infos[k].subs = [j \in children |-> tree[Append(p, j)].id]
            <4>1. PICK children : children = {j \in 1 .. Cardinality(DOMAIN tree) : Append(p, j) \in DOMAIN tree}
                OBVIOUS
            <4>2. children \in SUBSET Nat
                BY <4>1
            <4>3. infos[k].subs = [j \in children |-> tree[Append(p, j)].id]
                BY <3>1, <4>1 DEF UpstreamIds
            <4> QED
                BY <3>1, <4>1, <4>2, <4>3
        <3> QED
            <4>1. PICK j \in DOMAIN infos[k].subs : infos[l].id = infos[k].subs[j]
                BY <1>16 DEF Range
            <4>2. j \in children /\ infos[l].id = tree[Append(p, j)].id
                BY <3>2, <4>1
            <4> QED
                BY <3>2, <4>2
    <2>4. tree[Append(p, c)].id = query.shape[Append(p, c)]
        BY <1>2, <2>3 DEF Reported
    <2>5. q = Append(p, c)
        <3>1. infos[l].id = query.shape[q]
            BY <1>11, <2>2
        <3>2. PICK r \in S : r = Append(p, c)
            BY <2>3
        <3>3. query.shape[q] = query.shape[r]
            BY <2>3, <2>4, <3>1, <3>2
        <3> QED
            BY <1>4, <3>2, <3>3
    <2>6. Preorder(p, q)
        <3>1. p \in Seq(Nat) /\ Len(p) \in Nat
            BY <1>3
        <3>2. /\ Len(q) = Len(p) + 1
              /\ \A m \in 1 .. Len(p) : q[m] = p[m]
            BY <2>5, <3>1, AppendProperties
        <3>3. Len(p) \in 0 .. Len(p) /\ Len(p) < Len(q)
            BY <3>1, <3>2
        <3> QED
            BY <3>2, <3>3 DEF Preorder
    <2>7. p \in before[q]
        BY <1>6, <2>6 DEF Ahead
    <2> QED
        BY <1>7, <1>8, <2>1, <2>2, <2>7 DEF Lists
<1>17. \A k \in 1 .. n : infos[k].id \in DOMAIN query.plans
    BY <1>4, <1>11
<1> QED
    BY <1>8, <1>10, <1>11, <1>12, <1>13, <1>15, <1>16, <1>17, Zenon DEF InfosStand

LEMMA InfosAre ==
    ASSUME NEW query \in Workloads, NEW status, NEW heard, NEW totals
    PROVE  InfosStand(resolveStageInfos(InfoOf(query, status, heard, totals)), query, heard)
<1>1. PICK qi : qi = InfoOf(query, status, heard, totals)
    OBVIOUS
<1>2. PICK infos : infos = resolveStageInfos(qi)
    OBVIOUS
<1>3. PICK n \in Nat : n = Len(query.listed) /\ DOMAIN query.listed = 1 .. n
    <2>1. query.listed \in Seq(Range(query.listed))
        BY WorkloadsAssumption DEF StagesStandOnce
    <2> QED
        BY <2>1
<1>4. qi.stages = [k \in DOMAIN query.listed |->
          [Reported(query, query.listed[k].id, heard) EXCEPT !.subs = query.listed[k].subs]]
    BY <1>1 DEF InfoOf
<1>5. qi.outputStage = [p \in DOMAIN query.shape |-> Reported(query, query.shape[p], heard)]
    BY <1>1 DEF InfoOf
<1>6. CASE query.listed = << >>
    <2>1. qi.stages = << >>
        BY <1>4, <1>6
    <2>2. infos = collectStages(qi.outputStage)
        BY <1>2, <2>1 DEF resolveStageInfos
    <2> QED
        BY <1>1, <1>2, <1>5, <1>6, <2>2, NestedStages
<1>7. CASE query.listed # << >>
    <2>1. qi.stages # << >>
        <3>1. query.listed \in Seq(Range(query.listed))
            BY WorkloadsAssumption DEF StagesStandOnce
        <3>2. n # 0
            BY <1>3, <1>7, <3>1, EmptySeq
        <3>3. 1 \in DOMAIN qi.stages
            BY <1>3, <1>4, <3>2
        <3> QED
            BY <3>3
    <2>2. infos = qi.stages
        BY <1>2, <2>1 DEF resolveStageInfos
    <2> QED
        BY <1>1, <1>2, <1>4, <1>7, <2>2, ListedStages
<1> QED
    BY <1>6, <1>7


(***************************************************************************)
(* The facts of one answer.                                                *)
(***************************************************************************)
FactsOf(qi) == Project(qi, StagesOf(qi))

AnswerTo(qi) == Answer(FactsOf(qi))

LEMMA AnalyzeAnswers ==
    Analyze => reply' = AnswerTo(InfoOf(workload, state, published, counted))
BY DEF Analyze, QueryInfo, AnswerTo, FactsOf

ScansIn(stages) == FlattenSeq([k \in DOMAIN stages |-> stages[k].scans])

LEMMA FactsAre ==
    ASSUME NEW qi
    PROVE  LET facts == FactsOf(qi)
           IN  /\ facts.state = qi.state
               /\ facts.stats = Stats(qi.stats)
               /\ facts.rules = projectOptimizerRules(qi.rules)
               /\ facts.stages = StagesOf(qi)
               /\ facts.scans = ScansIn(StagesOf(qi))
               /\ facts.connectorIO = buildConnectorIORollup(StagesOf(qi), ScansIn(StagesOf(qi)))
               /\ facts.topIO = buildTopIOStages(StagesOf(qi), ScansIn(StagesOf(qi)))
BY DEF Project, FactsOf, StagesOf, ScansIn

LEMMA TablesAre ==
    ASSUME NEW qi
    PROVE  FactsOf(qi).tables =
               extractTableFacts(qi, mergeFQNConnectorMaps(connectorByFQN(resolveStageInfos(qi)),
                                                           connectorsByFQN(ScansIn(StagesOf(qi)))))
BY DEF Project, FactsOf, StagesOf, ScansIn

LEMMA StageFactIs ==
    ASSUME NEW info, NEW ops, NEW byNode, NEW byFQN, NEW fact, fact = StageFact(info, ops, byNode, byFQN)
    PROVE  /\ fact.id = info.id /\ fact.subs = info.subs
           /\ fact.cpu = ParseDurationMs(info.cpu) /\ fact.scheduled = ParseDurationMs(info.scheduled)
           /\ fact.blocked = ParseDurationMs(info.blocked) /\ fact.read = ParseDurationMs(info.read)
           /\ fact.positions = info.positions /\ fact.bytes = info.bytes
           /\ fact.operators = ProjectedOperators(OperatorsFor(info, ops))
           /\ fact.scans = extractScanPushdowns(info, OperatorsFor(info, ops), byNode, byFQN)
           /\ fact.tasks = projectTaskStats(info.tasks)
           /\ fact.wait = deriveIOWait(fact)
BY DEF StageFact, deriveIOWait

\* A stage as it was last reported.
Measured(stage, report) ==
    /\ stage.cpu = ParseDurationMs(report.cpu) /\ stage.cpu \in Nat
    /\ stage.scheduled = ParseDurationMs(report.scheduled) /\ stage.scheduled \in Nat
    /\ stage.blocked = ParseDurationMs(report.blocked) /\ stage.blocked \in Nat
    /\ stage.read = ParseDurationMs(report.read) /\ stage.read \in Nat
    /\ stage.positions = report.positions /\ stage.positions \in Nat
    /\ stage.bytes = report.bytes /\ stage.bytes \in Nat
    /\ stage.tasks = projectTaskStats(report.tasks) /\ report.tasks \in Seq(Nat)
    /\ stage.wait = deriveIOWait(stage) /\ stage.wait.ms \in Nat

StagesStand(stages, query, heard) ==
    /\ Len(stages) \in Nat /\ DOMAIN stages = 1 .. Len(stages)
    /\ IsFiniteSet(DOMAIN query.plans) /\ Len(stages) = Cardinality(DOMAIN query.plans)
    /\ \A k \in DOMAIN stages :
          /\ stages[k].id \in DOMAIN query.plans
          /\ Measured(stages[k], query.reports[stages[k].id][heard[stages[k].id]])
    /\ \A k, l \in DOMAIN stages : stages[k].id = stages[l].id => k = l
    /\ \A id \in DOMAIN query.plans : \E k \in DOMAIN stages : stages[k].id = id
    /\ query.listed = << >> =>
          \A k, l \in DOMAIN stages : stages[l].id \in Range(stages[k].subs) => k < l

LEMMA StagesAreMeasured ==
    ASSUME NEW stages, NEW query, NEW heard, StagesStand(stages, query, heard)
    PROVE  /\ \A k \in DOMAIN stages : stages[k].wait.ms \in Nat /\ stages[k].bytes \in Nat
           /\ \A k, l \in DOMAIN stages : stages[k].id = stages[l].id => k = l
<1>1. ASSUME NEW k \in DOMAIN stages
      PROVE  \E report : Measured(stages[k], report)
    <2>1. PICK report : report = query.reports[stages[k].id][heard[stages[k].id]]
        OBVIOUS
    <2>2. Measured(stages[k], report)
        BY <2>1, Zenon DEF StagesStand
    <2> QED
        BY <2>2
<1>2. \A k \in DOMAIN stages : stages[k].wait.ms \in Nat /\ stages[k].bytes \in Nat
    BY <1>1, Zenon DEF Measured
<1> QED
    BY <1>2, Zenon DEF StagesStand

LEMMA ReportsAre ==
    ASSUME NEW query \in Workloads, NEW id \in DOMAIN query.plans, NEW k \in 1 .. Len(query.reports[id])
    PROVE  LET report == query.reports[id][k]
           IN  /\ report.cpu \in Nat /\ report.scheduled \in Nat /\ report.blocked \in Nat
               /\ report.read \in Nat /\ report.positions \in Nat /\ report.bytes \in Nat
               /\ report.tasks \in Seq(Nat)
<1>1. PICK reports : reports = query.reports[id]
    OBVIOUS
<1>2. Cumulative(reports, Counters) /\ \A report \in Range(reports) : report.tasks \in Seq(Nat)
    BY <1>1, WorkloadsAssumption
<1>3. k \in DOMAIN reports
    BY <1>1, <1>2 DEF Cumulative
<1>4. \A m \in Counters : reports[k][m] \in Nat
    BY <1>2, <1>3 DEF Cumulative
<1>5. /\ reports[k].cpu \in Nat /\ reports[k].scheduled \in Nat /\ reports[k].blocked \in Nat
      /\ reports[k].read \in Nat /\ reports[k].positions \in Nat /\ reports[k].bytes \in Nat
    BY <1>4 DEF Counters
<1>6. reports[k].tasks \in Seq(Nat)
    BY <1>2, <1>3 DEF Range
<1> QED
    BY <1>1, <1>5, <1>6

LEMMA WholeMs ==
    ASSUME NEW us \in Nat, NEW later \in Nat, us <= later
    PROVE  /\ ParseDurationMs(us) \in Nat /\ ParseDurationMs(later) \in Nat
           /\ ParseDurationMs(us) <= ParseDurationMs(later)
BY DEF ParseDurationMs

\* A wait is never negative (io_wait.go:63-69).
LEMMA WaitIsNat ==
    ASSUME NEW stage, stage.cpu \in Nat, stage.scheduled \in Nat, stage.blocked \in Nat,
           stage.read \in Nat, stage.positions \in Nat
    PROVE  deriveIOWait(stage).ms \in Nat
<1>1. PICK beyond \in Int : beyond = stage.scheduled - stage.cpu
    OBVIOUS
<1>2. Max({beyond, 0}) \in Nat
    <2>1. \E x \in {beyond, 0} : \A y \in {beyond, 0} : x >= y
        BY <1>1
    <2>2. PICK m : m = Max({beyond, 0})
        OBVIOUS
    <2>3. m \in {beyond, 0} /\ m >= 0
        BY <2>1, <2>2 DEF Max
    <2> QED
        BY <1>1, <2>2, <2>3
<1> QED
    BY <1>1, <1>2 DEF deriveIOWait

LEMMA StagesAre ==
    ASSUME NEW query, NEW status, NEW heard, NEW totals, IsSnapshot(query, status, heard, totals)
    PROVE  StagesStand(StagesOf(InfoOf(query, status, heard, totals)), query, heard)
<1>1. PICK qi : qi = InfoOf(query, status, heard, totals)
    OBVIOUS
<1>2. PICK infos : infos = resolveStageInfos(qi)
    OBVIOUS
<1>3. query \in Workloads
    BY DEF IsSnapshot
<1>4. InfosStand(infos, query, heard)
    BY <1>1, <1>2, <1>3, InfosAre
<1>5. PICK n \in Nat : n = Len(infos) /\ DOMAIN infos = 1 .. n
    BY <1>4 DEF InfosStand
<1>6. PICK stages : stages = StagesOf(qi)
    OBVIOUS
<1>7. PICK byNode, byFQN :
          stages = [k \in 1 .. n |-> StageFact(infos[k], qi.ops, byNode, byFQN)]
    BY <1>2, <1>5, <1>6 DEF StagesOf
<1>8. Len(stages) = n /\ DOMAIN stages = 1 .. n
    <2>1. stages = [k \in 1 .. n |-> stages[k]]
        BY <1>7
    <2> QED
        BY <2>1, SegmentIsSeq
<1>9. ASSUME NEW k \in 1 .. n
      PROVE  /\ stages[k].id = infos[k].id /\ stages[k].subs = infos[k].subs
             /\ Measured(stages[k], query.reports[stages[k].id][heard[stages[k].id]])
    <2>1. PICK info : info = infos[k]
        OBVIOUS
    <2>2. PICK stage : stage = stages[k]
        OBVIOUS
    <2>3. stage = StageFact(info, qi.ops, byNode, byFQN)
        BY <1>7, <2>1, <2>2
    <2>4. PICK id \in DOMAIN query.plans : id = info.id
        BY <1>4, <1>5, <2>1 DEF InfosStand
    <2>5. PICK report : report = query.reports[id][heard[id]]
        OBVIOUS
    <2>6. /\ info.cpu = report.cpu /\ info.scheduled = report.scheduled /\ info.blocked = report.blocked
          /\ info.read = report.read /\ info.positions = report.positions /\ info.bytes = report.bytes
          /\ info.tasks = report.tasks
        <3>1. info = [Reported(query, id, heard) EXCEPT !.subs = info.subs]
            BY <1>4, <1>5, <2>1, <2>4 DEF InfosStand
        <3>2. PICK said : said = Reported(query, id, heard)
            OBVIOUS
        <3>3. PICK subs : info = [said EXCEPT !.subs = subs]
            BY <3>1, <3>2
        <3>4. /\ said.cpu = report.cpu /\ said.scheduled = report.scheduled
              /\ said.blocked = report.blocked /\ said.read = report.read
              /\ said.positions = report.positions /\ said.bytes = report.bytes
              /\ said.tasks = report.tasks
              /\ DOMAIN said = {"id", "subs", "plan", "tables", "cpu", "scheduled", "blocked", "read",
                                "positions", "bytes", "ops", "tasks"}
            BY <2>5, <3>2 DEF Reported
        <3> QED
            BY <3>3, <3>4
    <2>7. /\ report.cpu \in Nat /\ report.scheduled \in Nat /\ report.blocked \in Nat
          /\ report.read \in Nat /\ report.positions \in Nat /\ report.bytes \in Nat
          /\ report.tasks \in Seq(Nat)
        <3>1. heard[id] \in 1 .. Len(query.reports[id])
            BY DEF IsSnapshot
        <3> QED
            BY <1>3, <2>5, <3>1, ReportsAre
    <2>8. /\ stage.id = info.id /\ stage.subs = info.subs
          /\ stage.cpu = ParseDurationMs(report.cpu) /\ stage.scheduled = ParseDurationMs(report.scheduled)
          /\ stage.blocked = ParseDurationMs(report.blocked) /\ stage.read = ParseDurationMs(report.read)
          /\ stage.positions = report.positions /\ stage.bytes = report.bytes
          /\ stage.tasks = projectTaskStats(report.tasks)
          /\ stage.wait = deriveIOWait(stage)
        BY <2>3, <2>6, StageFactIs
    <2>9. /\ stage.cpu \in Nat /\ stage.scheduled \in Nat /\ stage.blocked \in Nat /\ stage.read \in Nat
        <3>1. \A us \in Nat : us <= us /\ ParseDurationMs(us) \in Nat
            BY WholeMs
        <3> QED
            BY <2>7, <2>8, <3>1
    <2>10. stage.wait.ms \in Nat
        BY <2>7, <2>8, <2>9, WaitIsNat
    <2>11. Measured(stage, report)
        BY <2>7, <2>8, <2>9, <2>10 DEF Measured
    <2> QED
        BY <2>1, <2>2, <2>4, <2>5, <2>8, <2>11
<1>10. \A k \in 1 .. n : stages[k].id \in DOMAIN query.plans
    BY <1>4, <1>5, <1>9 DEF InfosStand
<1>11. \A k, l \in 1 .. n : stages[k].id = stages[l].id => k = l
    BY <1>4, <1>5, <1>9 DEF InfosStand
<1>12. ASSUME NEW id \in DOMAIN query.plans
       PROVE  \E k \in 1 .. n : stages[k].id = id
    <2>1. PICK k \in 1 .. n : infos[k].id = id
        BY <1>4, <1>5 DEF InfosStand
    <2> QED
        BY <1>9, <2>1
<1>13. ASSUME query.listed = << >>, NEW k \in 1 .. n, NEW l \in 1 .. n, stages[l].id \in Range(stages[k].subs)
       PROVE  k < l
    <2>1. infos[l].id \in Range(infos[k].subs)
        BY <1>9, <1>13
    <2> QED
        BY <1>4, <1>5, <1>13, <2>1 DEF InfosStand
<1>14. IsFiniteSet(DOMAIN query.plans) /\ n = Cardinality(DOMAIN query.plans)
    BY <1>4, <1>5 DEF InfosStand
<1>15. StagesStand(stages, query, heard)
    BY <1>5, <1>8, <1>9, <1>10, <1>11, <1>12, <1>13, <1>14, Zenon DEF StagesStand
<1> QED
    BY <1>1, <1>6, <1>15


(***************************************************************************)
(* What is always known: every reply is a refusal or answers from what the *)
(* coordinator had said by some moment of the past.  That no report is     *)
(* older than another's is not part of it: the reports about stages arrive *)
(* one by one.                                                             *)
(***************************************************************************)
Precedes(status, heard, totals) ==
    /\ status \in {"RUNNING", state}
    /\ \A id \in DOMAIN workload.plans : heard[id] <= published[id]
    /\ totals <= counted

ReplyFromPast ==
    \/ reply = Refusal
    \/ \E status, heard, totals :
          /\ IsSnapshot(workload, status, heard, totals) /\ Precedes(status, heard, totals)
          /\ reply = AnswerTo(InfoOf(workload, status, heard, totals))

Inv ==
    /\ IsSnapshot(workload, state, published, counted)
    /\ ReplyFromPast

LEMMA AtFirst ==
    Init => Inv
<1> SUFFICES ASSUME Init
             PROVE  Inv
    OBVIOUS
<1>1. workload \in Workloads /\ state = "RUNNING" /\ counted = 1 /\ reply = Refusal
    BY DEF Init
<1>2. DOMAIN workload.reports = DOMAIN workload.plans
    BY <1>1, WorkloadsAssumption DEF StagesStandOnce
<1>3. DOMAIN published = DOMAIN workload.plans /\ \A id \in DOMAIN workload.plans : published[id] = 1
    BY <1>2 DEF Init
<1>4. ASSUME NEW reports, NEW counters, Cumulative(reports, counters)
      PROVE  1 \in 1 .. Len(reports)
    <2>1. reports \in Seq(Range(reports)) /\ reports # << >>
        BY <1>4 DEF Cumulative
    <2> QED
        BY <2>1, EmptySeq
<1>5. \A id \in DOMAIN workload.plans : published[id] \in 1 .. Len(workload.reports[id])
    <2>1. \A id \in DOMAIN workload.plans : Cumulative(workload.reports[id], Counters)
        BY <1>1, WorkloadsAssumption
    <2> QED
        BY <1>3, <1>4, <2>1
<1>6. counted \in 1 .. Len(workload.stats)
    <2>1. Cumulative(workload.stats, Statistics)
        BY <1>1, WorkloadsAssumption
    <2> QED
        BY <1>1, <1>4, <2>1
<1>7. IsSnapshot(workload, state, published, counted)
    BY <1>1, <1>3, <1>5, <1>6 DEF IsSnapshot
<1> QED
    BY <1>1, <1>7 DEF Inv, ReplyFromPast

LEMMA EachStep ==
    Inv /\ [Next]_vars => Inv'
<1> SUFFICES ASSUME Inv, [Next]_vars
             PROVE  Inv'
    OBVIOUS
<1>1. /\ workload \in Workloads /\ state \in {"RUNNING", "FINISHED", "FAILED"}
      /\ DOMAIN published = DOMAIN workload.plans
      /\ \A id \in DOMAIN workload.plans : published[id] \in 1 .. Len(workload.reports[id])
      /\ counted \in 1 .. Len(workload.stats)
    BY DEF Inv, IsSnapshot
<1>2. \A id \in DOMAIN workload.plans : published[id] \in Nat
    BY <1>1
<1>3. counted \in Nat
    BY <1>1
\* The coordinator goes on, the reply stays.
<1>4. ASSUME IsSnapshot(workload', state', published', counted'), workload' = workload, reply' = reply,
             state' = state \/ state = "RUNNING",
             \A id \in DOMAIN workload.plans : published'[id] \in Nat /\ published[id] <= published'[id],
             counted' \in Nat, counted <= counted'
      PROVE  Inv'
    <2>1. CASE reply = Refusal
        BY <1>4, <2>1 DEF Inv, ReplyFromPast
    <2>2. CASE reply # Refusal
        <3>1. PICK status, heard, totals :
                  /\ IsSnapshot(workload, status, heard, totals) /\ Precedes(status, heard, totals)
                  /\ reply = AnswerTo(InfoOf(workload, status, heard, totals))
            BY <2>2 DEF Inv, ReplyFromPast
        <3>2. (\A id \in DOMAIN workload.plans : heard[id] \in Nat) /\ totals \in Nat
            BY <3>1 DEF IsSnapshot
        <3>3. Precedes(status, heard, totals)'
            <4>1. status \in {"RUNNING", state'}
                BY <1>4, <3>1 DEF Precedes
            <4>2. \A id \in DOMAIN workload.plans : heard[id] <= published'[id]
                BY <1>2, <1>4, <3>1, <3>2 DEF Precedes
            <4>3. totals <= counted'
                BY <1>3, <1>4, <3>1, <3>2 DEF Precedes
            <4> QED
                BY <1>4, <4>1, <4>2, <4>3 DEF Precedes
        <3> QED
            BY <1>4, <3>1, <3>3 DEF Inv, ReplyFromPast
    <2> QED
        BY <2>1, <2>2
<1>5. ASSUME NEW id \in DOMAIN published, StageReports(id)
      PROVE  Inv'
    <2>1. /\ workload' = workload /\ state' = state /\ counted' = counted /\ reply' = reply
          /\ published[id] < Len(workload.reports[id])
          /\ published' = [published EXCEPT ![id] = @ + 1]
        BY <1>5 DEF StageReports
    <2>2. Len(workload.reports[id]) \in Nat
        <3>1. Cumulative(workload.reports[id], Counters)
            BY <1>1, WorkloadsAssumption
        <3> QED
            BY <3>1 DEF Cumulative
    <2>3. DOMAIN published' = DOMAIN published
        BY <2>1
    <2>4. \A i \in DOMAIN workload.plans : /\ published'[i] \in 1 .. Len(workload.reports[i])
                                           /\ published'[i] \in Nat /\ published[i] <= published'[i]
        BY <1>1, <1>2, <2>1, <2>2
    <2>5. IsSnapshot(workload', state', published', counted')
        BY <1>1, <2>1, <2>3, <2>4 DEF IsSnapshot
    <2> QED
        BY <1>3, <1>4, <2>1, <2>4, <2>5
<1>6. ASSUME QueryReports
      PROVE  Inv'
    <2>1. /\ workload' = workload /\ state' = state /\ published' = published /\ reply' = reply
          /\ counted < Len(workload.stats) /\ counted' = counted + 1
        BY <1>6 DEF QueryReports
    <2>2. Len(workload.stats) \in Nat
        <3>1. Cumulative(workload.stats, Statistics)
            BY <1>1, WorkloadsAssumption
        <3> QED
            BY <3>1 DEF Cumulative
    <2>3. counted' \in 1 .. Len(workload.stats) /\ counted' \in Nat /\ counted <= counted'
        BY <1>1, <2>1, <2>2
    <2>4. \A i \in DOMAIN workload.plans : published'[i] \in Nat /\ published[i] <= published'[i]
        BY <1>2, <2>1
    <2>5. IsSnapshot(workload', state', published', counted')
        BY <1>1, <2>1, <2>3 DEF IsSnapshot
    <2> QED
        BY <1>4, <2>1, <2>3, <2>4, <2>5
<1>7. ASSUME QueryEnds
      PROVE  Inv'
    <2>1. /\ workload' = workload /\ counted' = counted /\ published' = published /\ reply' = reply
          /\ state = "RUNNING" /\ state' \in {"FINISHED", "FAILED"}
        BY <1>7 DEF QueryEnds
    <2>2. \A i \in DOMAIN workload.plans : published'[i] \in Nat /\ published[i] <= published'[i]
        BY <1>2, <2>1
    <2>3. IsSnapshot(workload', state', published', counted')
        BY <1>1, <2>1 DEF IsSnapshot
    <2> QED
        BY <1>3, <1>4, <2>1, <2>2, <2>3
<1>8. ASSUME Analyze
      PROVE  Inv'
    <2>1. /\ workload' = workload /\ state' = state /\ published' = published /\ counted' = counted
          /\ reply' = AnswerTo(InfoOf(workload, state, published, counted))
        BY <1>8, AnalyzeAnswers DEF Analyze
    <2>2. IsSnapshot(workload', state', published', counted')
        BY <2>1 DEF Inv
    <2>3. PICK status, heard, totals : status = state /\ heard = published /\ totals = counted
        OBVIOUS
    <2>4. Precedes(status, heard, totals)'
        BY <1>2, <1>3, <2>1, <2>3 DEF Precedes
    <2>5. IsSnapshot(workload', status, heard, totals)
        BY <2>1, <2>3 DEF Inv
    <2>6. reply' = AnswerTo(InfoOf(workload', status, heard, totals))
        BY <2>1, <2>3
    <2> QED
        BY <2>2, <2>4, <2>5, <2>6 DEF Inv, ReplyFromPast
<1>9. ASSUME Refuse
      PROVE  Inv'
    <2>1. /\ workload' = workload /\ state' = state /\ published' = published /\ counted' = counted
          /\ reply' = Refusal
        BY <1>9 DEF Refuse
    <2>2. IsSnapshot(workload', state', published', counted')
        BY <2>1 DEF Inv
    <2> QED
        BY <2>1, <2>2 DEF Inv, ReplyFromPast
<1>10. ASSUME UNCHANGED vars
       PROVE  Inv'
    <2>1. /\ workload' = workload /\ state' = state /\ published' = published /\ counted' = counted
          /\ reply' = reply
        BY <1>10 DEF vars
    <2>2. IsSnapshot(workload', state', published', counted')
        BY <2>1 DEF Inv
    <2>3. \A i \in DOMAIN workload.plans : published'[i] \in Nat /\ published[i] <= published'[i]
        BY <1>2, <2>1
    <2> QED
        BY <1>3, <1>4, <2>1, <2>2, <2>3
<1> QED
    BY <1>5, <1>6, <1>7, <1>8, <1>9, <1>10 DEF Next

\* Every reply is a refusal, or answers from reports that have been made; none is
\* about a later state of the query than the coordinator's (analyze_query.go:52-70).
THEOREM RepliesAreFromThePast ==
    Spec => []Inv
<1>1. Init => Inv
    BY AtFirst
<1>2. Inv /\ [Next]_vars => Inv'
    BY EachStep
<1> QED
    BY <1>1, <1>2, PTL DEF Spec


(***************************************************************************)
(* Findings and types.                                                     *)
(***************************************************************************)
LEMMA AnswerIs ==
    ASSUME NEW qi, NEW answer, answer = AnswerTo(qi)
    PROVE  /\ answer.err = FALSE /\ answer.facts = FactsOf(qi)
           /\ FindingsOf(answer.facts, answer.findings)
           /\ answer.headline = buildHeadline(answer.facts, answer.findings)
<1>1. PICK facts : facts = FactsOf(qi)
    OBVIOUS
<1>2. PICK findings : findings = WorstFirst(Run(facts), DOMAIN Run(facts))
    OBVIOUS
<1>3. answer = [err |-> FALSE, headline |-> buildHeadline(facts, findings), findings |-> findings,
                facts |-> facts]
    BY <1>1, <1>2 DEF AnswerTo, Answer
<1>4. FindingsOf(facts, findings)
    BY <1>2, FindingsAre
<1> QED
    BY <1>1, <1>3, <1>4

LEMMA NothingThere ==
    /\ DOMAIN << >> = {} /\ Range(<< >>) = {}
    /\ Refusal.findings = << >> /\ Refusal.headline = << >> /\ Refusal.err = TRUE
    /\ Refusal.facts.state = "" /\ Refusal.facts.stages = << >> /\ Refusal.facts.scans = << >>
    /\ Refusal.facts.connectorIO = << >> /\ Refusal.facts.topIO = << >>
<1>1. DOMAIN << >> = {}
    BY EmptySeq
<1>2. Range(<< >>) = {}
    BY <1>1 DEF Range
<1> QED
    BY <1>1, <1>2 DEF Refusal, NoFacts

LEMMA LeadsAlways ==
    Inv => LeadsWithWorst /\ Len(reply.headline) <= 2
<1> SUFFICES ASSUME Inv
             PROVE  LeadsWithWorst /\ Len(reply.headline) <= 2
    OBVIOUS
<1>1. CASE reply = Refusal
    <2>1. Range(reply.findings) = {} /\ DOMAIN reply.findings = {} /\ reply.facts.state = ""
        BY <1>1, NothingThere
    <2>2. Len(reply.headline) <= 2
        <3>1. reply.headline = << >>
            BY <1>1, NothingThere
        <3>2. Len(<< >>) = 0
            OBVIOUS
        <3> QED
            BY <3>1, <3>2
    <2> QED
        BY <2>1, <2>2 DEF LeadsWithWorst, Facts
<1>2. CASE reply # Refusal
    <2>1. PICK qi : reply = AnswerTo(qi)
        BY <1>2 DEF Inv, ReplyFromPast
    <2>2. PICK facts, findings, headline :
              /\ facts = reply.facts /\ findings = reply.findings /\ headline = reply.headline
              /\ FindingsOf(facts, findings) /\ headline = buildHeadline(facts, findings)
        BY <2>1, AnswerIs
    <2>3. PICK named : named = {f \in Range(findings) : f.id \in Range(headline)}
        OBVIOUS
    <2>4. /\ \A f \in named, other \in Range(findings) \ named : Order(other.severity) <= Order(f.severity)
          /\ facts.state = "FAILED" => findings # << >> /\ findings[1].id = "failed"
          /\ \A k, l \in DOMAIN findings :
                k < l => Order(findings[k].severity) >= Order(findings[l].severity)
          /\ Len(headline) <= 2
        BY <2>2, <2>3, Leading
    <2> QED
        BY <2>2, <2>3, <2>4 DEF LeadsWithWorst, Facts
<1> QED
    BY <1>1, <1>2

\* What every analysis says comes worst first, and a failure leads it
\* (finding.go:35-37, engine.go:26-35, analyze_query.go:61-64 and 88-121).
THEOREM WorstLeads ==
    Spec => []LeadsWithWorst
BY RepliesAreFromThePast, LeadsAlways, PTL

\* The median task is between the fastest and the slowest (facts.go:525-527).
LEMMA TasksAre ==
    ASSUME NEW tasks \in Seq(Nat), NEW stats, stats = projectTaskStats(tasks)
    PROVE  stats.min <= stats.p50 /\ stats.p50 <= stats.max
<1>1. PICK n \in Nat : n = Len(tasks) /\ DOMAIN tasks = 1 .. n
    OBVIOUS
<1>2. PICK cpus : cpus = [k \in 1 .. n |-> ParseDurationMs(tasks[k])]
    OBVIOUS
<1>3. PICK fastest : fastest = Sorted(cpus, 1 .. n, <)
    OBVIOUS
<1>4. stats = IF n = 0 THEN [count |-> 0, min |-> 0, p50 |-> 0, max |-> 0]
              ELSE [count |-> n, min |-> cpus[fastest[1]], p50 |-> cpus[fastest[n \div 2 + 1]],
                    max |-> cpus[fastest[n]]]
    BY <1>1, <1>2, <1>3 DEF projectTaskStats
<1>5. CASE n = 0
    BY <1>4, <1>5
<1>6. CASE n # 0
    <2>1. \A k \in 1 .. n : cpus[k] \in Nat
        BY <1>1, <1>2, WholeMs
    <2>2. IsFiniteSet(1 .. n) /\ Cardinality(1 .. n) = n
        BY FS_Interval
    <2>3. Lists(fastest, 1 .. n, Behind(cpus, 1 .. n))
        <3>1. \A k \in 1 .. n : cpus[k] \in Int
            BY <2>1
        <3>2. 1 .. n \in SUBSET Int
            OBVIOUS
        <3> QED
            BY <1>3, <2>2, <3>1, <3>2, SmallestFirst
    <2>4. DOMAIN fastest = 1 .. n /\ \A r \in 1 .. n : fastest[r] \in 1 .. n
        BY <2>2, <2>3 DEF Lists
    <2>5. ASSUME NEW q \in 1 .. n, NEW r \in 1 .. n, q <= r
          PROVE  cpus[fastest[q]] <= cpus[fastest[r]]
        <3>1. PICK k, l \in 1 .. n : k = fastest[q] /\ l = fastest[r]
            BY <2>4
        <3>2. CASE q = r
            BY <2>1, <3>1, <3>2
        <3>3. CASE q < r
            <4>1. fastest[q] \in Behind(cpus, 1 .. n)[fastest[r]]
                BY <2>3, <2>4, <3>3 DEF Lists
            <4>2. cpus[k] < cpus[l] \/ ~(cpus[l] < cpus[k])
                BY <3>1, <4>1 DEF Behind
            <4> QED
                BY <2>1, <3>1, <4>2
        <3> QED
            BY <2>5, <3>2, <3>3
    <2>6. PICK middle \in 1 .. n : middle = n \div 2 + 1
        BY <1>6
    <2>7. 1 \in 1 .. n /\ n \in 1 .. n /\ 1 <= middle /\ middle <= n
        BY <1>6, <2>6
    <2>8. cpus[fastest[1]] <= cpus[fastest[middle]] /\ cpus[fastest[middle]] <= cpus[fastest[n]]
        BY <2>5, <2>7
    <2> QED
        BY <1>4, <1>6, <2>6, <2>8
<1> QED
    BY <1>5, <1>6

\* What the facts of a reply are.
Known(status, heard, totals) ==
    /\ IsSnapshot(workload, status, heard, totals) /\ Precedes(status, heard, totals)
    /\ reply = AnswerTo(InfoOf(workload, status, heard, totals))

LEMMA RepliesAre ==
    ASSUME Inv, reply # Refusal
    PROVE  \E status, heard, totals :
               /\ Known(status, heard, totals) /\ Answered
               /\ Facts.stages = StagesOf(InfoOf(workload, status, heard, totals))
               /\ StagesStand(Facts.stages, workload, heard)
<1>1. PICK status, heard, totals : Known(status, heard, totals)
    BY DEF Inv, ReplyFromPast, Known
<1>2. PICK qi : qi = InfoOf(workload, status, heard, totals)
    OBVIOUS
<1>3. reply = AnswerTo(qi) /\ IsSnapshot(workload, status, heard, totals)
    BY <1>1, <1>2 DEF Known
<1>4. Answered /\ Facts = FactsOf(qi)
    BY <1>3, AnswerIs DEF Answered, Facts
<1>5. Facts.stages = StagesOf(qi)
    BY <1>4, FactsAre
<1>6. StagesStand(Facts.stages, workload, heard)
    BY <1>2, <1>3, <1>5, StagesAre
<1> QED
    BY <1>1, <1>2, <1>4, <1>5, <1>6

LEMMA TypesAlways ==
    Inv => TypeOK
<1> SUFFICES ASSUME Inv
             PROVE  TypeOK
    OBVIOUS
<1>1. /\ workload \in Workloads /\ state \in {"RUNNING", "FINISHED", "FAILED"}
      /\ \A id \in DOMAIN published : published[id] \in 1 .. Len(workload.reports[id])
      /\ counted \in 1 .. Len(workload.stats)
    BY DEF Inv, IsSnapshot
<1>2. Len(reply.headline) <= 2
    BY LeadsAlways
<1>3. ASSUME NEW s \in Range(Facts.stages)
      PROVE  s.wait.ms \in Nat /\ s.tasks.min <= s.tasks.p50 /\ s.tasks.p50 <= s.tasks.max
    <2>1. reply # Refusal
        BY <1>3, NothingThere DEF Facts
    <2>2. PICK heard : StagesStand(Facts.stages, workload, heard)
        BY <2>1, RepliesAre
    <2>3. PICK k \in DOMAIN Facts.stages : s = Facts.stages[k]
        BY <1>3 DEF Range
    <2>4. PICK report : Measured(s, report)
        BY <2>2, <2>3 DEF StagesStand
    <2>5. s.wait.ms \in Nat /\ s.tasks = projectTaskStats(report.tasks) /\ report.tasks \in Seq(Nat)
        BY <2>4 DEF Measured
    <2> QED
        BY <2>5, TasksAre
<1> QED
    BY <1>1, <1>2, <1>3 DEF TypeOK

\* The types of the state, and of what the facts say of waits and tasks
\* (io_wait.go:63-69, facts.go:525-527).
THEOREM TypeCorrect ==
    Spec => []TypeOK
BY RepliesAreFromThePast, TypesAlways, PTL

LEMMA EveryStage ==
    Inv => EveryStageOnce
<1> SUFFICES ASSUME Inv, Answered
             PROVE  /\ Len(Facts.stages) = Cardinality(DOMAIN workload.plans)
                    /\ {s.id : s \in Range(Facts.stages)} = DOMAIN workload.plans
                    /\ \A k, l \in DOMAIN Facts.stages :
                          workload.listed = << >> /\ Facts.stages[l].id \in Range(Facts.stages[k].subs)
                              => k < l
    BY DEF EveryStageOnce
<1>1. reply # Refusal
    BY DEF Answered, Refusal
<1>2. PICK stages, heard : stages = Facts.stages /\ StagesStand(stages, workload, heard)
    BY <1>1, RepliesAre
<1>3. {s.id : s \in Range(stages)} = DOMAIN workload.plans
    BY <1>2 DEF StagesStand, Range
<1> QED
    BY <1>2, <1>3 DEF StagesStand

\* Whichever form the stages come in, each is among the facts exactly once and
\* behind the one it feeds (facts.go:391-437).
THEOREM StagesOnce ==
    Spec => []EveryStageOnce
BY RepliesAreFromThePast, EveryStage, PTL


(***************************************************************************)
(* Skew.                                                                   *)
(***************************************************************************)
\* The rounded average that lets the rule fire on a stage is more than half of the
\* exact one.
LEMMA FallbackIsReal ==
    ASSUME NEW n \in Nat, n >= 2, NEW stages, Len(stages) = n, DOMAIN stages = 1 .. n,
           \A k \in 1 .. n : stages[k].cpu \in Nat, StageFallback(stages)
    PROVE  2 * MaxCPU(stages) * Len(stages) > 5 * TotalCPU(stages)
<1>1. PICK cpus : cpus = [k \in 1 .. n |-> stages[k].cpu]
    OBVIOUS
<1>2. PICK total : total = TotalCPU(stages)
    OBVIOUS
<1>3. total \in Nat
    <2>1. total = SumFunctionOnSet(cpus, 1 .. n)
        BY <1>1, <1>2 DEF TotalCPU, SumOf, SumFunction
    <2>2. total = Sum(cpus, 1 .. n)
        BY <2>1, SumIs
    <2>3. IsFiniteSet(1 .. n) /\ \A k \in 1 .. n : cpus[k] \in Nat
        BY <1>1, FS_Interval
    <2> QED
        BY <2>2, <2>3, SumIsNat
<1>4. PICK most : most = MaxCPU(stages)
    OBVIOUS
<1>5. most \in Nat
    <2>1. PICK S : S = {0} \union {stages[k].cpu : k \in 1 .. n}
        OBVIOUS
    <2>2. most = Max(S)
        BY <1>4, <2>1 DEF MaxCPU, MaxOf
    <2>3. S \in SUBSET Nat /\ S # {}
        BY <2>1
    <2>4. IsFiniteSet(S)
        <3>1. PICK f : f = [k \in 0 .. n |-> IF k = 0 THEN 0 ELSE stages[k].cpu]
            OBVIOUS
        <3>2. IsFiniteSet(0 .. n)
            BY FS_Interval
        <3>3. f \in Surjection(0 .. n, S)
            BY <2>1, <3>1 DEF Surjection
        <3> QED
            BY <3>2, <3>3, FS_Surjection
    <2> QED
        BY <2>2, <2>3, <2>4, MaxOfFinite
<1>6. PICK avg \in Nat : avg = total \div n /\ avg > 0 /\ most >= 5 * avg /\ n * avg <= total /\ total < n * avg + n
    <2>1. /\ total \div n \in Nat /\ n * (total \div n) <= total /\ total < n * (total \div n) + n
        BY <1>3
    <2> QED
        BY <1>2, <1>4, <2>1 DEF StageFallback
<1>7. PICK p \in Nat : p = n * avg
    OBVIOUS
<1>8. n <= p
    BY <1>6, <1>7
<1>9. PICK q \in Nat : q = n * most
    BY <1>5
<1>10. 5 * p <= q
    BY <1>5, <1>6, <1>7, <1>9
<1>11. 2 * q > 5 * total
    BY <1>3, <1>6, <1>7, <1>8, <1>10
<1>12. 2 * most * n = 2 * q
    BY <1>5, <1>9
<1> QED
    BY <1>2, <1>4, <1>11, <1>12

LEMMA SkewAlways ==
    Inv => SkewIsReal
<1> SUFFICES ASSUME Inv, "stage-skew" \in {f.id : f \in Range(reply.findings)},
                    \A s \in Range(Facts.stages) : ~TaskSkewed(s)
             PROVE  2 * MaxCPU(Facts.stages) * Len(Facts.stages) > 5 * TotalCPU(Facts.stages)
    BY DEF SkewIsReal, FellBack
<1>1. reply # Refusal
    BY NothingThere
<1>2. PICK status, heard, totals, stages :
          /\ Known(status, heard, totals) /\ stages = Facts.stages /\ StagesStand(stages, workload, heard)
    BY <1>1, RepliesAre
<1>3. PICK facts, findings : facts = Facts /\ findings = reply.findings /\ FindingsOf(facts, findings)
    BY <1>2, AnswerIs DEF Known, Facts
<1>4. PICK rules : rules = DefaultEngine(facts)
    OBVIOUS
<1>5. PICK k \in 1 .. 19 : rules[k].fires /\ rules[k].id = "stage-skew"
    <2>1. PICK f \in Range(findings) : f.id = "stage-skew"
        BY <1>3
    <2>2. PICK r \in DOMAIN findings : f = findings[r]
        BY <2>1 DEF Range
    <2>3. PICK fired \in SUBSET (1 .. 19) :
              fired = {k \in 1 .. 19 : rules[k].fires} /\ HoldsWorstFirst(findings, rules, fired)
        BY <1>3, <1>4 DEF FindingsOf
    <2>4. PICK k \in fired : f = rules[k]
        BY <2>2, <2>3 DEF HoldsWorstFirst
    <2> QED
        BY <2>1, <2>3, <2>4
<1>6. StageSkew(facts)
    <2>1. RulesStand(rules, facts)
        BY <1>4, RulesAre
    <2>2. /\ \A i, j \in 1 .. 19 : rules[i].id = rules[j].id => i = j
          /\ rules[6].id = "stage-skew" /\ rules[6].fires = StageSkew(facts)
        BY <2>1 DEF RulesStand
    <2> QED
        BY <1>5, <2>2
<1>7. StageFallback(stages) /\ Len(stages) >= 2
    BY <1>2, <1>3, <1>6 DEF StageSkew, Facts
<1>8. PICK n \in Nat : n = Len(stages) /\ DOMAIN stages = 1 .. n
    BY <1>2 DEF StagesStand
<1>9. \A l \in 1 .. n : stages[l].cpu \in Nat
    BY <1>2, <1>8 DEF StagesStand, Measured
<1> QED
    BY <1>2, <1>7, <1>8, <1>9, FallbackIsReal

\* The rule on stage-level skew, which measures against an average in whole
\* milliseconds, never fires on less than two and a half times the exact one
\* (stage_skew.go:101).
THEOREM SkewsAreReal ==
    Spec => []SkewIsReal
BY RepliesAreFromThePast, SkewAlways, PTL


(***************************************************************************)
(* The list of the longest waits.                                          *)
(***************************************************************************)
LEMMA TopFactIs ==
    ASSUME NEW sf, NEW scans, NEW fact, fact = buildTopStageFact(sf, scans)
    PROVE  fact.stage = sf.id /\ fact.wait = sf.wait.ms
<1>1. PICK connector, table :
          fact = [stage |-> sf.id, wait |-> sf.wait.ms, cpu |-> sf.cpu, connector |-> connector, table |-> table]
    BY DEF buildTopStageFact
<1> QED
    BY <1>1

LEMMA ListIsHonest ==
    ASSUME NEW n \in Nat, NEW stages, Len(stages) = n, DOMAIN stages = 1 .. n,
           \A k \in 1 .. n : stages[k].wait.ms \in Nat,
           \A k, l \in 1 .. n : stages[k].id = stages[l].id => k = l,
           NEW scans, NEW top, top = buildTopIOStages(stages, scans)
    PROVE  LET listed == {e.stage : e \in Range(top)}
           IN  \A s \in Range(stages), e \in Range(top) :
                   s.id \notin listed => s.wait.ms <= e.wait /\ (s.wait.ms > 0 => Len(top) = TopStagesLimit)
<1>1. PICK amount : amount = [k \in 1 .. n |-> stages[k].wait.ms]
    OBVIOUS
<1>2. PICK S \in SUBSET (1 .. n) : S = {k \in 1 .. n : amount[k] # 0}
    OBVIOUS
<1>3. PICK ranked : ranked = Sorted(amount, S, >)
    OBVIOUS
<1>4. top = [k \in 1 .. Min({TopStagesLimit, Len(ranked)}) |-> buildTopStageFact(stages[ranked[k]], scans)]
    <2>1. top = TopStages(stages, scans, amount)
        BY <1>1 DEF buildTopIOStages
    <2>2. ranked = Sorted(amount, {k \in DOMAIN amount : amount[k] # 0}, >)
        BY <1>1, <1>2, <1>3
    <2> QED
        BY <2>1, <2>2, Zenon DEF TopStages
<1>5. IsFiniteSet(S) /\ S \in SUBSET Int
    <2>1. IsFiniteSet(1 .. n)
        BY FS_Interval
    <2>2. IsFiniteSet(S)
        BY <2>1, FS_Subset
    <2> QED
        BY <2>2
<1>6. \A k \in 1 .. n : amount[k] \in Nat
    BY <1>1
<1>7. PICK neg : neg = [k \in S |-> -amount[k]]
    OBVIOUS
<1>8. PICK before : before = Behind(neg, S)
    OBVIOUS
<1>9. Lists(ranked, S, before)
    <2>1. \A k \in S : amount[k] \in Int
        BY <1>6
    <2> QED
        BY <1>3, <1>5, <1>7, <1>8, <2>1, LargestFirst
<1>10. PICK m \in Nat : m = Cardinality(S) /\ DOMAIN ranked = 1 .. m
    BY <1>9 DEF Lists
<1>11. Len(ranked) = m
    BY <1>3, <1>10, SortedIsList
<1>12. PICK limit \in Nat : limit = Min({TopStagesLimit, m}) /\ limit <= m /\ (limit = m \/ limit = TopStagesLimit)
    <2>1. {TopStagesLimit, m} \in SUBSET Nat
        BY LimitsAssumption
    <2> QED
        BY <2>1, MinOf
<1>13. top = [k \in 1 .. limit |-> buildTopStageFact(stages[ranked[k]], scans)]
    BY <1>4, <1>11, <1>12
<1>14. Len(top) = limit /\ DOMAIN top = 1 .. limit
    <2>1. top = [k \in 1 .. limit |-> top[k]]
        BY <1>13
    <2> QED
        BY <2>1, SegmentIsSeq
<1>15. ASSUME NEW q \in 1 .. limit
       PROVE  /\ ranked[q] \in S /\ ranked[q] \in 1 .. n
              /\ top[q].stage = stages[ranked[q]].id /\ top[q].wait = amount[ranked[q]]
    <2>1. PICK k \in S : k = ranked[q]
        <3>1. q \in 1 .. m
            BY <1>12
        <3> QED
            BY <1>9, <1>10, <3>1 DEF Lists
    <2>2. top[q] = buildTopStageFact(stages[k], scans)
        BY <1>13, <2>1
    <2>3. top[q].stage = stages[k].id /\ top[q].wait = stages[k].wait.ms
        BY <2>2, TopFactIs
    <2> QED
        BY <1>1, <2>1, <2>3
<1>16. ASSUME NEW k \in 1 .. n, NEW q \in 1 .. limit, \A r \in 1 .. limit : stages[k].id # top[r].stage
       PROVE  amount[k] <= amount[ranked[q]] /\ (amount[k] > 0 => limit = TopStagesLimit)
    <2>1. CASE amount[k] = 0
        BY <1>6, <1>15, <2>1
    <2>2. CASE amount[k] # 0
        <3>1. k \in S
            BY <1>2, <2>2
        <3>2. PICK r \in 1 .. m : ranked[r] = k
            BY <1>9, <1>10, <3>1 DEF Lists
        <3>3. r \notin 1 .. limit
            BY <1>15, <1>16, <3>2
        <3>4. q < r /\ q \in 1 .. m /\ limit # m
            BY <1>12, <3>2, <3>3
        <3>5. PICK j \in S : j = ranked[q]
            BY <1>15
        <3>6. ranked[q] \in before[ranked[r]]
            BY <1>9, <1>10, <3>4 DEF Lists
        <3>7. j \in before[k]
            BY <3>2, <3>5, <3>6
        <3>8. neg[j] < neg[k] \/ ~(neg[k] < neg[j])
            BY <1>8, <3>1, <3>7 DEF Behind
        <3>9. neg[j] = -amount[j] /\ neg[k] = -amount[k] /\ amount[j] \in Nat /\ amount[k] \in Nat
            BY <1>6, <1>7, <3>1, <3>5
        <3> QED
            BY <1>12, <3>4, <3>5, <3>8, <3>9
    <2> QED
        BY <2>1, <2>2
<1>17. SUFFICES ASSUME NEW s \in Range(stages), NEW e \in Range(top), s.id \notin {x.stage : x \in Range(top)}
                PROVE  s.wait.ms <= e.wait /\ (s.wait.ms > 0 => Len(top) = TopStagesLimit)
    OBVIOUS
<1>18. PICK k \in 1 .. n : s = stages[k]
    BY DEF Range
<1>19. PICK q \in 1 .. limit : e = top[q]
    BY <1>14 DEF Range
<1>20. \A r \in 1 .. limit : stages[k].id # top[r].stage
    <2>1. \A r \in 1 .. limit : top[r] \in Range(top)
        BY <1>14 DEF Range
    <2> QED
        BY <1>17, <1>18, <2>1
<1> QED
    BY <1>1, <1>14, <1>15, <1>16, <1>18, <1>19, <1>20

LEMMA ListAlways ==
    Inv => NoStageOutwaitsTheList
<1> SUFFICES ASSUME Inv
             PROVE  NoStageOutwaitsTheList
    OBVIOUS
<1>1. CASE reply = Refusal
    <2>1. Range(Facts.topIO) = {} /\ Range(Facts.stages) = {}
        BY <1>1, NothingThere DEF Facts
    <2> QED
        BY <2>1 DEF NoStageOutwaitsTheList
<1>2. CASE reply # Refusal
    <2>1. PICK status, heard, totals, stages :
              /\ Known(status, heard, totals) /\ stages = Facts.stages /\ StagesStand(stages, workload, heard)
        BY <1>2, RepliesAre
    <2>2. PICK scans, top : top = Facts.topIO /\ top = buildTopIOStages(stages, scans)
        <3>1. PICK qi : qi = InfoOf(workload, status, heard, totals)
            OBVIOUS
        <3>2. Facts = FactsOf(qi)
            BY <2>1, <3>1, AnswerIs DEF Known, Facts
        <3>3. Facts.topIO = buildTopIOStages(StagesOf(qi), ScansIn(StagesOf(qi))) /\ Facts.stages = StagesOf(qi)
            BY <3>2, FactsAre
        <3>4. PICK scans : scans = ScansIn(stages)
            OBVIOUS
        <3> QED
            BY <2>1, <3>3, <3>4
    <2>3. PICK n \in Nat : n = Len(stages) /\ DOMAIN stages = 1 .. n
        BY <2>1 DEF StagesStand
    <2>4. /\ \A k \in 1 .. n : stages[k].wait.ms \in Nat
          /\ \A k, l \in 1 .. n : stages[k].id = stages[l].id => k = l
        BY <2>1, <2>3, StagesAreMeasured
    <2>5. PICK listed : listed = {e.stage : e \in Range(top)}
        OBVIOUS
    <2>6. \A s \in Range(stages), e \in Range(top) :
              s.id \notin listed => s.wait.ms <= e.wait /\ (s.wait.ms > 0 => Len(top) = TopStagesLimit)
        BY <2>2, <2>3, <2>4, <2>5, ListIsHonest
    <2> QED
        BY <2>1, <2>2, <2>5, <2>6 DEF NoStageOutwaitsTheList
<1> QED
    BY <1>1, <1>2

\* No stage left off the list of the longest waits waited longer than one on it
\* (io_wait.go:133-150).
THEOREM ListsAreHonest ==
    Spec => []NoStageOutwaitsTheList
BY RepliesAreFromThePast, ListAlways, PTL


(***************************************************************************)
(* Later analyses.                                                         *)
(***************************************************************************)
LEMMA ReportsGrow ==
    ASSUME NEW query \in Workloads, NEW id \in DOMAIN query.plans,
           NEW k \in 1 .. Len(query.reports[id]), NEW l \in 1 .. Len(query.reports[id]), k <= l
    PROVE  LET early == query.reports[id][k]
               late == query.reports[id][l]
           IN  /\ early.read \in Nat /\ late.read \in Nat /\ early.read <= late.read
               /\ early.positions \in Nat /\ late.positions \in Nat /\ early.positions <= late.positions
<1>1. PICK reports : reports = query.reports[id]
    OBVIOUS
<1>2. Cumulative(reports, Counters)
    BY <1>1, WorkloadsAssumption
<1>3. PICK n \in Nat : n = Len(reports) /\ DOMAIN reports = 1 .. n
    BY <1>2 DEF Cumulative
<1>4. k \in 1 .. n /\ l \in k .. n /\ l \in 1 .. n
    BY <1>1, <1>3
<1>5. \A m \in Counters : reports[k][m] \in Nat /\ reports[l][m] \in Nat /\ reports[k][m] <= reports[l][m]
    BY <1>2, <1>3, <1>4 DEF Cumulative
<1> QED
    BY <1>1, <1>5 DEF Counters

LEMMA WaitKindOf ==
    ASSUME NEW stage, stage.wait = deriveIOWait(stage), stage.read \in Nat, stage.positions \in Nat
    PROVE  Certainty(stage.wait.kind) = IF stage.read > 0 THEN 3 ELSE IF stage.positions > 0 THEN 2 ELSE 1
BY DEF deriveIOWait, Certainty

LEMMA KindAdvances ==
    ASSUME NEW query \in Workloads, NEW heard, NEW later,
           \A id \in DOMAIN query.plans : /\ heard[id] \in 1 .. Len(query.reports[id])
                                          /\ later[id] \in 1 .. Len(query.reports[id])
                                          /\ heard[id] <= later[id],
           NEW stages, StagesStand(stages, query, heard), NEW next, StagesStand(next, query, later),
           NEW s \in Range(stages), NEW t \in Range(next), s.id = t.id
    PROVE  Certainty(s.wait.kind) <= Certainty(t.wait.kind)
<1>1. PICK k \in DOMAIN stages : s = stages[k]
    BY DEF Range
<1>2. PICK l \in DOMAIN next : t = next[l]
    BY DEF Range
<1>3. PICK id \in DOMAIN query.plans : id = s.id /\ id = t.id
    BY <1>1 DEF StagesStand
<1>4. PICK early, late : early = query.reports[id][heard[id]] /\ late = query.reports[id][later[id]]
    OBVIOUS
<1>5. Measured(s, early) /\ Measured(t, late)
    BY <1>1, <1>2, <1>3, <1>4 DEF StagesStand
<1>6. /\ early.read \in Nat /\ late.read \in Nat /\ early.read <= late.read
      /\ early.positions \in Nat /\ late.positions \in Nat /\ early.positions <= late.positions
    BY <1>3, <1>4, ReportsGrow
<1>7. /\ s.read = ParseDurationMs(early.read) /\ t.read = ParseDurationMs(late.read)
      /\ s.positions = early.positions /\ t.positions = late.positions
      /\ s.read \in Nat /\ t.read \in Nat /\ s.positions \in Nat /\ t.positions \in Nat
      /\ s.wait = deriveIOWait(s) /\ t.wait = deriveIOWait(t)
    BY <1>5 DEF Measured
<1>8. s.read <= t.read
    BY <1>6, <1>7, WholeMs
<1>9. Certainty(s.wait.kind) = IF s.read > 0 THEN 3 ELSE IF s.positions > 0 THEN 2 ELSE 1
    BY <1>7, WaitKindOf
<1>10. Certainty(t.wait.kind) = IF t.read > 0 THEN 3 ELSE IF t.positions > 0 THEN 2 ELSE 1
    BY <1>7, WaitKindOf
<1> QED
    BY <1>6, <1>7, <1>8, <1>9, <1>10

\* What a step tells of two analyses: the later one is the same, or answers from
\* all that has been reported.
LEMMA TwoReplies ==
    ASSUME Inv, [Next]_vars, Again
    PROVE  \/ reply' = reply
           \/ /\ workload' = workload
              /\ \E status, heard, totals :
                    Known(status, heard, totals) /\ reply' = AnswerTo(InfoOf(workload, state, published, counted))
<1>1. reply # Refusal
    BY NothingThere DEF Again, Answered
<1>2. PICK status, heard, totals : Known(status, heard, totals)
    BY <1>1, RepliesAre
<1>3. CASE Analyze
    BY <1>2, <1>3, AnalyzeAnswers DEF Analyze
<1>4. CASE Refuse
    BY <1>4, NothingThere DEF Refuse, Again
<1>5. CASE ~Analyze /\ ~Refuse
    <2>1. reply' = reply
        BY <1>5 DEF Next, StageReports, QueryReports, QueryEnds, vars
    <2> QED
        BY <2>1
<1> QED
    BY <1>3, <1>4, <1>5

LEMMA KindStep ==
    Inv /\ [Next]_vars => WaitKindStep
<1> SUFFICES ASSUME Inv, [Next]_vars, Again,
                    NEW s \in Range(Facts.stages), NEW t \in Range(reply'.facts.stages), s.id = t.id
             PROVE  Certainty(s.wait.kind) <= Certainty(t.wait.kind)
    BY DEF WaitKindStep
<1>1. reply # Refusal
    BY NothingThere DEF Again, Answered
<1>2. IsSnapshot(workload, state, published, counted)
    BY DEF Inv
<1>3. CASE reply' = reply
    <2>1. PICK stages, heard : stages = Facts.stages /\ StagesStand(stages, workload, heard)
        BY <1>1, RepliesAre
    <2>2. s \in Range(stages) /\ t \in Range(stages)
        BY <1>3, <2>1 DEF Facts
    <2>3. PICK k, l \in DOMAIN stages : s = stages[k] /\ t = stages[l]
        BY <2>2 DEF Range
    <2>4. s = t
        BY <2>1, <2>3 DEF StagesStand
    <2>5. PICK report : Measured(s, report)
        BY <2>1, <2>3 DEF StagesStand
    <2>6. Certainty(s.wait.kind) \in Int
        <3>1. Certainty(s.wait.kind) = IF s.read > 0 THEN 3 ELSE IF s.positions > 0 THEN 2 ELSE 1
            BY <2>5, WaitKindOf DEF Measured
        <3> QED
            BY <3>1
    <2> QED
        BY <2>4, <2>6
<1>4. CASE reply' # reply
    <2>1. PICK status, heard, totals :
              /\ Known(status, heard, totals)
              /\ reply' = AnswerTo(InfoOf(workload, state, published, counted))
        BY <1>4, TwoReplies
    <2>2. PICK stages : stages = Facts.stages /\ StagesStand(stages, workload, heard)
        <3>1. PICK qi : qi = InfoOf(workload, status, heard, totals)
            OBVIOUS
        <3>2. Facts = FactsOf(qi)
            BY <2>1, <3>1, AnswerIs DEF Known, Facts
        <3>3. Facts.stages = StagesOf(qi)
            BY <3>2, FactsAre
        <3> QED
            BY <2>1, <3>1, <3>3, StagesAre DEF Known
    <2>3. PICK next : next = reply'.facts.stages /\ StagesStand(next, workload, published)
        <3>1. PICK qi : qi = InfoOf(workload, state, published, counted)
            OBVIOUS
        <3>2. PICK answer : answer = reply'
            OBVIOUS
        <3>3. answer.facts = FactsOf(qi)
            BY <2>1, <3>1, <3>2, AnswerIs
        <3>4. answer.facts.stages = StagesOf(qi)
            BY <3>3, FactsAre
        <3> QED
            BY <1>2, <3>1, <3>2, <3>4, StagesAre
    <2>4. workload \in Workloads
        BY <1>2 DEF IsSnapshot
    <2>5. \A id \in DOMAIN workload.plans : /\ heard[id] \in 1 .. Len(workload.reports[id])
                                            /\ published[id] \in 1 .. Len(workload.reports[id])
                                            /\ heard[id] <= published[id]
        BY <1>2, <2>1 DEF Known, IsSnapshot, Precedes
    <2>6. PICK heardNow : heardNow = published
        OBVIOUS
    <2> QED
        BY <2>2, <2>3, <2>4, <2>5, KindAdvances
<1> QED
    BY <1>3, <1>4

\* A stage once timed by its connector is never timed by a proxy again
\* (io_wait.go:48-58).
THEOREM WaitsAdvance ==
    Spec => WaitKindAdvances
<1>1. Inv /\ [Next]_vars => WaitKindStep
    BY KindStep
<1>2. Inv /\ UNCHANGED vars => WaitKindStep
    BY <1>1
<1> QED
    BY <1>1, <1>2, RepliesAreFromThePast, PTL DEF Spec, WaitKindAdvances


(***************************************************************************)
(* Lists of lists.                                                         *)
(***************************************************************************)
Joins(g, seqs, n) == g = [i \in 1 .. n |-> IF i = 1 THEN seqs[i] ELSE g[i - 1] \o seqs[i]]

LEMMA JoinsExist ==
    ASSUME NEW seqs, NEW n \in Nat
    PROVE  \E g : Joins(g, seqs, n)
<1> SUFFICES ASSUME ~\E g : Joins(g, seqs, n)
             PROVE  FALSE
    OBVIOUS
<1>1. PICK bad \in SUBSET Nat : bad = {m \in Nat : ~\E g : Joins(g, seqs, m)}
    OBVIOUS
<1>2. bad # {}
    BY <1>1
<1>3. PICK m \in bad : \A k \in bad : m <= k
    BY <1>2, LeastOf
<1>4. m \in Nat /\ ~\E g : Joins(g, seqs, m)
    BY <1>1, <1>3
<1>5. CASE m = 0
    <2>1. PICK g : g = [i \in 1 .. 0 |-> 0]
        OBVIOUS
    <2>2. Joins(g, seqs, 0)
        BY <2>1 DEF Joins
    <2> QED
        BY <1>4, <1>5, <2>2
<1>6. CASE m # 0
    <2>1. PICK l \in Nat : m = l + 1
        BY <1>4, <1>6
    <2>2. l \notin bad
        BY <1>3, <2>1
    <2>3. PICK g : Joins(g, seqs, l)
        BY <1>1, <2>2
    <2>4. PICK h : h = [i \in 1 .. m |-> IF i = m THEN (IF i = 1 THEN seqs[i] ELSE g[l] \o seqs[i]) ELSE g[i]]
        OBVIOUS
    <2>5. ASSUME NEW i \in 1 .. m
          PROVE  h[i] = IF i = 1 THEN seqs[i] ELSE h[i - 1] \o seqs[i]
        <3>1. CASE i = m
            <4>1. CASE i = 1
                BY <2>4, <3>1, <4>1
            <4>2. CASE i # 1
                <5>1. i - 1 = l /\ l \in 1 .. m /\ l # m
                    BY <2>1, <3>1, <4>2
                <5>2. h[l] = g[l]
                    BY <2>4, <5>1
                <5> QED
                    BY <2>4, <3>1, <4>2, <5>1, <5>2
            <4> QED
                BY <4>1, <4>2
        <3>2. CASE i # m
            <4>1. i \in 1 .. l /\ h[i] = g[i]
                BY <2>1, <2>4, <3>2
            <4>2. g[i] = IF i = 1 THEN seqs[i] ELSE g[i - 1] \o seqs[i]
                BY <2>3, <4>1 DEF Joins
            <4>3. i # 1 => h[i - 1] = g[i - 1]
                BY <2>1, <2>4, <4>1
            <4> QED
                BY <4>1, <4>2, <4>3
        <3> QED
            BY <3>1, <3>2
    <2>6. Joins(h, seqs, m)
        BY <2>4, <2>5 DEF Joins
    <2> QED
        BY <1>4, <2>6
<1> QED
    BY <1>5, <1>6

\* flat holds the first n of seqs one after the other, the k-th behind start[k].
Joined(flat, start, seqs, n, S) ==
    /\ flat \in Seq(S)
    /\ start \in [1 .. n -> Nat]
    /\ \A k \in 1 .. n : /\ start[k] + Len(seqs[k]) <= Len(flat)
                         /\ \A j \in 1 .. Len(seqs[k]) : flat[start[k] + j] = seqs[k][j]
    /\ \A k, l \in 1 .. n : k < l => start[k] + Len(seqs[k]) <= start[l]
    /\ \A i \in 1 .. Len(flat) : \E k \in 1 .. n : \E j \in 1 .. Len(seqs[k]) : i = start[k] + j

LEMMA JoinOne ==
    ASSUME NEW S, NEW n \in Nat, NEW seqs, \A k \in 1 .. n + 1 : seqs[k] \in Seq(S),
           NEW flat, NEW start, Joined(flat, start, seqs, n, S),
           NEW more, more = flat \o seqs[n + 1]
    PROVE  \E begin : Joined(more, begin, seqs, n + 1, S)
<1>1. PICK last \in Seq(S) : last = seqs[n + 1]
    OBVIOUS
<1>2. flat \in Seq(S) /\ start \in [1 .. n -> Nat]
    BY DEF Joined
<1>3. PICK a, b \in Nat : a = Len(flat) /\ b = Len(last)
    BY <1>2
<1>4. more \in Seq(S) /\ Len(more) = a + b
    BY <1>1, <1>2, <1>3, ConcatProperties
<1>5. \A i \in 1 .. a + b : more[i] = IF i <= a THEN flat[i] ELSE last[i - a]
    BY <1>1, <1>2, <1>3, ConcatProperties
<1>6. PICK begin : begin = [k \in 1 .. n + 1 |-> IF k = n + 1 THEN a ELSE start[k]]
    OBVIOUS
<1>7. begin \in [1 .. n + 1 -> Nat]
    BY <1>2, <1>3, <1>6
<1>8. \A k \in 1 .. n : /\ begin[k] = start[k] /\ start[k] \in Nat /\ Len(seqs[k]) \in Nat
                        /\ start[k] + Len(seqs[k]) <= a
                        /\ \A j \in 1 .. Len(seqs[k]) : flat[start[k] + j] = seqs[k][j]
    BY <1>2, <1>3, <1>6 DEF Joined
<1>9. begin[n + 1] = a
    BY <1>6
<1>10. ASSUME NEW k \in 1 .. n + 1
       PROVE  /\ begin[k] + Len(seqs[k]) <= Len(more)
              /\ \A j \in 1 .. Len(seqs[k]) : more[begin[k] + j] = seqs[k][j]
    <2>1. CASE k = n + 1
        <3>1. ASSUME NEW j \in 1 .. b
              PROVE  more[a + j] = last[j]
            <4>1. a + j \in 1 .. a + b /\ ~(a + j <= a) /\ (a + j) - a = j
                BY <1>3
            <4>2. more[a + j] = last[(a + j) - a]
                BY <1>5, <4>1
            <4> QED
                BY <4>1, <4>2
        <3>2. begin[k] = a /\ seqs[k] = last /\ Len(seqs[k]) = b
            BY <1>1, <1>3, <1>9, <2>1
        <3>3. begin[k] + Len(seqs[k]) <= Len(more)
            BY <1>3, <1>4, <3>2
        <3>4. \A j \in 1 .. Len(seqs[k]) : more[begin[k] + j] = seqs[k][j]
            BY <3>1, <3>2
        <3> QED
            BY <3>3, <3>4
    <2>2. CASE k # n + 1
        <3>0. k \in 1 .. n
            BY <2>2
        <3>1. PICK s, m \in Nat : s = start[k] /\ m = Len(seqs[k])
            BY <1>8, <3>0
        <3>2. \A j \in 1 .. m : flat[s + j] = seqs[k][j]
            BY <1>8, <3>0, <3>1
        <3>6. s + m <= a /\ begin[k] = s
            BY <1>8, <3>0, <3>1
        <3>3. ASSUME NEW j \in 1 .. m
              PROVE  more[s + j] = flat[s + j]
            <4>1. s + j \in 1 .. a + b /\ s + j <= a
                <5>1. s \in Nat /\ m \in Nat /\ a \in Nat /\ b \in Nat /\ s + m <= a
                    BY <1>3, <3>1, <3>6
                <5> QED
                    BY <5>1
            <4> QED
                BY <1>5, <4>1
        <3>4. s + m <= a + b
            BY <1>3, <3>1, <3>6
        <3>5. \A j \in 1 .. Len(seqs[k]) : more[begin[k] + j] = seqs[k][j]
            BY <3>1, <3>2, <3>3, <3>6
        <3> QED
            BY <1>4, <3>1, <3>4, <3>5, <3>6
    <2> QED
        BY <2>1, <2>2
<1>11. ASSUME NEW k \in 1 .. n + 1, NEW l \in 1 .. n + 1, k < l
       PROVE  begin[k] + Len(seqs[k]) <= begin[l]
    <2>1. k \in 1 .. n
        BY <1>11
    <2>2. CASE l = n + 1
        BY <1>8, <1>9, <2>1, <2>2
    <2>3. CASE l # n + 1
        <3>1. l \in 1 .. n
            BY <2>3
        <3>2. start[k] + Len(seqs[k]) <= start[l]
            BY <1>11, <2>1, <3>1 DEF Joined
        <3>3. begin[k] = start[k] /\ begin[l] = start[l]
            BY <1>8, <2>1, <3>1
        <3> QED
            BY <3>2, <3>3
    <2> QED
        BY <2>2, <2>3
<1>12. ASSUME NEW i \in 1 .. a + b
       PROVE  \E k \in 1 .. n + 1 : \E j \in 1 .. Len(seqs[k]) : i = begin[k] + j
    <2>1. CASE i <= a
        <3>1. PICK k \in 1 .. n : \E j \in 1 .. Len(seqs[k]) : i = start[k] + j
            BY <1>3, <2>1 DEF Joined
        <3>2. k \in 1 .. n + 1 /\ begin[k] = start[k]
            BY <1>8
        <3> QED
            BY <3>1, <3>2
    <2>2. CASE i > a
        <3>1. i - a \in 1 .. b /\ i = a + (i - a)
            BY <1>3, <2>2
        <3>2. n + 1 \in 1 .. n + 1 /\ begin[n + 1] = a /\ Len(seqs[n + 1]) = b
            BY <1>1, <1>3, <1>9
        <3> QED
            BY <3>1, <3>2
    <2> QED
        BY <1>3, <2>1, <2>2
<1>13. \A i \in 1 .. Len(more) : \E k \in 1 .. n + 1 : \E j \in 1 .. Len(seqs[k]) : i = begin[k] + j
    BY <1>4, <1>12
<1>14. Joined(more, begin, seqs, n + 1, S)
    BY <1>4, <1>7, <1>10, <1>11, <1>13, Zenon DEF Joined
<1> QED
    BY <1>14


LEMMA JoinNone ==
    ASSUME NEW S, NEW seqs, NEW flat \in Seq(S), Len(flat) = 0
    PROVE  \E start : Joined(flat, start, seqs, 0, S)
<1>1. PICK start : start = [k \in 1 .. 0 |-> 0]
    OBVIOUS
<1>2. start \in [1 .. 0 -> Nat]
    BY <1>1
<1>3. Joined(flat, start, seqs, 0, S)
    BY <1>2 DEF Joined
<1> QED
    BY <1>3

IsJoin(flat, seqs, n, S) == \E start : Joined(flat, start, seqs, n, S)

LEMMA Flattening ==
    ASSUME NEW S, NEW n \in Nat, NEW seqs, seqs = [k \in 1 .. n |-> seqs[k]], \A k \in 1 .. n : seqs[k] \in Seq(S),
           NEW flat, flat = FlattenSeq(seqs)
    PROVE  \E start : Joined(flat, start, seqs, n, S)
<1>1. Len(seqs) = n
    BY SegmentLength
<1>2. CASE n = 0
    <2>1. flat = seqs
        BY <1>1, <1>2 DEF FlattenSeq
    <2>2. flat \in Seq(S) /\ Len(flat) = 0
        <3>1. n \in Nat /\ \A k \in 1 .. n : seqs[k] \in Seq(S)
            OBVIOUS
        <3>2. seqs = [k \in 1 .. 0 |-> seqs[k]] /\ \A k \in 1 .. 0 : seqs[k] \in S
            BY <1>2
        <3>3. seqs \in Seq(S) /\ Len(seqs) = 0
            BY <3>2, SegmentIsSeq
        <3> QED
            BY <2>1, <3>3
    <2> QED
        BY <1>2, <2>2, JoinNone
<1>3. CASE n # 0
    <2>1. PICK g : Joins(g, seqs, n) /\ flat = g[n]
        BY <1>1, <1>3, JoinsExist DEF FlattenSeq, Joins
    <2>2. \A m \in 1 .. n : g[m] = IF m = 1 THEN seqs[m] ELSE g[m - 1] \o seqs[m]
        BY <2>1 DEF Joins
    <2>3. PICK bad \in SUBSET Nat : bad = {m \in Nat : 1 <= m /\ m <= n /\ ~IsJoin(g[m], seqs, m, S)}
        OBVIOUS
    <2>4. ASSUME bad # {}
          PROVE  FALSE
        <3>1. PICK m \in bad : \A k \in bad : m <= k
            BY <2>4, LeastOf
        <3>2. m \in Nat /\ m \in 1 .. n /\ ~IsJoin(g[m], seqs, m, S)
            BY <2>3, <3>1
        <3>3. PICK l \in Nat : m = l + 1
            <4>1. m - 1 \in Nat /\ m = (m - 1) + 1
                BY <3>2
            <4> QED
                BY <4>1
        <3>4. \A k \in 1 .. l + 1 : seqs[k] \in Seq(S)
            BY <3>2, <3>3
        <3>5. CASE l = 0
            <4>1. g[m] = seqs[1] /\ seqs[1] \in Seq(S)
                BY <2>2, <3>2, <3>3, <3>4, <3>5
            <4>2. g[m] = << >> \o seqs[l + 1]
                BY <3>5, <4>1, ConcatEmptySeq
            <4>3. PICK start : Joined(<< >>, start, seqs, l, S)
                BY <3>5, EmptySeq, JoinNone
            <4> QED
                BY <3>2, <3>3, <3>4, <4>2, <4>3, JoinOne DEF IsJoin
        <3>6. CASE l # 0
            <4>1. l \in 1 .. n /\ l \notin bad
                BY <3>1, <3>2, <3>3, <3>6
            <4>2. PICK start : Joined(g[l], start, seqs, l, S)
                <5>1. IsJoin(g[l], seqs, l, S)
                    BY <2>3, <4>1
                <5> QED
                    BY <5>1 DEF IsJoin
            <4>3. g[m] = g[l] \o seqs[l + 1]
                <5>1. m # 1 /\ m - 1 = l
                    BY <3>3, <3>6
                <5> QED
                    BY <2>2, <3>2, <3>3, <5>1
            <4> QED
                BY <3>2, <3>3, <3>4, <4>2, <4>3, JoinOne DEF IsJoin
        <3> QED
            BY <3>5, <3>6
    <2>5. n \in Nat /\ 1 <= n /\ n <= n /\ n \notin bad
        BY <1>3, <2>4
    <2>6. IsJoin(g[n], seqs, n, S)
        BY <2>3, <2>5
    <2> QED
        BY <2>1, <2>6 DEF IsJoin
<1> QED
    BY <1>2, <1>3


(***************************************************************************)
(* Connectors.                                                             *)
(***************************************************************************)
\* An entry that tells its connector, one that tells its table.
Sourced(e) == e.connector # ""
OfNamedTable(e) == e.table.name # ""

EntryAt(tables, k, n) ==
    [stage |-> k, node |-> n, connector |-> tables[n].connector, table |-> tables[n].table]

EntriesOf(tables, k) == {EntryAt(tables, k, n) : n \in DOMAIN tables}

LEMMA EntriesAre ==
    ASSUME NEW infos, NEW e
    PROVE  e \in NamedEntries(infos) <=>
               /\ Sourced(e)
               /\ \E k \in DOMAIN infos : e \in EntriesOf(infos[k].tables, k)
<1>1. NamedEntries(infos) =
          {x \in UNION {EntriesOf(infos[k].tables, k) : k \in DOMAIN infos} : Sourced(x)}
    BY DEF NamedEntries, EntriesOf, EntryAt, Sourced
<1> QED
    BY <1>1

\* What a report says of plan and tables does not change.
Planned(info, query) ==
    \E id \in DOMAIN query.plans :
        info.id = id /\ info.plan = query.plans[id].plan /\ info.tables = query.plans[id].tables

LEMMA PlansStand ==
    ASSUME NEW query \in Workloads, NEW heard, NEW infos, InfosStand(infos, query, heard), NEW k \in DOMAIN infos
    PROVE  Planned(infos[k], query)
<1>1. PICK info, id : info = infos[k] /\ id = info.id
    OBVIOUS
<1>2. id \in DOMAIN query.plans /\ info = [Reported(query, id, heard) EXCEPT !.subs = info.subs]
    BY <1>1 DEF InfosStand
<1>3. PICK said, subs : said = Reported(query, id, heard) /\ info = [said EXCEPT !.subs = subs]
    BY <1>2
<1>4. /\ said.plan = query.plans[id].plan /\ said.tables = query.plans[id].tables
      /\ DOMAIN said = {"id", "subs", "plan", "tables", "cpu", "scheduled", "blocked", "read",
                        "positions", "bytes", "ops", "tasks"}
    BY <1>3 DEF Reported
<1>5. info.plan = query.plans[id].plan /\ info.tables = query.plans[id].tables
    BY <1>3, <1>4
<1> QED
    BY <1>1, <1>2, <1>5 DEF Planned

\* An entry is one of the tables that Trino names for a stage.
NamedIn(x, query) ==
    \E id \in DOMAIN query.plans : \E n \in DOMAIN query.plans[id].tables :
        /\ x.node = n /\ x.connector = query.plans[id].tables[n].connector
        /\ x.table = query.plans[id].tables[n].table

LEMMA EntryStands ==
    ASSUME NEW query \in Workloads, NEW heard, NEW infos, InfosStand(infos, query, heard),
           NEW x \in NamedEntries(infos)
    PROVE  /\ x.stage \in DOMAIN infos /\ Sourced(x)
           /\ NamedIn(x, query)
<1>1. PICK k \in DOMAIN infos : x \in EntriesOf(infos[k].tables, k)
    BY EntriesAre
<1>2. PICK tables : tables = infos[k].tables
    OBVIOUS
<1>3. PICK n \in DOMAIN tables :
          x = [stage |-> k, node |-> n, connector |-> tables[n].connector, table |-> tables[n].table]
    BY <1>1, <1>2 DEF EntriesOf, EntryAt
<1>4. PICK id \in DOMAIN query.plans : tables = query.plans[id].tables
    <2>1. Planned(infos[k], query)
        BY PlansStand
    <2> QED
        BY <1>2, <2>1 DEF Planned
<1>5. Sourced(x)
    BY EntriesAre
<1>6. NamedIn(x, query)
    BY <1>3, <1>4 DEF NamedIn
<1> QED
    BY <1>3, <1>5, <1>6

\* The other way round.
LEMMA NamedTables ==
    ASSUME NEW query \in Workloads, NEW heard, NEW infos, InfosStand(infos, query, heard),
           NEW id \in DOMAIN query.plans, NEW e \in Range(query.plans[id].tables), Sourced(e)
    PROVE  \E x \in NamedEntries(infos) : x.connector = e.connector /\ x.table = e.table
<1>1. PICK k \in DOMAIN infos : infos[k].id = id
    BY DEF InfosStand
<1>2. PICK tables : tables = query.plans[id].tables
    OBVIOUS
<1>3. infos[k].tables = tables
    <2>1. Planned(infos[k], query)
        BY PlansStand
    <2> QED
        BY <1>1, <1>2, <2>1 DEF Planned
<1>4. PICK n \in DOMAIN tables : e = tables[n]
    BY <1>2 DEF Range
<1>5. PICK x : x = [stage |-> k, node |-> n, connector |-> tables[n].connector, table |-> tables[n].table]
    OBVIOUS
<1>6. x.connector = e.connector /\ x.table = e.table
    BY <1>4, <1>5
<1>7. x \in EntriesOf(infos[k].tables, k)
    BY <1>3, <1>5 DEF EntriesOf, EntryAt
<1>8. x \in NamedEntries(infos)
    <2>1. Sourced(x)
        BY <1>6, Zenon DEF Sourced
    <2> QED
        BY <1>7, <2>1, EntriesAre
<1> QED
    BY <1>6, <1>8

\* All entries of a table name one connector.
Agreeing(x, e) == x.table = e.table => x.connector = e.connector

LEMMA TablesAgree ==
    ASSUME NEW query \in Workloads, NEW i \in DOMAIN query.plans, NEW e \in Range(query.plans[i].tables),
           NEW j \in DOMAIN query.plans, NEW o \in Range(query.plans[j].tables),
           Sourced(e), OfNamedTable(e), Sourced(o)
    PROVE  Agreeing(o, e)
<1>1. SourcesAgree(query)
    BY WorkloadsAssumption
<1>2. PICK n \in DOMAIN query.plans[i].tables : query.plans[i].tables[n] = e
    BY DEF Range
<1> SUFFICES ASSUME o.table = e.table
             PROVE  o.connector = e.connector
    BY DEF Agreeing
<1>3. \A other \in Range(query.plans[j].tables) :
          Sourced(other) /\ other.table = query.plans[i].tables[n].table /\ OfNamedTable(query.plans[i].tables[n])
              => other.connector = query.plans[i].tables[n].connector
    <2>1. Sourced(query.plans[i].tables[n])
        BY <1>2
    <2> QED
        BY <1>1, <2>1, Zenon DEF SourcesAgree, Sourced, OfNamedTable
<1> QED
    BY <1>2, <1>3

LEMMA NodesAgree ==
    ASSUME NEW query \in Workloads, NEW i \in DOMAIN query.plans, NEW n \in DOMAIN query.plans[i].tables,
           NEW named, named = query.plans[i].tables[n], Sourced(named),
           NEW j \in DOMAIN query.plans, NEW node \in Range(query.plans[j].plan),
           node.name \in scanNodeNames, node.id = n
    PROVE  node.table = named.table
<1>1. SourcesAgree(query)
    BY WorkloadsAssumption
<1> QED
    BY <1>1, Zenon DEF SourcesAgree, Sourced

LEMMA OneConnector ==
    ASSUME NEW query \in Workloads, NEW heard, NEW infos, InfosStand(infos, query, heard),
           NEW id \in DOMAIN query.plans, NEW e \in Range(query.plans[id].tables),
           Sourced(e), OfNamedTable(e), NEW x \in NamedEntries(infos)
    PROVE  Agreeing(x, e)
<1> SUFFICES ASSUME x.table = e.table
             PROVE  x.connector = e.connector
    BY DEF Agreeing
<1>1. PICK i \in DOMAIN query.plans : \E n \in DOMAIN query.plans[i].tables :
          /\ x.connector = query.plans[i].tables[n].connector
          /\ x.table = query.plans[i].tables[n].table
    <2>1. NamedIn(x, query)
        BY EntryStands
    <2> QED
        BY <2>1 DEF NamedIn
<1>2. PICK o \in Range(query.plans[i].tables) : x.connector = o.connector /\ x.table = o.table
    BY <1>1 DEF Range
<1>3. Sourced(o)
    <2>1. Sourced(x)
        BY EntryStands
    <2> QED
        BY <1>2, <2>1, Zenon DEF Sourced
<1>4. Agreeing(o, e)
    BY <1>3, TablesAgree
<1> QED
    BY <1>2, <1>4 DEF Agreeing

NamedTablesIn(infos) == {x \in NamedEntries(infos) : OfNamedTable(x)}

FirstOf(entries, t) ==
    CHOOSE x \in entries : x.table = t /\ \A o \in entries : o.table = t => o.stage >= x.stage

LastOf(entries, n) ==
    CHOOSE x \in entries : x.node = n /\ \A o \in entries : o.node = n => o.stage <= x.stage

\* The first entry of a table gives it its connector.
LEMMA TableHasConnector ==
    ASSUME NEW query \in Workloads, NEW heard, NEW infos, InfosStand(infos, query, heard),
           NEW id \in DOMAIN query.plans, NEW e \in Range(query.plans[id].tables),
           Sourced(e), OfNamedTable(e), NEW byFQN, byFQN = connectorByFQN(infos)
    PROVE  e.table \in DOMAIN byFQN /\ byFQN[e.table] = e.connector
<1>1. PICK entries : entries = NamedTablesIn(infos)
    OBVIOUS
<1>2. byFQN = [t \in {x.table : x \in entries} |-> FirstOf(entries, t).connector]
    <2>1. connectorByFQN(infos) =
              [t \in {x.table : x \in NamedTablesIn(infos)} |-> FirstOf(NamedTablesIn(infos), t).connector]
        BY Zenon DEF connectorByFQN, NamedTablesIn, FirstOf, OfNamedTable
    <2> QED
        BY <1>1, <2>1
<1>3. PICK t : t = e.table
    OBVIOUS
<1>4. PICK x \in entries : x.table = t
    <2>1. PICK x \in NamedEntries(infos) : x.connector = e.connector /\ x.table = e.table
        BY NamedTables
    <2>2. OfNamedTable(x)
        BY <2>1, Zenon DEF OfNamedTable
    <2> QED
        BY <1>1, <1>3, <2>1, <2>2 DEF NamedTablesIn
<1>5. \A y \in entries : y.stage \in Nat
    <2>1. PICK m \in Nat : DOMAIN infos = 1 .. m
        BY DEF InfosStand
    <2>2. ASSUME NEW y \in entries
          PROVE  y.stage \in Nat
        <3>1. y \in NamedEntries(infos)
            BY <1>1 DEF NamedTablesIn
        <3>2. PICK stage \in DOMAIN infos : stage = y.stage
            BY <3>1, EntryStands
        <3>3. stage \in 1 .. m
            BY <2>1, <3>2
        <3> QED
            BY <2>1, <3>2, <3>3
    <2> QED
        BY <2>2
<1>6. PICK first \in entries : first.table = t /\ \A o \in entries : o.table = t => o.stage >= first.stage
    <2>1. PICK S \in SUBSET Nat : S = {y.stage : y \in {y \in entries : y.table = t}}
        BY <1>5
    <2>2. S # {}
        BY <1>4, <2>1
    <2>3. PICK least \in S : \A other \in S : least <= other
        BY <2>2, LeastOf
    <2>4. PICK first \in entries : first.table = t /\ first.stage = least
        BY <2>1, <2>3
    <2>5. ASSUME NEW o \in entries, o.table = t
          PROVE  o.stage >= first.stage
        <3>1. o.stage \in S
            BY <2>1, <2>5
        <3>2. least <= o.stage /\ least \in Nat /\ o.stage \in Nat
            BY <2>1, <2>3, <3>1
        <3> QED
            BY <2>4, <3>2
    <2> QED
        BY <2>4, <2>5
<1>7. PICK chosen : chosen = FirstOf(entries, t)
    OBVIOUS
<1>8. chosen \in entries /\ chosen.table = t
    BY <1>6, <1>7 DEF FirstOf
<1>9. chosen.connector = e.connector
    <2>1. chosen \in NamedEntries(infos) /\ chosen.table = e.table
        BY <1>1, <1>3, <1>8 DEF NamedTablesIn
    <2>2. Agreeing(chosen, e)
        BY <2>1, OneConnector
    <2> QED
        BY <2>1, <2>2 DEF Agreeing
<1>10. t \in DOMAIN byFQN /\ byFQN[t] = chosen.connector
    BY <1>2, <1>4, <1>7
<1> QED
    BY <1>3, <1>9, <1>10

\* A scan whose plan node has an entry takes the connector of its table from it.
LEMMA NodeHasConnector ==
    ASSUME NEW query \in Workloads, NEW heard, NEW infos, InfosStand(infos, query, heard),
           NEW id \in DOMAIN query.plans, NEW e \in Range(query.plans[id].tables),
           Sourced(e), OfNamedTable(e),
           NEW at \in DOMAIN query.plans, NEW node \in Range(query.plans[at].plan),
           node.name \in scanNodeNames, node.table = e.table,
           NEW byNode, byNode = connectorByPlanNode(infos), node.id \in DOMAIN byNode
    PROVE  byNode[node.id] = e.connector
<1>1. PICK entries : entries = NamedEntries(infos)
    OBVIOUS
<1>2. byNode = [n \in {x.node : x \in entries} |-> LastOf(entries, n).connector]
    <2>1. connectorByPlanNode(infos) =
              [n \in {x.node : x \in NamedEntries(infos)} |-> LastOf(NamedEntries(infos), n).connector]
        BY Zenon DEF connectorByPlanNode, LastOf
    <2> QED
        BY <1>1, <2>1
<1>3. PICK n : n = node.id
    OBVIOUS
<1>4. PICK x \in entries : x.node = n
    BY <1>2, <1>3
<1>5. PICK last \in entries : last.node = n /\ \A o \in entries : o.node = n => o.stage <= last.stage
    <2>1. PICK m \in Nat : DOMAIN infos = 1 .. m
        BY DEF InfosStand
    <2>2. \A y \in entries : y.stage \in 1 .. m
        <3>1. ASSUME NEW y \in NamedEntries(infos)
              PROVE  y.stage \in DOMAIN infos
            BY EntryStands
        <3> QED
            BY <1>1, <2>1, <3>1
    <2>3. PICK S \in SUBSET (1 .. m) : S = {y.stage : y \in {y \in entries : y.node = n}}
        BY <2>2
    <2>4. S # {} /\ IsFiniteSet(S) /\ S \in SUBSET Nat
        <3>1. IsFiniteSet(1 .. m)
            BY <2>1, FS_Interval
        <3>2. IsFiniteSet(S)
            BY <2>3, <3>1, FS_Subset
        <3>3. S # {}
            BY <1>4, <2>3
        <3>4. S \in SUBSET Nat
            BY <2>1, <2>3
        <3> QED
            BY <3>2, <3>3, <3>4
    <2>5. PICK most \in S : \A other \in S : other <= most
        BY <2>4, MaxOfFinite
    <2>6. PICK last \in entries : last.node = n /\ last.stage = most
        BY <2>3, <2>5
    <2>7. ASSUME NEW o \in entries, o.node = n
          PROVE  o.stage <= last.stage
        <3>1. o.stage \in S
            BY <2>3, <2>7
        <3> QED
            BY <2>5, <2>6, <3>1
    <2> QED
        BY <2>6, <2>7
<1>6. PICK chosen : chosen = LastOf(entries, n)
    OBVIOUS
<1>7. chosen \in entries /\ chosen.node = n
    BY <1>5, <1>6 DEF LastOf
<1>8. chosen.table = node.table
    <2>1. NamedIn(chosen, query) /\ Sourced(chosen)
        BY <1>1, <1>7, EntryStands
    <2>2. PICK i \in DOMAIN query.plans : n \in DOMAIN query.plans[i].tables
              /\ chosen.connector = query.plans[i].tables[n].connector
              /\ chosen.table = query.plans[i].tables[n].table
        BY <1>7, <2>1 DEF NamedIn
    <2>3. PICK named : named = query.plans[i].tables[n]
        OBVIOUS
    <2>4. Sourced(named)
        BY <2>1, <2>2, <2>3, Zenon DEF Sourced
    <2>5. node.table = named.table
        BY <1>3, <2>2, <2>3, <2>4, NodesAgree
    <2> QED
        BY <2>2, <2>3, <2>5
<1>9. chosen.connector = e.connector
    <2>1. chosen \in NamedEntries(infos) /\ chosen.table = e.table
        BY <1>1, <1>7, <1>8
    <2>2. Agreeing(chosen, e)
        BY <2>1, OneConnector
    <2> QED
        BY <2>1, <2>2 DEF Agreeing
<1>10. byNode[n] = chosen.connector
    BY <1>2, <1>4, <1>6
<1> QED
    BY <1>3, <1>9, <1>10


(***************************************************************************)
(* Scans.                                                                  *)
(***************************************************************************)
FactAt(p, info, ops, byNode, byFQN) == buildScanPushdownFact(info.id, info.plan[p], ops, byNode, byFQN)

ScanPaths(info, ops, byNode, byFQN) ==
    {p \in {p \in DOMAIN info.plan : Len(p) <= MaxScanDepth /\ info.plan[p].name \in scanNodeNames} :
        Telling(FactAt(p, info, ops, byNode, byFQN))}

\* scans are facts of different nodes of the plan of a stage, of all that tell something.
ScansRead(scans, paths, info, ops, byNode, byFQN) ==
    /\ Len(scans) \in Nat /\ DOMAIN scans = 1 .. Len(scans)
    /\ scans = [k \in 1 .. Len(scans) |-> scans[k]]
    /\ \A k \in DOMAIN scans : /\ paths[k] \in DOMAIN info.plan
                               /\ info.plan[paths[k]].name \in scanNodeNames
                               /\ scans[k] = FactAt(paths[k], info, ops, byNode, byFQN)
    /\ \A k, l \in DOMAIN scans : paths[k] = paths[l] => k = l
    /\ \A k \in DOMAIN scans : paths[k] \in ScanPaths(info, ops, byNode, byFQN)
    /\ \A p \in ScanPaths(info, ops, byNode, byFQN) : \E k \in DOMAIN scans : paths[k] = p

LEMMA ScansOfStage ==
    ASSUME NEW info, IsTree(info.plan), NEW ops, NEW byNode, NEW byFQN,
           NEW scans, scans = extractScanPushdowns(info, ops, byNode, byFQN)
    PROVE  \E paths : ScansRead(scans, paths, info, ops, byNode, byFQN)
<1>1. PICK S : S = ScanPaths(info, ops, byNode, byFQN)
    OBVIOUS
<1>2. PICK paths : paths = InOrder(S, Preorder)
    OBVIOUS
<1>3. scans = [k \in DOMAIN paths |-> FactAt(paths[k], info, ops, byNode, byFQN)]
    BY <1>1, <1>2 DEF extractScanPushdowns, ScanPaths, FactAt
<1>4. IsFiniteSet(S) /\ \A p \in S : p \in Seq(Nat \ {0})
    <2>1. IsFiniteSet(DOMAIN info.plan) /\ \A p \in DOMAIN info.plan : p \in Seq(Nat \ {0})
        BY DEF IsTree
    <2>2. S \in SUBSET DOMAIN info.plan
        BY <1>1 DEF ScanPaths
    <2> QED
        BY <2>1, <2>2, FS_Subset
<1>5. Lists(paths, S, Ahead(S)) /\ Orders(Ahead(S), S)
    BY <1>2, <1>4, Walk
<1>6. PICK n \in Nat : DOMAIN paths = 1 .. n
    BY <1>5 DEF Lists
<1>11. scans = [k \in 1 .. n |-> scans[k]]
    BY <1>3, <1>6
<1>7. Len(scans) = n /\ DOMAIN scans = 1 .. n
    BY <1>6, <1>11, SegmentLength
<1>8. \A k \in 1 .. n : /\ paths[k] \in DOMAIN info.plan
                        /\ info.plan[paths[k]].name \in scanNodeNames
                        /\ scans[k] = FactAt(paths[k], info, ops, byNode, byFQN)
    <2>1. \A p \in S : p \in DOMAIN info.plan /\ info.plan[p].name \in scanNodeNames
        BY <1>1 DEF ScanPaths
    <2>2. \A k \in 1 .. n : paths[k] \in S
        BY <1>5, <1>6 DEF Lists
    <2> QED
        BY <1>3, <1>6, <2>1, <2>2
<1>9. \A k, l \in 1 .. n : paths[k] = paths[l] => k = l
    BY <1>5, <1>6, ListedOnce
<1>12. /\ \A k \in 1 .. n : paths[k] \in S
       /\ \A p \in S : \E k \in 1 .. n : paths[k] = p
    BY <1>5, <1>6 DEF Lists
<1>10. ScansRead(scans, paths, info, ops, byNode, byFQN)
    BY <1>1, <1>6, <1>7, <1>8, <1>9, <1>11, <1>12 DEF ScansRead
<1> QED
    BY <1>10

\* The scans of all stages, one stage after the other.
AllScans(stages) == UNION {Range(stages[k].scans) : k \in DOMAIN stages}

AreJoined(stages, n) ==
    \E seqs, start : /\ \A k \in 1 .. n : seqs[k] = stages[k].scans
                     /\ Joined(ScansIn(stages), start, seqs, n, AllScans(stages))

LEMMA ScansJoin ==
    ASSUME NEW n \in Nat, NEW stages, DOMAIN stages = 1 .. n,
           \A k \in 1 .. n : Len(stages[k].scans) \in Nat /\ DOMAIN stages[k].scans = 1 .. Len(stages[k].scans),
           \A k \in 1 .. n : stages[k].scans = [j \in 1 .. Len(stages[k].scans) |-> stages[k].scans[j]]
    PROVE  AreJoined(stages, n)
<1>1. PICK S : S = AllScans(stages)
    OBVIOUS
<1>2. PICK seqs : seqs = [k \in 1 .. n |-> stages[k].scans]
    OBVIOUS
<1>3. ASSUME NEW k \in 1 .. n
      PROVE  seqs[k] \in Seq(S)
    <2>1. PICK seq : seq = stages[k].scans
        OBVIOUS
    <2>2. PICK m \in Nat : m = Len(seq)
        BY <2>1
    <2>3. seq = [j \in 1 .. m |-> seq[j]]
        BY <2>1, <2>2
    <2>4. \A j \in 1 .. m : seq[j] \in Range(seq)
        BY <2>1, <2>2 DEF Range
    <2>5. \A j \in 1 .. m : seq[j] \in S
        BY <1>1, <2>1, <2>4 DEF AllScans
    <2>6. seq \in Seq(S)
        BY <2>2, <2>3, <2>5, SegmentIsSeq
    <2> QED
        BY <1>2, <2>1, <2>6
<1>4. PICK flat : flat = FlattenSeq(seqs)
    OBVIOUS
<1>5. ScansIn(stages) = flat
    BY <1>2, <1>4 DEF ScansIn
<1>6. seqs = [k \in 1 .. n |-> seqs[k]]
    BY <1>2
<1>7. PICK start : Joined(flat, start, seqs, n, S)
    BY <1>3, <1>4, <1>6, Flattening
<1>8. \A k \in 1 .. n : seqs[k] = stages[k].scans
    BY <1>2
<1>9. Joined(ScansIn(stages), start, seqs, n, AllScans(stages))
    BY <1>1, <1>5, <1>7
<1> QED
    BY <1>8, <1>9 DEF AreJoined


OperatorLists(infos, allOps) == {OperatorsFor(infos[k], allOps) : k \in DOMAIN infos}

\* What stands in the scans of an answer: at is a stage, node a scan in its plan.
ScanStands(s, at, node, query, lists, byNode, byFQN) ==
    /\ at \in DOMAIN query.plans /\ node \in Range(query.plans[at].plan) /\ node.name \in scanNodeNames
    /\ \E ops \in lists : s = buildScanPushdownFact(at, node, ops, byNode, byFQN)

LEMMA ScansOfEachStage ==
    ASSUME NEW query \in Workloads, NEW heard, NEW infos, InfosStand(infos, query, heard), NEW allOps,
           NEW byNode, NEW byFQN, NEW stages,
           stages = [k \in DOMAIN infos |-> StageFact(infos[k], allOps, byNode, byFQN)],
           NEW k \in DOMAIN infos
    PROVE  \E paths : ScansRead(stages[k].scans, paths, infos[k], OperatorsFor(infos[k], allOps), byNode, byFQN)
<1>1. PICK info : info = infos[k]
    OBVIOUS
<1>2. PICK scans, ops : scans = stages[k].scans /\ ops = OperatorsFor(info, allOps)
    OBVIOUS
<1>3. stages[k] = StageFact(info, allOps, byNode, byFQN)
    BY <1>1
<1>4. scans = extractScanPushdowns(info, ops, byNode, byFQN)
    BY <1>2, <1>3, StageFactIs
<1>5. IsTree(info.plan)
    <2>1. Planned(info, query)
        BY <1>1, PlansStand
    <2>2. \A id \in DOMAIN query.plans : IsTree(query.plans[id].plan)
        BY WorkloadsAssumption
    <2> QED
        BY <2>1, <2>2 DEF Planned
<1>6. PICK paths : ScansRead(scans, paths, info, ops, byNode, byFQN)
    BY <1>4, <1>5, ScansOfStage
<1> QED
    BY <1>1, <1>2, <1>6

LEMMA ScanOfNode ==
    ASSUME NEW query \in Workloads, NEW info, Planned(info, query), NEW lists, NEW ops \in lists,
           NEW byNode, NEW byFQN, NEW scans, NEW paths, ScansRead(scans, paths, info, ops, byNode, byFQN), NEW j \in DOMAIN scans
    PROVE  \E at, node : ScanStands(scans[j], at, node, query, lists, byNode, byFQN)
<1>1. PICK at \in DOMAIN query.plans : info.id = at /\ info.plan = query.plans[at].plan
    BY DEF Planned
<1>2. PICK plan : plan = query.plans[at].plan
    OBVIOUS
<1>3. PICK node : node = plan[paths[j]]
    OBVIOUS
<1>4. /\ paths[j] \in DOMAIN plan /\ node.name \in scanNodeNames
      /\ scans[j] = buildScanPushdownFact(at, node, ops, byNode, byFQN)
    BY <1>1, <1>2, <1>3 DEF ScansRead, FactAt
<1>5. node \in Range(query.plans[at].plan)
    BY <1>2, <1>3, <1>4 DEF Range
<1>6. ScanStands(scans[j], at, node, query, lists, byNode, byFQN)
    BY <1>4, <1>5 DEF ScanStands
<1> QED
    BY <1>6

LEMMA ScansJoined ==
    ASSUME NEW query \in Workloads, NEW heard, NEW infos, InfosStand(infos, query, heard), NEW allOps,
           NEW byNode, NEW byFQN, NEW stages,
           stages = [k \in DOMAIN infos |-> StageFact(infos[k], allOps, byNode, byFQN)],
           NEW n \in Nat, DOMAIN infos = 1 .. n
    PROVE  AreJoined(stages, n)
<1>1. DOMAIN stages = 1 .. n
    OBVIOUS
<1>2. ASSUME NEW k \in 1 .. n
      PROVE  /\ Len(stages[k].scans) \in Nat /\ DOMAIN stages[k].scans = 1 .. Len(stages[k].scans)
             /\ stages[k].scans = [j \in 1 .. Len(stages[k].scans) |-> stages[k].scans[j]]
    <2>1. PICK paths, info, ops : ScansRead(stages[k].scans, paths, info, ops, byNode, byFQN)
        BY ScansOfEachStage
    <2> QED
        BY <2>1 DEF ScansRead
<1>3. \A k \in 1 .. n : Len(stages[k].scans) \in Nat /\ DOMAIN stages[k].scans = 1 .. Len(stages[k].scans)
    BY <1>2
<1>4. \A k \in 1 .. n : stages[k].scans = [j \in 1 .. Len(stages[k].scans) |-> stages[k].scans[j]]
    BY <1>2
<1> QED
    BY <1>1, <1>3, <1>4, ScansJoin

LEMMA EachScan ==
    ASSUME NEW query \in Workloads, NEW heard, NEW infos, InfosStand(infos, query, heard), NEW allOps,
           NEW byNode, NEW byFQN, NEW stages,
           stages = [k \in DOMAIN infos |-> StageFact(infos[k], allOps, byNode, byFQN)],
           NEW s \in Range(ScansIn(stages))
    PROVE  \E at, node : ScanStands(s, at, node, query, OperatorLists(infos, allOps), byNode, byFQN)
<1>1. PICK n \in Nat : DOMAIN infos = 1 .. n
    BY DEF InfosStand
<1>2. DOMAIN stages = 1 .. n
    BY <1>1
<1>3. PICK seqs, start : /\ \A k \in 1 .. n : seqs[k] = stages[k].scans
                         /\ Joined(ScansIn(stages), start, seqs, n, AllScans(stages))
    <2>1. AreJoined(stages, n)
        BY <1>1, ScansJoined
    <2> QED
        BY <2>1 DEF AreJoined
<1>4. s \in AllScans(stages)
    <2>1. PICK flat : flat = ScansIn(stages)
        OBVIOUS
    <2>2. flat \in Seq(AllScans(stages))
        BY <1>3, <2>1 DEF Joined
    <2> QED
        BY <2>1, <2>2 DEF Range
<1>5. PICK k \in 1 .. n : s \in Range(stages[k].scans)
    BY <1>2, <1>4 DEF AllScans
<1>6. PICK info, scans : info = infos[k] /\ scans = stages[k].scans
    OBVIOUS
<1>7. PICK j \in DOMAIN scans : s = scans[j]
    BY <1>5, <1>6 DEF Range
<1>8. PICK ops \in OperatorLists(infos, allOps) : \E paths : ScansRead(scans, paths, info, ops, byNode, byFQN)
    <2>1. PICK ops : ops = OperatorsFor(info, allOps)
        OBVIOUS
    <2>2. ops \in OperatorLists(infos, allOps)
        BY <1>1, <1>6, <2>1 DEF OperatorLists
    <2>3. \E paths : ScansRead(scans, paths, info, ops, byNode, byFQN)
        BY <1>1, <1>6, <2>1, ScansOfEachStage
    <2> QED
        BY <2>2, <2>3
<1>9. Planned(info, query)
    BY <1>1, <1>6, PlansStand
<1> QED
    BY <1>7, <1>8, <1>9, ScanOfNode


LEMMA ResolvesByNode ==
    ASSUME NEW id, NEW table, NEW byNode, NEW byFQN, id \in DOMAIN byNode
    PROVE  resolveConnectorType(id, table, byNode, byFQN) = byNode[id]
BY Zenon DEF resolveConnectorType

LEMMA ResolvesByTable ==
    ASSUME NEW id, NEW table, NEW byNode, NEW byFQN, id \notin DOMAIN byNode,
           NEW e, OfNamedTable(e), e.table = table, table \in DOMAIN byFQN
    PROVE  resolveConnectorType(id, table, byNode, byFQN) = byFQN[table]
<1>1. table.name # ""
    BY Zenon DEF OfNamedTable
<1> QED
    BY <1>1, Zenon DEF resolveConnectorType

\* Every scan of a table has the connector that Trino names for the table.
LEMMA NodeResolves ==
    ASSUME NEW query \in Workloads, NEW heard, NEW infos, InfosStand(infos, query, heard),
           NEW byNode, byNode = connectorByPlanNode(infos), NEW byFQN, byFQN = connectorByFQN(infos),
           NEW at \in DOMAIN query.plans, NEW node \in Range(query.plans[at].plan), node.name \in scanNodeNames,
           NEW id \in DOMAIN query.plans, NEW e \in Range(query.plans[id].tables),
           Sourced(e), OfNamedTable(e), node.table = e.table
    PROVE  resolveConnectorType(node.id, node.table, byNode, byFQN) = e.connector
<1>1. CASE node.id \in DOMAIN byNode
    <2>1. byNode[node.id] = e.connector
        BY <1>1, NodeHasConnector
    <2>2. resolveConnectorType(node.id, node.table, byNode, byFQN) = byNode[node.id]
        BY <1>1, ResolvesByNode
    <2> QED
        BY <2>1, <2>2
<1>2. CASE node.id \notin DOMAIN byNode
    <2>1. e.table \in DOMAIN byFQN /\ byFQN[e.table] = e.connector
        BY TableHasConnector
    <2>2. PICK n, table : n = node.id /\ table = node.table
        OBVIOUS
    <2>3. e.table = table /\ table \in DOMAIN byFQN /\ n \notin DOMAIN byNode
        BY <1>2, <2>1, <2>2
    <2>4. resolveConnectorType(n, table, byNode, byFQN) = byFQN[table]
        BY <2>3, ResolvesByTable
    <2> QED
        BY <2>1, <2>2, <2>4
<1> QED
    BY <1>1, <1>2

LEMMA ScanHasConnector ==
    ASSUME NEW query \in Workloads, NEW heard, NEW infos, InfosStand(infos, query, heard),
           NEW byNode, byNode = connectorByPlanNode(infos), NEW byFQN, byFQN = connectorByFQN(infos),
           NEW s, NEW at, NEW node, NEW lists, ScanStands(s, at, node, query, lists, byNode, byFQN),
           NEW id \in DOMAIN query.plans, NEW e \in Range(query.plans[id].tables),
           Sourced(e), OfNamedTable(e), s.table = e.table
    PROVE  s.connector = e.connector
<1>1. PICK ops : s = buildScanPushdownFact(at, node, ops, byNode, byFQN)
    BY DEF ScanStands
<1>2. s.table = node.table /\ s.connector = resolveConnectorType(node.id, node.table, byNode, byFQN)
    BY <1>1 DEF buildScanPushdownFact
<1>3. at \in DOMAIN query.plans /\ node \in Range(query.plans[at].plan) /\ node.name \in scanNodeNames
    BY DEF ScanStands
<1>4. node.table = e.table
    BY <1>2
<1>5. resolveConnectorType(node.id, node.table, byNode, byFQN) = e.connector
    BY <1>3, <1>4, NodeResolves
<1> QED
    BY <1>2, <1>5

\* So has the fact about the table itself.
LEMMA TableFactIs ==
    ASSUME NEW qi, NEW byFQN, NEW others, NEW t \in DOMAIN byFQN, NEW tables,
           tables = extractTableFacts(qi, mergeFQNConnectorMaps(byFQN, others)), t \in DOMAIN tables
    PROVE  tables[t] = byFQN[t]
<1>1. PICK connectors : connectors = mergeFQNConnectorMaps(byFQN, others)
    OBVIOUS
<1>2. t \in DOMAIN connectors /\ connectors[t] = byFQN[t]
    BY <1>1 DEF mergeFQNConnectorMaps
<1>3. tables = extractTableFacts(qi, connectors)
    BY <1>1
<1> QED
    BY <1>2, <1>3, Zenon DEF extractTableFacts

\* What a reply says of connectors.
LEMMA ConnectorsInReply ==
    ASSUME Inv, Answered, NEW id \in DOMAIN workload.plans, NEW e \in Range(workload.plans[id].tables),
           Sourced(e), OfNamedTable(e)
    PROVE  /\ \A s \in Range(Facts.scans) : s.table = e.table => s.connector = e.connector
           /\ e.table \in DOMAIN Facts.tables => Facts.tables[e.table] = e.connector
<1>1. reply # Refusal
    BY NothingThere DEF Answered
<1>2. PICK status, heard, totals : Known(status, heard, totals)
    BY <1>1, RepliesAre
<1>3. PICK query : query = workload /\ IsSnapshot(query, status, heard, totals) /\ query \in Workloads
    BY <1>2 DEF Known, IsSnapshot
<1>4. PICK qi : qi = InfoOf(query, status, heard, totals)
    OBVIOUS
<1>5. PICK facts : facts = FactsOf(qi)
    OBVIOUS
<1>6. facts = Facts
    BY <1>2, <1>3, <1>4, <1>5, AnswerIs DEF Known, Facts
<1>7. PICK infos : infos = resolveStageInfos(qi)
    OBVIOUS
<1>8. InfosStand(infos, query, heard)
    BY <1>3, <1>4, <1>7, InfosAre
<1>9. PICK byNode, byFQN : byNode = connectorByPlanNode(infos) /\ byFQN = connectorByFQN(infos)
    OBVIOUS
<1>10. PICK stages : stages = StagesOf(qi)
    OBVIOUS
<1>11. stages = [k \in DOMAIN infos |-> StageFact(infos[k], qi.ops, byNode, byFQN)]
    BY <1>7, <1>9, <1>10 DEF StagesOf
<1>12. facts.scans = ScansIn(stages)
    BY <1>5, <1>10, FactsAre
<1>13. ASSUME NEW s \in Range(ScansIn(stages)), s.table = e.table
       PROVE  s.connector = e.connector
    <2>1. PICK at, node, lists : ScanStands(s, at, node, query, lists, byNode, byFQN)
        BY <1>3, <1>8, <1>11, EachScan
    <2> QED
        BY <1>3, <1>8, <1>9, <1>13, <2>1, ScanHasConnector
<1>14. e.table \in DOMAIN byFQN /\ byFQN[e.table] = e.connector
    BY <1>3, <1>8, <1>9, TableHasConnector
<1>15. facts.tables = extractTableFacts(qi, mergeFQNConnectorMaps(byFQN, connectorsByFQN(ScansIn(stages))))
    BY <1>5, <1>7, <1>9, <1>10, TablesAre
<1>16. e.table \in DOMAIN facts.tables => facts.tables[e.table] = e.connector
    BY <1>14, <1>15, TableFactIs
<1> QED
    BY <1>6, <1>12, <1>13, <1>16

LEMMA ConnectorsAlways ==
    Inv => ConnectorsAgree
<1> SUFFICES ASSUME Inv, NEW id \in DOMAIN workload.plans, NEW e \in Range(workload.plans[id].tables),
                    Answered /\ e.connector # "" /\ e.table.name # ""
             PROVE  /\ \A s \in Range(Facts.scans) : s.table = e.table => s.connector = e.connector
                    /\ e.table \in DOMAIN Facts.tables => Facts.tables[e.table] = e.connector
    BY Zenon DEF ConnectorsAgree
<1>1. Sourced(e) /\ OfNamedTable(e)
    BY Zenon DEF Sourced, OfNamedTable
<1> QED
    BY <1>1, ConnectorsInReply, Zenon

\* Where Trino names the connector of a table, every scan of it and its table fact
\* say the same (facts.go:369-373 and 534-538, scan_pushdown.go:171-181).
THEOREM ConnectorsAreNamed ==
    Spec => []ConnectorsAgree
BY RepliesAreFromThePast, ConnectorsAlways, PTL

LEMMA RemediesAlways ==
    Inv => RemediesFitTheSource
<1> SUFFICES ASSUME Inv, NEW s \in Range(Facts.scans), NEW id \in DOMAIN workload.plans,
                    NEW e \in Range(workload.plans[id].tables), NEW p \in matchPatternsForScan(s),
                    e.table = s.table /\ e.table.name # "" /\ e.connector # ""
             PROVE  patternAppliesToConnector(p, e.connector)
    BY Zenon DEF RemediesFitTheSource
<1>1. Sourced(e) /\ OfNamedTable(e)
    BY Zenon DEF Sourced, OfNamedTable
<1>2. Answered
    <2>1. reply # Refusal
        BY NothingThere, Zenon DEF Facts
    <2> QED
        BY <2>1, RepliesAre, Zenon
<1>3. s.connector = e.connector
    BY <1>1, <1>2, ConnectorsInReply, Zenon
<1>4. patternAppliesToConnector(p, s.connector)
    BY Zenon DEF matchPatternsForScan
<1> QED
    BY <1>3, <1>4, Zenon

\* A remedy for one kind of source is given only for tables that Trino says come
\* from such a source (unpushable_expression.go:225-268, scan_pushdown.go:171-195).
THEOREM RemediesFit ==
    Spec => []RemediesFitTheSource
BY RepliesAreFromThePast, RemediesAlways, PTL


(***************************************************************************)
(* The roll-up by connector.                                               *)
(***************************************************************************)
Blank(c) == c = ""

\* Of the first k scans, those of a connector, and the stages they are in.
ScansFor(c, k, scans) == {i \in 1 .. k : scans[i].connector = c}
IsRead(id, among, scans) == \E i \in among : scans[i].stage = id
StagesFor(among, scans, stages, n) == {m \in 1 .. n : IsRead(stages[m].id, among, scans)}

Waits(stages, n) == [m \in 1 .. n |-> stages[m].wait.ms]
Bytes(stages, n) == [m \in 1 .. n |-> stages[m].bytes]
RowsIn(scans, k) == [i \in 1 .. k |-> scans[i].physical]
RowsOut(scans, k) == [i \in 1 .. k |-> scans[i].output]

Tally(among, scans, last, stages, n) ==
    LET read == StagesFor(among, scans, stages, n)
    IN  [scans |-> Cardinality(among), wait |-> Sum(Waits(stages, n), read),
         rowsIn |-> Sum(RowsIn(scans, last), among), rowsOut |-> Sum(RowsOut(scans, last), among),
         bytes |-> Sum(Bytes(stages, n), read)]

\* Scans that can be rolled up, each with the stage it is in.
Rollable(scans, last, stages, n) ==
    /\ last \in Nat /\ n \in Nat /\ DOMAIN stages = 1 .. n
    /\ \A m \in 1 .. n : stages[m].wait.ms \in Nat /\ stages[m].bytes \in Nat
    /\ \A l, m \in 1 .. n : stages[l].id = stages[m].id => l = m
    /\ \A i \in 1 .. last : /\ scans[i].physical \in Nat /\ scans[i].output \in Nat
                            /\ \E m \in 1 .. n : stages[m].id = scans[i].stage

\* acc is what the first k scans add up to.
RolledUp(acc, k, scans, last, stages, n) ==
    /\ \A c : c \in DOMAIN acc.recs <=> ~Blank(c) /\ ScansFor(c, k, scans) # {}
    /\ \A c : ~Blank(c) => RecordOf(acc.recs, c) = Tally(ScansFor(c, k, scans), scans, last, stages, n)
    /\ \A id, c : <<id, c>> \in acc.charged <=> ~Blank(c) /\ IsRead(id, ScansFor(c, k, scans), scans)

NextRecord(acc, scan, stages) ==
    LET again == Counted(RecordOf(acc.recs, scan.connector), scan)
    IN  IF <<scan.stage, scan.connector>> \in acc.charged THEN again ELSE Charged(again, StageOf(scan, stages))

LEMMA BlankStep ==
    ASSUME NEW acc, NEW scan, NEW stages, Blank(scan.connector)
    PROVE  WithScan(acc, scan, stages) = acc
BY Zenon DEF WithScan, Blank

LEMMA StepIs ==
    ASSUME NEW acc, NEW scan, NEW stages, ~Blank(scan.connector)
    PROVE  WithScan(acc, scan, stages) =
               [recs |-> WithRecord(acc.recs, scan.connector, NextRecord(acc, scan, stages)),
                charged |-> acc.charged \union {<<scan.stage, scan.connector>>}]
BY Zenon DEF WithScan, Blank, NextRecord

LEMMA CountedIs ==
    ASSUME NEW a \in Int, NEW b \in Int, NEW c \in Int, NEW d \in Int, NEW e \in Int, NEW scan, NEW stage, NEW rec,
           rec = [scans |-> a, wait |-> b, rowsIn |-> c, rowsOut |-> d, bytes |-> e]
    PROVE  /\ Counted(rec, scan) = [scans |-> a + 1, wait |-> b, rowsIn |-> c + scan.physical,
                                    rowsOut |-> d + scan.output, bytes |-> e]
           /\ Charged(Counted(rec, scan), stage) =
                  [scans |-> a + 1, wait |-> b + stage.wait.ms, rowsIn |-> c + scan.physical,
                   rowsOut |-> d + scan.output, bytes |-> e + stage.bytes]
<1>1. PICK again : again = [scans |-> a + 1, wait |-> b, rowsIn |-> c + scan.physical,
                                rowsOut |-> d + scan.output, bytes |-> e]
    OBVIOUS
<1>2. PICK one, two :
          /\ one = [rec EXCEPT !.scans = @ + 1]
          /\ two = [one EXCEPT !.rowsIn = @ + scan.physical]
    OBVIOUS
<1>3. one = [scans |-> a + 1, wait |-> b, rowsIn |-> c, rowsOut |-> d, bytes |-> e]
    BY <1>2
<1>4. two = [scans |-> a + 1, wait |-> b, rowsIn |-> c + scan.physical, rowsOut |-> d, bytes |-> e]
    BY <1>2, <1>3
<1>5. [two EXCEPT !.rowsOut = @ + scan.output] = again
    BY <1>1, <1>4
<1>6. Counted(rec, scan) = again
    BY <1>2, <1>5, Zenon DEF Counted
<1>7. PICK three : three = [again EXCEPT !.wait = @ + stage.wait.ms]
    OBVIOUS
<1>8. three = [scans |-> a + 1, wait |-> b + stage.wait.ms, rowsIn |-> c + scan.physical,
               rowsOut |-> d + scan.output, bytes |-> e]
    BY <1>1, <1>7
<1>9. [three EXCEPT !.bytes = @ + stage.bytes] =
          [scans |-> a + 1, wait |-> b + stage.wait.ms, rowsIn |-> c + scan.physical,
           rowsOut |-> d + scan.output, bytes |-> e + stage.bytes]
    BY <1>8
<1>10. Charged(again, stage) = [three EXCEPT !.bytes = @ + stage.bytes]
    BY <1>7, Zenon DEF Charged
<1> QED
    BY <1>1, <1>6, <1>9, <1>10

LEMMA StageOfIs ==
    ASSUME NEW scan, NEW stages, NEW n \in Nat, DOMAIN stages = 1 .. n,
           \A l, m \in 1 .. n : stages[l].id = stages[m].id => l = m,
           NEW at \in 1 .. n, stages[at].id = scan.stage
    PROVE  StageOf(scan, stages) = stages[at]
<1>1. PICK k : k = CHOOSE l \in DOMAIN stages : stages[l].id = scan.stage
    OBVIOUS
<1>2. k \in 1 .. n /\ stages[k].id = scan.stage
    BY <1>1
<1>3. k = at
    BY <1>2
<1> QED
    BY <1>1, <1>3 DEF StageOf

\* What another scan of a connector adds to its tally.
LEMMA TallyGrows ==
    ASSUME NEW scans, NEW last, NEW stages, NEW n, Rollable(scans, last, stages, n),
           NEW among \in SUBSET (1 .. last), NEW i \in 1 .. last, i \notin among,
           NEW at \in 1 .. n, stages[at].id = scans[i].stage
    PROVE  LET read == StagesFor(among, scans, stages, n)
               old == Tally(among, scans, last, stages, n)
               new == Tally(among \union {i}, scans, last, stages, n)
           IN  new = IF IsRead(scans[i].stage, among, scans) THEN Counted(old, scans[i])
                     ELSE Charged(Counted(old, scans[i]), stages[at])
<1>1. PICK read, waits, bytes, in, out :
          /\ read = StagesFor(among, scans, stages, n) /\ waits = Waits(stages, n) /\ bytes = Bytes(stages, n)
          /\ in = RowsIn(scans, last) /\ out = RowsOut(scans, last)
    OBVIOUS
<1>2. last \in Nat /\ n \in Nat
    BY DEF Rollable
<1>3. /\ \A m \in 1 .. n : waits[m] \in Nat /\ bytes[m] \in Nat
      /\ \A j \in 1 .. last : in[j] \in Nat /\ out[j] \in Nat
    BY <1>1 DEF Rollable, Waits, Bytes, RowsIn, RowsOut
<1>4. IsFiniteSet(among) /\ read \in SUBSET (1 .. n) /\ IsFiniteSet(read)
    <2>1. IsFiniteSet(1 .. last) /\ IsFiniteSet(1 .. n)
        BY <1>2, FS_Interval
    <2>2. read \in SUBSET (1 .. n)
        BY <1>1 DEF StagesFor
    <2> QED
        BY <2>1, <2>2, FS_Subset
<1>5. PICK more : more = among \union {i}
    OBVIOUS
<1>6. Cardinality(more) = Cardinality(among) + 1 /\ Cardinality(among) \in Nat
    BY <1>4, <1>5, FS_AddElement, FS_CardinalityType
<1>7. Sum(in, more) = Sum(in, among) + in[i] /\ Sum(out, more) = Sum(out, among) + out[i]
    <2>1. (\A j \in among : in[j] \in Nat /\ out[j] \in Nat) /\ in[i] \in Nat /\ out[i] \in Nat
        BY <1>3
    <2> QED
        BY <1>4, <1>5, <2>1, SumAdds
<1>8. PICK a, b, c, d, e \in Int :
          /\ a = Cardinality(among) /\ b = Sum(waits, read) /\ c = Sum(in, among) /\ d = Sum(out, among)
          /\ e = Sum(bytes, read)
    <2>1. Sum(waits, read) \in Nat /\ Sum(bytes, read) \in Nat
        BY <1>3, <1>4, SumIsNat
    <2>2. Sum(in, among) \in Nat /\ Sum(out, among) \in Nat
        BY <1>3, <1>4, SumIsNat
    <2> QED
        BY <1>6, <2>1, <2>2
<1>9. Tally(among, scans, last, stages, n) = [scans |-> a, wait |-> b, rowsIn |-> c, rowsOut |-> d, bytes |-> e]
    BY <1>1, <1>8 DEF Tally
<1>10. PICK now : now = StagesFor(more, scans, stages, n)
    OBVIOUS
<1>11. now = read \union {at}
    <2>1. \A m \in 1 .. n : IsRead(stages[m].id, more, scans) <=> IsRead(stages[m].id, among, scans) \/ m = at
        <3>1. \A m \in 1 .. n : scans[i].stage = stages[m].id <=> m = at
            BY DEF Rollable
        <3> QED
            BY <1>5, <3>1 DEF IsRead
    <2> QED
        BY <1>1, <1>10, <2>1 DEF StagesFor
<1>12. at \in read <=> IsRead(scans[i].stage, among, scans)
    BY <1>1 DEF StagesFor
<1>13. Tally(more, scans, last, stages, n) =
           [scans |-> a + 1, wait |-> Sum(waits, now), rowsIn |-> c + in[i], rowsOut |-> d + out[i],
            bytes |-> Sum(bytes, now)]
    BY <1>1, <1>6, <1>7, <1>8, <1>10 DEF Tally
<1>14. in[i] = scans[i].physical /\ out[i] = scans[i].output
    BY <1>1 DEF RowsIn, RowsOut
<1>15. waits[at] = stages[at].wait.ms /\ bytes[at] = stages[at].bytes
    BY <1>1 DEF Waits, Bytes
<1>16. CASE at \in read
    <2>1. now = read
        BY <1>11, <1>16
    <2>2. Counted(Tally(among, scans, last, stages, n), scans[i]) =
              [scans |-> a + 1, wait |-> b, rowsIn |-> c + in[i], rowsOut |-> d + out[i], bytes |-> e]
        BY <1>8, <1>9, <1>14, CountedIs
    <2> QED
        BY <1>5, <1>8, <1>12, <1>13, <1>16, <2>1, <2>2
<1>17. CASE at \notin read
    <2>1. Sum(waits, now) = Sum(waits, read) + waits[at] /\ Sum(bytes, now) = Sum(bytes, read) + bytes[at]
        BY <1>3, <1>4, <1>11, <1>17, SumAdds
    <2>2. Charged(Counted(Tally(among, scans, last, stages, n), scans[i]), stages[at]) =
              [scans |-> a + 1, wait |-> b + waits[at], rowsIn |-> c + in[i], rowsOut |-> d + out[i],
               bytes |-> e + bytes[at]]
        BY <1>8, <1>9, <1>14, <1>15, CountedIs
    <2> QED
        BY <1>5, <1>8, <1>12, <1>13, <1>17, <2>1, <2>2
<1> QED
    BY <1>16, <1>17


LEMMA RecordsAre ==
    ASSUME NEW recs, NEW connector, NEW rec, NEW next, next = WithRecord(recs, connector, rec), NEW c
    PROVE  /\ c \in DOMAIN next <=> c \in DOMAIN recs \/ c = connector
           /\ RecordOf(next, c) = IF c = connector THEN rec ELSE RecordOf(recs, c)
BY DEF WithRecord, RecordOf

LEMMA RollOne ==
    ASSUME NEW scans, NEW last, NEW stages, NEW n, Rollable(scans, last, stages, n),
           NEW k \in Nat, NEW i \in 1 .. last, i = k + 1, NEW acc, RolledUp(acc, k, scans, last, stages, n),
           NEW next, next = WithScan(acc, scans[i], stages)
    PROVE  RolledUp(next, i, scans, last, stages, n)
<1>1. PICK scan, connector : scan = scans[i] /\ connector = scan.connector
    OBVIOUS
<1>2. ASSUME NEW c
      PROVE  ScansFor(c, i, scans) = IF c = connector THEN ScansFor(c, k, scans) \union {i} ELSE ScansFor(c, k, scans)
    <2>1. 1 .. i = (1 .. k) \union {i}
        OBVIOUS
    <2> QED
        BY <1>1, <2>1 DEF ScansFor
<1>3. last \in Nat /\ n \in Nat
    BY DEF Rollable
<1>4. CASE Blank(connector)
    <2>1. next = acc
        BY <1>1, <1>4, BlankStep
    <2>2. \A c : ~Blank(c) => ScansFor(c, i, scans) = ScansFor(c, k, scans)
        BY <1>2, <1>4
    <2>3. \A c : c \in DOMAIN next.recs <=> ~Blank(c) /\ ScansFor(c, i, scans) # {}
        BY <2>1, <2>2 DEF RolledUp
    <2>4. \A c : ~Blank(c) => RecordOf(next.recs, c) = Tally(ScansFor(c, i, scans), scans, last, stages, n)
        BY <2>1, <2>2 DEF RolledUp
    <2>5. \A id, c : <<id, c>> \in next.charged <=> ~Blank(c) /\ IsRead(id, ScansFor(c, i, scans), scans)
        BY <2>1, <2>2 DEF RolledUp
    <2> QED
        BY <2>3, <2>4, <2>5 DEF RolledUp
<1>5. CASE ~Blank(connector)
    <2>1. PICK rec : rec = NextRecord(acc, scan, stages)
        OBVIOUS
    <2>2. PICK recs : recs = WithRecord(acc.recs, connector, rec)
        OBVIOUS
    <2>3. next.recs = recs /\ next.charged = acc.charged \union {<<scan.stage, connector>>}
        BY <1>1, <1>5, <2>1, <2>2, StepIs
    <2>4. PICK among : among = ScansFor(connector, k, scans)
        OBVIOUS
    <2>5. among \in SUBSET (1 .. last) /\ i \notin among
        <3>1. \A j \in 1 .. k : j \in 1 .. last /\ j # i
            BY <1>3
        <3> QED
            BY <2>4, <3>1 DEF ScansFor
    <2>6. ScansFor(connector, i, scans) = among \union {i}
        BY <1>2, <2>4
    <2>7. rec = Tally(among \union {i}, scans, last, stages, n)
        <3>1. PICK at \in 1 .. n : stages[at].id = scan.stage
            BY <1>1 DEF Rollable
        <3>2. StageOf(scan, stages) = stages[at]
            <4>1. DOMAIN stages = 1 .. n /\ \A l, m \in 1 .. n : stages[l].id = stages[m].id => l = m
                BY DEF Rollable
            <4> QED
                BY <1>3, <3>1, <4>1, StageOfIs
        <3>3. PICK old : old = Tally(among, scans, last, stages, n)
            OBVIOUS
        <3>4. RecordOf(acc.recs, connector) = old
            BY <1>5, <2>4, <3>3 DEF RolledUp
        <3>5. <<scan.stage, connector>> \in acc.charged <=> IsRead(scan.stage, among, scans)
            BY <1>5, <2>4 DEF RolledUp
        <3>6. rec = IF IsRead(scan.stage, among, scans) THEN Counted(old, scan) ELSE Charged(Counted(old, scan), stages[at])
            BY <1>1, <2>1, <3>2, <3>4, <3>5 DEF NextRecord
        <3>7. Tally(among \union {i}, scans, last, stages, n) =
                  IF IsRead(scan.stage, among, scans) THEN Counted(old, scan) ELSE Charged(Counted(old, scan), stages[at])
            BY <1>1, <2>5, <3>1, <3>3, TallyGrows
        <3> QED
            BY <3>6, <3>7
    <2>8. ASSUME NEW c
          PROVE  c \in DOMAIN next.recs <=> ~Blank(c) /\ ScansFor(c, i, scans) # {}
        <3>1. c \in DOMAIN recs <=> c \in DOMAIN acc.recs \/ c = connector
            BY <2>2, RecordsAre
        <3>2. c \in DOMAIN acc.recs <=> ~Blank(c) /\ ScansFor(c, k, scans) # {}
            BY DEF RolledUp
        <3> QED
            BY <1>2, <1>5, <2>3, <2>6, <3>1, <3>2
    <2>9. ASSUME NEW c, ~Blank(c)
          PROVE  RecordOf(next.recs, c) = Tally(ScansFor(c, i, scans), scans, last, stages, n)
        <3>1. RecordOf(recs, c) = IF c = connector THEN rec ELSE RecordOf(acc.recs, c)
            BY <2>2, RecordsAre
        <3>2. RecordOf(acc.recs, c) = Tally(ScansFor(c, k, scans), scans, last, stages, n)
            BY <2>9 DEF RolledUp
        <3> QED
            BY <1>2, <2>3, <2>6, <2>7, <3>1, <3>2
    <2>10. ASSUME NEW id, NEW c
           PROVE  <<id, c>> \in next.charged <=> ~Blank(c) /\ IsRead(id, ScansFor(c, i, scans), scans)
        <3>1. <<id, c>> \in acc.charged <=> ~Blank(c) /\ IsRead(id, ScansFor(c, k, scans), scans)
            BY DEF RolledUp
        <3>2. <<id, c>> \in next.charged <=> <<id, c>> \in acc.charged \/ (id = scan.stage /\ c = connector)
            BY <2>3
        <3>3. CASE c = connector
            <4>1. IsRead(id, among \union {i}, scans) <=> IsRead(id, among, scans) \/ scan.stage = id
                BY <1>1 DEF IsRead
            <4> QED
                BY <1>5, <2>4, <2>6, <3>1, <3>2, <3>3, <4>1
        <3>4. CASE c # connector
            BY <1>2, <3>1, <3>2, <3>4
        <3> QED
            BY <3>3, <3>4
    <2> QED
        BY <2>8, <2>9, <2>10 DEF RolledUp
<1> QED
    BY <1>4, <1>5

Rolls(after, scans, stages, n) ==
    after = [k \in 0 .. n |->
                IF k = 0 THEN [recs |-> << >>, charged |-> {}] ELSE WithScan(after[k - 1], scans[k], stages)]

LEMMA RollsExist ==
    ASSUME NEW scans, NEW stages, NEW n \in Nat
    PROVE  \E after : Rolls(after, scans, stages, n)
<1> SUFFICES ASSUME ~\E after : Rolls(after, scans, stages, n)
             PROVE  FALSE
    OBVIOUS
<1>1. PICK bad \in SUBSET Nat : bad = {m \in Nat : ~\E after : Rolls(after, scans, stages, m)}
    OBVIOUS
<1>2. bad # {}
    BY <1>1
<1>3. PICK m \in bad : \A k \in bad : m <= k
    BY <1>2, LeastOf
<1>4. m \in Nat /\ ~\E after : Rolls(after, scans, stages, m)
    BY <1>1, <1>3
<1>5. CASE m = 0
    <2>1. PICK after : after = [k \in 0 .. 0 |-> [recs |-> << >>, charged |-> {}]]
        OBVIOUS
    <2>2. Rolls(after, scans, stages, 0)
        BY <2>1 DEF Rolls
    <2> QED
        BY <1>4, <1>5, <2>2
<1>6. CASE m # 0
    <2>1. PICK l \in Nat : m = l + 1
        BY <1>4, <1>6
    <2>2. l \notin bad
        BY <1>3, <2>1
    <2>3. PICK before : Rolls(before, scans, stages, l)
        BY <1>1, <2>2
    <2>4. PICK after : after = [k \in 0 .. m |-> IF k = m THEN WithScan(before[l], scans[m], stages) ELSE before[k]]
        OBVIOUS
    <2>5. PICK first : first = [recs |-> << >>, charged |-> {}]
        OBVIOUS
    <2>6. ASSUME NEW k \in 0 .. m
          PROVE  after[k] = IF k = 0 THEN first ELSE WithScan(after[k - 1], scans[k], stages)
        <3>1. CASE k = m
            <4>1. k # 0 /\ k - 1 = l /\ l \in 0 .. m /\ l # m
                BY <1>6, <2>1, <3>1
            <4>2. after[l] = before[l]
                BY <2>4, <4>1
            <4>3. after[k] = WithScan(before[l], scans[k], stages)
                BY <2>4, <3>1
            <4> QED
                BY <4>1, <4>2, <4>3
        <3>2. CASE k # m
            <4>1. k \in 0 .. l /\ after[k] = before[k]
                BY <2>1, <2>4, <3>2
            <4>2. before[k] = IF k = 0 THEN first ELSE WithScan(before[k - 1], scans[k], stages)
                BY <2>3, <2>5, <4>1 DEF Rolls
            <4>3. k # 0 => after[k - 1] = before[k - 1]
                BY <2>1, <2>4, <4>1
            <4> QED
                BY <4>1, <4>2, <4>3
        <3> QED
            BY <3>1, <3>2
    <2>7. Rolls(after, scans, stages, m)
        BY <2>4, <2>5, <2>6 DEF Rolls
    <2> QED
        BY <1>4, <2>7
<1> QED
    BY <1>5, <1>6


LEMMA RollNone ==
    ASSUME NEW scans, NEW last, NEW stages, NEW n, NEW acc, acc = [recs |-> << >>, charged |-> {}]
    PROVE  RolledUp(acc, 0, scans, last, stages, n)
<1>1. DOMAIN acc.recs = {} /\ acc.charged = {}
    BY NothingThere
<1>2. \A c : ScansFor(c, 0, scans) = {}
    BY DEF ScansFor
<1>3. \A id : ~IsRead(id, {}, scans)
    BY DEF IsRead
<1>4. Tally({}, scans, last, stages, n) = NothingRead
    <2>1. StagesFor({}, scans, stages, n) = {}
        BY <1>3 DEF StagesFor
    <2>2. \A f : Sum(f, {}) = 0
        BY SumOfNothing
    <2>3. Cardinality({}) = 0
        BY FS_EmptySet
    <2> QED
        BY <2>1, <2>2, <2>3 DEF Tally, NothingRead
<1>5. \A c : RecordOf(acc.recs, c) = NothingRead
    BY <1>1 DEF RecordOf
<1> QED
    BY <1>1, <1>2, <1>3, <1>4, <1>5 DEF RolledUp

LEMMA RollUp ==
    ASSUME NEW scans, NEW last, Len(scans) = last, NEW stages, NEW n, Rollable(scans, last, stages, n),
           NEW io, io = buildConnectorIORollup(stages, scans)
    PROVE  \E acc : io = acc.recs /\ RolledUp(acc, last, scans, last, stages, n)
<1>1. last \in Nat
    BY DEF Rollable
<1>2. PICK after : Rolls(after, scans, stages, last) /\ io = after[last].recs
    <2>1. io = (CHOOSE after : Rolls(after, scans, stages, Len(scans)))[Len(scans)].recs
        BY Zenon DEF buildConnectorIORollup, Rolls
    <2>2. PICK after : after = CHOOSE some : Rolls(some, scans, stages, last)
        OBVIOUS
    <2>3. Rolls(after, scans, stages, last)
        BY <1>1, <2>2, RollsExist
    <2> QED
        BY <2>1, <2>2, <2>3
<1>3. PICK first : first = [recs |-> << >>, charged |-> {}]
    OBVIOUS
<1>4. \A k \in 0 .. last : after[k] = IF k = 0 THEN first ELSE WithScan(after[k - 1], scans[k], stages)
    BY <1>2, <1>3 DEF Rolls
<1>5. PICK bad \in SUBSET Nat : bad = {k \in Nat : k <= last /\ ~RolledUp(after[k], k, scans, last, stages, n)}
    OBVIOUS
<1>6. ASSUME bad # {}
      PROVE  FALSE
    <2>1. PICK k \in bad : \A l \in bad : k <= l
        BY <1>6, LeastOf
    <2>2. k \in 0 .. last /\ ~RolledUp(after[k], k, scans, last, stages, n)
        BY <1>1, <1>5, <2>1
    <2>3. CASE k = 0
        <3>1. after[0] = first
            BY <1>4, <2>2, <2>3
        <3> QED
            BY <1>3, <2>2, <2>3, <3>1, RollNone
    <2>4. CASE k # 0
        <3>1. PICK l \in Nat : k = l + 1
            <4>1. k - 1 \in Nat /\ k = (k - 1) + 1
                BY <2>2, <2>4
            <4> QED
                BY <4>1
        <3>2. l \notin bad /\ l <= last
            BY <1>1, <2>1, <2>2, <3>1
        <3>3. RolledUp(after[l], l, scans, last, stages, n)
            BY <1>5, <3>1, <3>2
        <3>4. PICK acc : acc = after[l]
            OBVIOUS
        <3>5. k - 1 = l /\ k \in 1 .. last
            BY <1>1, <2>2, <2>4, <3>1
        <3>6. after[k] = WithScan(acc, scans[k], stages)
            BY <1>4, <2>2, <2>4, <3>4, <3>5
        <3>7. RolledUp(after[k], k, scans, last, stages, n)
            BY <3>1, <3>3, <3>4, <3>5, <3>6, RollOne
        <3> QED
            BY <2>2, <3>7
    <2> QED
        BY <2>3, <2>4
<1>7. RolledUp(after[last], last, scans, last, stages, n)
    <2>1. last \notin bad
        BY <1>6
    <2> QED
        BY <1>1, <1>5, <2>1
<1> QED
    BY <1>2, <1>7


(***************************************************************************)
(* Operators.                                                              *)
(***************************************************************************)
Below(S) == [l \in S |-> {k \in S : k < l}]

LEMMA NumbersInOrder ==
    ASSUME NEW n \in Nat, NEW S \in SUBSET (1 .. n)
    PROVE  Lists(InOrder(S, <), S, Below(S)) /\ Orders(Below(S), S)
<1>1. PICK before : before = Below(S)
    OBVIOUS
<1>2. before \in [S -> SUBSET S] /\ \A k, l \in S : k \in before[l] <=> k < l
    BY <1>1 DEF Below
<1>3. \A k \in S : k \in Int
    OBVIOUS
<1>4. Orders(before, S)
    <2>1. \A x \in S : x \notin before[x]
        BY <1>2, <1>3
    <2>2. \A x \in S : \A y \in before[x] : before[y] \subseteq before[x]
        <3>1. ASSUME NEW x \in S, NEW y \in before[x], NEW z \in before[y]
              PROVE  z \in before[x]
            <4>1. y \in S /\ z \in S
                BY <1>2
            <4> QED
                BY <1>2, <1>3, <4>1
        <3> QED
            BY <3>1
    <2>3. \A x, y \in S : x # y => x \in before[y] \/ y \in before[x]
        BY <1>2, <1>3
    <2> QED
        BY <1>2, <2>1, <2>2, <2>3 DEF Orders
<1>5. IsFiniteSet(S)
    <2>1. IsFiniteSet(1 .. n)
        BY FS_Interval
    <2> QED
        BY <2>1, FS_Subset
<1>6. PICK f : f = InOrder(S, <)
    OBVIOUS
<1>7. f = [r \in 1 .. Cardinality(S) |-> CHOOSE x \in S : Cardinality({y \in S : y < x}) = r - 1]
    BY <1>6 DEF InOrder
<1>8. ASSUME NEW r \in 1 .. Cardinality(S)
      PROVE  f[r] \in S /\ Cardinality(before[f[r]]) = r - 1
    <2>1. \E x \in S : Cardinality(before[x]) = r - 1
        BY <1>4, <1>5, RanksTaken
    <2>2. \A x \in S : before[x] = {y \in S : y < x}
        BY <1>1 DEF Below
    <2>3. \E x \in S : Cardinality({y \in S : y < x}) = r - 1
        BY <2>1, <2>2
    <2>4. f[r] \in S /\ Cardinality({y \in S : y < f[r]}) = r - 1
        BY <1>7, <2>3
    <2> QED
        BY <2>2, <2>4
<1>9. DOMAIN f = 1 .. Cardinality(S)
    BY <1>7
<1> QED
    BY <1>1, <1>4, <1>5, <1>6, <1>8, <1>9, Listing

\* The operators of a stage count as all operators do.
LEMMA GroupCounts ==
    ASSUME NEW query, NEW ops, Counting(ops, query), NEW stage, NEW own, own = groupOperatorsByStage(ops, stage)
    PROVE  Counting(own, query)
<1>1. PICK n \in Nat : n = Len(ops) /\ DOMAIN ops = 1 .. n
    <2>1. ops \in Seq(Range(ops))
        BY DEF Counting
    <2> QED
        BY <2>1
<1>2. PICK S \in SUBSET (1 .. n) : S = {k \in DOMAIN ops : ops[k].stage = stage}
    BY <1>1
<1>3. PICK places : places = InOrder(S, <)
    OBVIOUS
<1>4. Lists(places, S, Below(S))
    BY <1>1, <1>2, <1>3, NumbersInOrder
<1>5. PICK m \in Nat : DOMAIN places = 1 .. m
    BY <1>4 DEF Lists
<1>6. own = [r \in 1 .. m |-> ops[places[r]]]
    BY <1>2, <1>3, <1>5 DEF groupOperatorsByStage
<1>7. own \in Seq(Range(own))
    <2>1. own = [r \in 1 .. m |-> own[r]] /\ \A r \in 1 .. m : own[r] \in Range(own)
        BY <1>6 DEF Range
    <2> QED
        BY <1>5, <2>1, SegmentIsSeq
<1>8. \A op : op \in Range(own) <=> op \in Range(ops) /\ op.stage = stage
    <2>1. ASSUME NEW op \in Range(own)
          PROVE  op \in Range(ops) /\ op.stage = stage
        <3>1. PICK r \in 1 .. m : op = ops[places[r]]
            BY <1>6 DEF Range
        <3>2. places[r] \in S
            BY <1>4, <1>5 DEF Lists
        <3> QED
            BY <1>1, <1>2, <3>1, <3>2 DEF Range
    <2>2. ASSUME NEW op \in Range(ops), op.stage = stage
          PROVE  op \in Range(own)
        <3>1. PICK k \in DOMAIN ops : op = ops[k]
            BY DEF Range
        <3>2. k \in S
            BY <1>2, <2>2, <3>1
        <3>3. PICK r \in 1 .. m : places[r] = k
            BY <1>4, <1>5, <3>2 DEF Lists
        <3>4. op = own[r] /\ r \in DOMAIN own
            BY <1>6, <3>1, <3>3
        <3> QED
            BY <3>4 DEF Range
    <2> QED
        BY <2>1, <2>2
<1>9. \A op \in Range(own) : op.pipeline \in Nat /\ op.operator \in Nat /\ op.in \in Nat /\ op.out \in Nat
    BY <1>8 DEF Counting
<1>10. ASSUME NEW op \in Range(own), NEW id \in DOMAIN query.plans, NEW node \in Range(query.plans[id].plan),
              op.type \in infrastructureOps /\ op.node = node.id /\ node.name \in scanNodeNames
       PROVE  \E other \in Range(own) : /\ other.type \notin infrastructureOps /\ other.stage = op.stage
                                        /\ other.node = op.node /\ op.in <= other.in
    <2>1. op \in Range(ops) /\ op.stage = stage
        BY <1>8
    <2>2. PICK other \in Range(ops) : /\ other.type \notin infrastructureOps /\ other.stage = op.stage
                                      /\ other.node = op.node /\ op.in <= other.in
        BY <1>10, <2>1 DEF Counting
    <2>3. other \in Range(own)
        BY <1>8, <2>1, <2>2
    <2> QED
        BY <2>2, <2>3
<1> QED
    BY <1>7, <1>9, <1>10 DEF Counting

LEMMA OperatorsCount ==
    ASSUME NEW query, NEW status, NEW heard, NEW totals, IsSnapshot(query, status, heard, totals),
           NEW qi, qi = InfoOf(query, status, heard, totals),
           NEW infos, infos = resolveStageInfos(qi), NEW k \in DOMAIN infos
    PROVE  Counting(OperatorsFor(infos[k], qi.ops), query)
<1>1. PICK info : info = infos[k]
    OBVIOUS
<1>2. query \in Workloads
    BY DEF IsSnapshot
<1>3. InfosStand(infos, query, heard)
    BY <1>2, InfosAre
<1>4. PICK id \in DOMAIN query.plans : info = [Reported(query, id, heard) EXCEPT !.subs = info.subs]
    BY <1>1, <1>3 DEF InfosStand
<1>5. PICK report : report = query.reports[id][heard[id]]
    OBVIOUS
<1>6. info.ops = report.ops
    <2>1. PICK said, subs : said = Reported(query, id, heard) /\ info = [said EXCEPT !.subs = subs]
        BY <1>4
    <2>2. said.ops = report.ops /\ DOMAIN said = {"id", "subs", "plan", "tables", "cpu", "scheduled", "blocked", "read",
                                                  "positions", "bytes", "ops", "tasks"}
        BY <1>5, <2>1 DEF Reported
    <2> QED
        BY <2>1, <2>2
<1>7. Counting(report.ops, query)
    <2>1. heard[id] \in 1 .. Len(query.reports[id])
        BY DEF IsSnapshot
    <2>2. PICK reports : reports = query.reports[id]
        OBVIOUS
    <2>3. Cumulative(reports, Counters)
        BY <1>2, <2>2, WorkloadsAssumption
    <2>4. reports \in Seq(Range(reports))
        BY <2>3 DEF Cumulative
    <2>5. report \in Range(reports)
        BY <1>5, <2>1, <2>2, <2>4 DEF Range
    <2> QED
        BY <1>2, <2>2, <2>5, WorkloadsAssumption
<1>8. Counting(qi.ops, query)
    <2>1. qi.ops = query.ops[totals]
        BY DEF InfoOf
    <2>2. query.stats \in Seq(Range(query.stats)) /\ DOMAIN query.ops = DOMAIN query.stats
        BY <1>2, WorkloadsAssumption DEF Cumulative
    <2>3. totals \in DOMAIN query.ops
        BY <2>2 DEF IsSnapshot
    <2>4. query.ops[totals] \in Range(query.ops)
        BY <2>3 DEF Range
    <2> QED
        BY <1>2, <2>1, <2>4, WorkloadsAssumption
<1>9. PICK listed : listed = groupOperatorsByStage(qi.ops, info.id)
    OBVIOUS
<1>10. Counting(listed, query)
    BY <1>8, <1>9, GroupCounts
<1>11. OperatorsFor(info, qi.ops) = info.ops \/ OperatorsFor(info, qi.ops) = listed
    BY <1>9 DEF OperatorsFor
<1> QED
    BY <1>1, <1>6, <1>7, <1>10, <1>11

\* The operators of a node that took in the most.
Largest(node, ops) ==
    {k \in {m \in DOMAIN ops : ops[m].node = node} :
        \A l \in {m \in DOMAIN ops : ops[m].node = node} : ops[l].in <= ops[k].in}

LEMMA MetricsAre ==
    ASSUME NEW query, NEW ops, Counting(ops, query), NEW node, NEW read, read = OperatorMetrics(node, ops)
    PROVE  \/ read.physical = 0 /\ read.output = 0
           \/ \E k \in DOMAIN ops : /\ ops[k].node = node /\ read.physical = ops[k].in /\ read.output = ops[k].out
                                    /\ \A l \in DOMAIN ops : ops[l].node = node => ops[l].in <= ops[k].in
<1>1. PICK some : some = ScanOperators(node, ops)
    OBVIOUS
<1>2. CASE some = {}
    BY <1>1, <1>2 DEF OperatorMetrics
<1>3. CASE some # {}
    <2>1. some = {ops[Min(Largest(node, ops))]} /\ Largest(node, ops) # {}
        BY <1>1, <1>3, Zenon DEF ScanOperators, Largest
    <2>2. PICK largest : largest = Largest(node, ops)
        OBVIOUS
    <2>3. largest \in SUBSET Nat
        <3>1. ops \in Seq(Range(ops))
            BY DEF Counting
        <3>2. DOMAIN ops \in SUBSET Nat
            BY <3>1
        <3> QED
            BY <2>2, <3>2 DEF Largest
    <2>4. PICK k \in largest : k = Min(largest)
        BY <2>1, <2>2, <2>3, MinOf
    <2>5. k \in DOMAIN ops /\ ops[k].node = node /\ \A l \in DOMAIN ops : ops[l].node = node => ops[l].in <= ops[k].in
        BY <2>2, <2>4 DEF Largest
    <2>6. PICK op : op = CHOOSE one \in some : TRUE
        OBVIOUS
    <2>7. op = ops[k]
        BY <2>1, <2>2, <2>4, <2>6
    <2>8. read.physical = op.in /\ read.output = op.out
        BY <1>1, <1>3, <2>6 DEF OperatorMetrics
    <2> QED
        BY <2>5, <2>7, <2>8
<1> QED
    BY <1>2, <1>3


(***************************************************************************)
(* What the roll-up of a reply is.                                         *)
(***************************************************************************)
IsPart(g, f, S) == IsFiniteSet(S) /\ DOMAIN g = S /\ \A x \in S : g[x] = f[x]

LEMMA SumOfFunction ==
    ASSUME NEW g, NEW f, NEW S, IsPart(g, f, S)
    PROVE  SumFunction(g) = Sum(f, S)
<1>1. SumFunction(g) = Sum(g, S)
    BY SumIs DEF SumFunction, IsPart
<1>2. Sum(g, S) = Sum(f, S)
    BY SumsAgree DEF IsPart
<1> QED
    BY <1>1, <1>2

\* The roll-up of scans as ConnectorIOConserves has it.
ScansWith(c, scans) == {k \in DOMAIN scans : scans[k].connector = c}
StagesWith(c, scans, stages) == {k \in DOMAIN stages : \E l \in ScansWith(c, scans) : scans[l].stage = stages[k].id}

RecordFor(c, scans, stages) ==
    [scans |-> Cardinality(ScansWith(c, scans)),
     wait |-> SumFunction([k \in StagesWith(c, scans, stages) |-> stages[k].wait.ms]),
     rowsIn |-> SumFunction([k \in ScansWith(c, scans) |-> scans[k].physical]),
     rowsOut |-> SumFunction([k \in ScansWith(c, scans) |-> scans[k].output]),
     bytes |-> SumFunction([k \in StagesWith(c, scans, stages) |-> stages[k].bytes])]

LEMMA RollUpConserves ==
    ASSUME NEW scans, NEW last, Len(scans) = last, DOMAIN scans = 1 .. last,
           NEW stages, NEW n, Rollable(scans, last, stages, n),
           NEW io, io = buildConnectorIORollup(stages, scans), NEW c
    PROVE  /\ c \in DOMAIN io <=> ~Blank(c) /\ ScansWith(c, scans) # {}
           /\ c \in DOMAIN io => io[c] = RecordFor(c, scans, stages)
<1>1. PICK acc : io = acc.recs /\ RolledUp(acc, last, scans, last, stages, n)
    BY RollUp
<1>2. PICK among : among = ScansWith(c, scans)
    OBVIOUS
<1>3. ScansFor(c, last, scans) = among
    BY <1>2 DEF ScansFor, ScansWith
<1>4. c \in DOMAIN io <=> ~Blank(c) /\ among # {}
    BY <1>1, <1>3 DEF RolledUp
<1>5. ASSUME c \in DOMAIN io
      PROVE  io[c] = RecordFor(c, scans, stages)
    <2>1. io[c] = RecordOf(acc.recs, c)
        BY <1>1, <1>5 DEF RecordOf
    <2>2. RecordOf(acc.recs, c) = Tally(among, scans, last, stages, n)
        BY <1>1, <1>3, <1>4, <1>5 DEF RolledUp
    <2>3. PICK read : read = StagesFor(among, scans, stages, n)
        OBVIOUS
    <2>4. last \in Nat /\ n \in Nat /\ DOMAIN stages = 1 .. n
        BY DEF Rollable
    <2>5. StagesWith(c, scans, stages) = read
        BY <1>2, <2>3, <2>4, Zenon DEF StagesWith, StagesFor, IsRead
    <2>6. among \in SUBSET (1 .. last) /\ IsFiniteSet(among) /\ read \in SUBSET (1 .. n) /\ IsFiniteSet(read)
        <3>1. IsFiniteSet(1 .. last) /\ IsFiniteSet(1 .. n)
            BY <2>4, FS_Interval
        <3>2. among \in SUBSET (1 .. last)
            BY <1>2 DEF ScansWith
        <3>3. read \in SUBSET (1 .. n)
            BY <2>3 DEF StagesFor
        <3> QED
            BY <3>1, <3>2, <3>3, FS_Subset
    <2>7. SumFunction([k \in read |-> stages[k].wait.ms]) = Sum(Waits(stages, n), read)
        <3>1. PICK g : g = [k \in read |-> stages[k].wait.ms]
            OBVIOUS
        <3>2. PICK f : f = Waits(stages, n)
            OBVIOUS
        <3>3. DOMAIN g = read /\ \A k \in read : g[k] = f[k]
            BY <2>6, <3>1, <3>2 DEF Waits
        <3>4. IsPart(g, f, read)
            BY <2>6, <3>3 DEF IsPart
        <3>5. SumFunction(g) = Sum(f, read)
            BY <3>4, SumOfFunction
        <3> QED
            BY <3>1, <3>2, <3>5
    <2>8. SumFunction([k \in read |-> stages[k].bytes]) = Sum(Bytes(stages, n), read)
        <3>1. PICK g : g = [k \in read |-> stages[k].bytes]
            OBVIOUS
        <3>2. PICK f : f = Bytes(stages, n)
            OBVIOUS
        <3>3. DOMAIN g = read /\ \A k \in read : g[k] = f[k]
            BY <2>6, <3>1, <3>2 DEF Bytes
        <3>4. IsPart(g, f, read)
            BY <2>6, <3>3 DEF IsPart
        <3>5. SumFunction(g) = Sum(f, read)
            BY <3>4, SumOfFunction
        <3> QED
            BY <3>1, <3>2, <3>5
    <2>9. SumFunction([k \in among |-> scans[k].physical]) = Sum(RowsIn(scans, last), among)
        <3>1. PICK g : g = [k \in among |-> scans[k].physical]
            OBVIOUS
        <3>2. PICK f : f = RowsIn(scans, last)
            OBVIOUS
        <3>3. DOMAIN g = among /\ \A k \in among : g[k] = f[k]
            BY <2>6, <3>1, <3>2 DEF RowsIn
        <3>4. IsPart(g, f, among)
            BY <2>6, <3>3 DEF IsPart
        <3>5. SumFunction(g) = Sum(f, among)
            BY <3>4, SumOfFunction
        <3> QED
            BY <3>1, <3>2, <3>5
    <2>10. SumFunction([k \in among |-> scans[k].output]) = Sum(RowsOut(scans, last), among)
        <3>1. PICK g : g = [k \in among |-> scans[k].output]
            OBVIOUS
        <3>2. PICK f : f = RowsOut(scans, last)
            OBVIOUS
        <3>3. DOMAIN g = among /\ \A k \in among : g[k] = f[k]
            BY <2>6, <3>1, <3>2 DEF RowsOut
        <3>4. IsPart(g, f, among)
            BY <2>6, <3>3 DEF IsPart
        <3>5. SumFunction(g) = Sum(f, among)
            BY <3>4, SumOfFunction
        <3> QED
            BY <3>1, <3>2, <3>5
    <2>11. RecordFor(c, scans, stages) =
               [scans |-> Cardinality(among), wait |-> SumFunction([k \in read |-> stages[k].wait.ms]),
                rowsIn |-> SumFunction([k \in among |-> scans[k].physical]),
                rowsOut |-> SumFunction([k \in among |-> scans[k].output]),
                bytes |-> SumFunction([k \in read |-> stages[k].bytes])]
        BY <1>2, <2>5 DEF RecordFor
    <2>12. Tally(among, scans, last, stages, n) =
               [scans |-> Cardinality(among), wait |-> Sum(Waits(stages, n), read),
                rowsIn |-> Sum(RowsIn(scans, last), among), rowsOut |-> Sum(RowsOut(scans, last), among),
                bytes |-> Sum(Bytes(stages, n), read)]
        BY <2>3 DEF Tally
    <2> QED
        BY <2>1, <2>2, <2>7, <2>8, <2>9, <2>10, <2>11, <2>12
<1> QED
    BY <1>2, <1>4, <1>5

\* What a reply is made of.
Made(qi, infos, byNode, byFQN, stages, heard) ==
    /\ InfosStand(infos, workload, heard) /\ StagesStand(stages, workload, heard)
    /\ byNode = connectorByPlanNode(infos) /\ byFQN = connectorByFQN(infos)
    /\ stages = [k \in DOMAIN infos |-> StageFact(infos[k], qi.ops, byNode, byFQN)]
    /\ \A k \in DOMAIN infos : Counting(OperatorsFor(infos[k], qi.ops), workload)
    /\ Facts.stages = stages /\ Facts.scans = ScansIn(stages)
    /\ Facts.connectorIO = buildConnectorIORollup(stages, ScansIn(stages))

LEMMA ReplyIsMade ==
    ASSUME Inv, reply # Refusal
    PROVE  \E qi, infos, byNode, byFQN, stages, heard : Made(qi, infos, byNode, byFQN, stages, heard)
<1>1. PICK status, heard, totals : Known(status, heard, totals)
    BY RepliesAre
<1>2. PICK query : query = workload /\ IsSnapshot(query, status, heard, totals) /\ query \in Workloads
    BY <1>1 DEF Known, IsSnapshot
<1>3. PICK qi : qi = InfoOf(query, status, heard, totals)
    OBVIOUS
<1>4. PICK facts : facts = FactsOf(qi)
    OBVIOUS
<1>5. facts = Facts
    BY <1>1, <1>2, <1>3, <1>4, AnswerIs DEF Known, Facts
<1>6. PICK infos : infos = resolveStageInfos(qi)
    OBVIOUS
<1>7. InfosStand(infos, query, heard)
    BY <1>2, <1>3, <1>6, InfosAre
<1>8. PICK byNode, byFQN : byNode = connectorByPlanNode(infos) /\ byFQN = connectorByFQN(infos)
    OBVIOUS
<1>9. PICK stages : stages = StagesOf(qi)
    OBVIOUS
<1>10. stages = [k \in DOMAIN infos |-> StageFact(infos[k], qi.ops, byNode, byFQN)]
    BY <1>6, <1>8, <1>9 DEF StagesOf
<1>11. StagesStand(stages, query, heard)
    BY <1>2, <1>3, <1>9, StagesAre
<1>12. /\ facts.stages = stages /\ facts.scans = ScansIn(stages)
       /\ facts.connectorIO = buildConnectorIORollup(stages, ScansIn(stages))
    BY <1>4, <1>9, FactsAre
<1>13. \A k \in DOMAIN infos : Counting(OperatorsFor(infos[k], qi.ops), query)
    BY <1>2, <1>3, <1>6, OperatorsCount
<1>14. Made(qi, infos, byNode, byFQN, stages, heard)
    BY <1>2, <1>5, <1>7, <1>8, <1>10, <1>11, <1>12, <1>13 DEF Made
<1> QED
    BY <1>14


LEMMA MadeIsRollable ==
    ASSUME Inv, NEW qi, NEW infos, NEW byNode, NEW byFQN, NEW stages, NEW heard,
           Made(qi, infos, byNode, byFQN, stages, heard), NEW scans, scans = ScansIn(stages)
    PROVE  \E last, n : /\ Len(scans) = last /\ DOMAIN scans = 1 .. last /\ Rollable(scans, last, stages, n)
<1>1. PICK query \in Workloads : query = workload
    BY DEF Inv, IsSnapshot
<1>2. /\ InfosStand(infos, query, heard) /\ StagesStand(stages, query, heard)
      /\ stages = [k \in DOMAIN infos |-> StageFact(infos[k], qi.ops, byNode, byFQN)]
      /\ \A k \in DOMAIN infos : Counting(OperatorsFor(infos[k], qi.ops), query)
    BY <1>1 DEF Made
<1>3. PICK n \in Nat : DOMAIN infos = 1 .. n
    BY <1>2 DEF InfosStand
<1>4. DOMAIN stages = 1 .. n
    BY <1>2, <1>3
<1>5. PICK last \in Nat : Len(scans) = last /\ DOMAIN scans = 1 .. last
    <2>1. PICK seqs, start : Joined(ScansIn(stages), start, seqs, n, AllScans(stages))
        <3>1. AreJoined(stages, n)
            BY <1>2, <1>3, ScansJoined
        <3> QED
            BY <3>1 DEF AreJoined
    <2>2. scans \in Seq(AllScans(stages))
        BY <2>1 DEF Joined
    <2> QED
        BY <2>2
<1>6. \A m \in 1 .. n : stages[m].wait.ms \in Nat /\ stages[m].bytes \in Nat
    <2>1. StagesStand(stages, query, heard)
        BY <1>2
    <2> QED
        BY <1>4, <2>1, StagesAreMeasured
<1>7. \A l, m \in 1 .. n : stages[l].id = stages[m].id => l = m
    BY <1>2, <1>4 DEF StagesStand
<1>10. \A id \in DOMAIN query.plans : \E m \in 1 .. n : stages[m].id = id
    <2>1. StagesStand(stages, query, heard)
        BY <1>2
    <2> QED
        BY <1>4, <2>1 DEF StagesStand
<1>8. ASSUME NEW i \in 1 .. last
      PROVE  /\ scans[i].physical \in Nat /\ scans[i].output \in Nat
             /\ \E m \in 1 .. n : stages[m].id = scans[i].stage
    <2>1. PICK s \in Range(ScansIn(stages)) : s = scans[i]
        BY <1>5 DEF Range
    <2>2. PICK at, node : ScanStands(s, at, node, query, OperatorLists(infos, qi.ops), byNode, byFQN)
        BY <1>2, EachScan
    <2>3. PICK ops \in OperatorLists(infos, qi.ops) : s = buildScanPushdownFact(at, node, ops, byNode, byFQN)
        BY <2>2 DEF ScanStands
    <2>4. PICK read : read = OperatorMetrics(node.id, ops)
        OBVIOUS
    <2>5. s.stage = at /\ s.physical = read.physical /\ s.output = read.output
        BY <2>3, <2>4 DEF buildScanPushdownFact
    <2>6. Counting(ops, query)
        BY <1>2, <2>3 DEF OperatorLists
    <2>7. read.physical \in Nat /\ read.output \in Nat
        <3>1. \A k \in DOMAIN ops : ops[k].in \in Nat /\ ops[k].out \in Nat
            BY <2>6 DEF Counting, Range
        <3> QED
            BY <2>4, <2>6, <3>1, MetricsAre
    <2>8. at \in DOMAIN query.plans
        BY <2>2 DEF ScanStands
    <2>9. PICK m \in 1 .. n : stages[m].id = at
        BY <1>10, <2>8
    <2> QED
        BY <2>1, <2>5, <2>7, <2>9
<1>9. Rollable(scans, last, stages, n)
    BY <1>3, <1>4, <1>5, <1>6, <1>7, <1>8 DEF Rollable
<1> QED
    BY <1>5, <1>9

LEMMA ConservesAlways ==
    Inv => ConnectorIOConserves
<1> SUFFICES ASSUME Inv
             PROVE  ConnectorIOConserves
    OBVIOUS
<1>1. PICK scans, stages, io : scans = Facts.scans /\ stages = Facts.stages /\ io = Facts.connectorIO
    OBVIOUS
<1>2. SUFFICES /\ DOMAIN Facts.connectorIO = {s.connector : s \in Range(Facts.scans)} \ {""}
               /\ \A c \in DOMAIN Facts.connectorIO :
                      Facts.connectorIO[c] = RecordFor(c, Facts.scans, Facts.stages)
    BY Zenon DEF ConnectorIOConserves, RecordFor, ScansWith, StagesWith
<1>3. CASE reply = Refusal
    <2>1. DOMAIN io = {} /\ Range(scans) = {}
        BY <1>1, <1>3, NothingThere DEF Facts
    <2> QED
        BY <1>1, <2>1, Zenon
<1>4. CASE reply # Refusal
    <2>1. PICK qi, infos, byNode, byFQN, facts, heard :
              Made(qi, infos, byNode, byFQN, facts, heard)
        BY <1>4, ReplyIsMade
    <2>2. facts = stages /\ scans = ScansIn(stages) /\ io = buildConnectorIORollup(stages, scans)
        BY <1>1, <2>1 DEF Made
    <2>3. PICK last, n : /\ Len(scans) = last /\ DOMAIN scans = 1 .. last
                         /\ Rollable(scans, last, stages, n)
        BY <2>1, <2>2, MadeIsRollable
    <2>4. ASSUME NEW c
          PROVE  /\ c \in DOMAIN io <=> ~Blank(c) /\ ScansWith(c, scans) # {}
                 /\ c \in DOMAIN io => io[c] = RecordFor(c, scans, stages)
        BY <2>2, <2>3, RollUpConserves
    <2>5. ASSUME NEW c
          PROVE  c \in DOMAIN io <=> c \in {s.connector : s \in Range(scans)} \ {""}
        <3>1. ScansWith(c, scans) # {} <=> c \in {s.connector : s \in Range(scans)}
            BY Zenon DEF ScansWith, Range
        <3> QED
            BY <2>4, <3>1, Zenon DEF Blank
    <2> QED
        BY <1>1, <2>4, <2>5, Zenon
<1> QED
    BY <1>3, <1>4

\* The roll-up by connector loses no scan and charges the wait of a stage to a
\* connector exactly once (io_wait.go:76-79 and 106-114).
THEOREM RollUpIsConserved ==
    Spec => []ConnectorIOConserves
BY RepliesAreFromThePast, ConservesAlways, PTL


(***************************************************************************)
(* Rows.                                                                   *)
(***************************************************************************)
LEMMA SumOfMore ==
    ASSUME NEW g, NEW T, IsFiniteSet(T), \A x \in T : g[x] \in Nat, NEW U \in SUBSET T
    PROVE  Sum(g, U) <= Sum(g, T)
<1>1. PICK rest : rest = T \ U
    OBVIOUS
<1>2. IsFiniteSet(U) /\ IsFiniteSet(rest)
    BY <1>1, FS_Subset
<1>3. PICK bad \in SUBSET (SUBSET rest) : bad = {v \in SUBSET rest : ~(Sum(g, U) <= Sum(g, U \union v))}
    OBVIOUS
<1>4. ASSUME bad # {}
      PROVE  FALSE
    <2>1. PICK v \in bad : \A u \in SUBSET v : u # v => u \notin bad
        BY <1>2, <1>4, Smallest
    <2>2. v \in SUBSET rest /\ ~(Sum(g, U) <= Sum(g, U \union v))
        BY <1>3, <2>1
    <2>3. Sum(g, U) \in Nat
        BY <1>2, SumIsNat
    <2>4. v # {}
        <3>1. v = {} => U \union v = U
            OBVIOUS
        <3> QED
            BY <2>2, <2>3, <3>1
    <2>5. PICK a : a \in v
        BY <2>4
    <2>6. PICK u : u = v \ {a}
        OBVIOUS
    <2>7. Sum(g, U) <= Sum(g, U \union u)
        <3>1. u \in SUBSET v /\ u # v
            BY <2>5, <2>6
        <3> QED
            BY <1>3, <2>1, <2>2, <3>1
    <2>8. PICK w : w = U \union u
        OBVIOUS
    <2>9. U \union v = w \union {a} /\ a \notin w /\ w \in SUBSET T /\ a \in T
        BY <1>1, <2>2, <2>5, <2>6, <2>8
    <2>10. IsFiniteSet(w) /\ (\A x \in w : g[x] \in Nat) /\ g[a] \in Nat
        BY <2>9, FS_Subset
    <2>11. Sum(g, U \union v) = Sum(g, w) + g[a] /\ Sum(g, w) \in Nat
        BY <2>9, <2>10, SumAdds, SumIsNat
    <2> QED
        BY <2>2, <2>3, <2>7, <2>8, <2>10, <2>11
<1>5. rest \notin bad
    BY <1>4
<1>6. U \union rest = T
    BY <1>1
<1> QED
    BY <1>3, <1>5, <1>6

\* Amounts that are covered one to one add up to no more than what covers them.
Covers(g, T, f, S, h) ==
    \A k \in S : f[k] # 0 =>
        /\ h[k] \in T /\ f[k] <= g[h[k]]
        /\ \A l \in S : f[l] # 0 /\ h[l] = h[k] => l = k

LEMMA SumIsCovered ==
    ASSUME NEW g, NEW T, IsFiniteSet(T), \A x \in T : g[x] \in Nat,
           NEW f, NEW S, IsFiniteSet(S), \A x \in S : f[x] \in Nat, NEW h, Covers(g, T, f, S, h)
    PROVE  Sum(f, S) <= Sum(g, T)
<1>1. PICK image : image = [s \in SUBSET S |-> {h[k] : k \in {k \in s : f[k] # 0}}]
    OBVIOUS
<1>2. \A s \in SUBSET S : image[s] \in SUBSET T /\ IsFiniteSet(image[s])
    <2>1. \A s \in SUBSET S : image[s] \in SUBSET T
        BY <1>1 DEF Covers
    <2> QED
        BY <2>1, FS_Subset
<1>3. PICK bad \in SUBSET (SUBSET S) : bad = {s \in SUBSET S : ~(Sum(f, s) <= Sum(g, image[s]))}
    OBVIOUS
<1>4. ASSUME bad # {}
      PROVE  FALSE
    <2>1. PICK s \in bad : \A u \in SUBSET s : u # s => u \notin bad
        BY <1>4, Smallest
    <2>2. s \in SUBSET S /\ ~(Sum(f, s) <= Sum(g, image[s]))
        BY <1>3, <2>1
    <2>3. IsFiniteSet(s) /\ (\A x \in s : f[x] \in Nat) /\ IsFiniteSet(image[s])
          /\ \A x \in image[s] : g[x] \in Nat
        BY <1>2, <2>2, FS_Subset
    <2>4. Sum(g, image[s]) \in Nat
        BY <2>3, SumIsNat
    <2>5. s # {}
        <3>1. s = {} => Sum(f, s) = 0
            BY SumOfNothing
        <3>2. PICK m, n : m = Sum(g, image[s]) /\ n = Sum(f, s)
            OBVIOUS
        <3>3. m \in Nat /\ ~(n <= m) /\ (s = {} => n = 0)
            BY <2>2, <2>4, <3>1, <3>2
        <3> QED
            BY <3>3
    <2>6. PICK a : a \in s
        BY <2>5
    <2>7. PICK u : u = s \ {a}
        OBVIOUS
    <2>8. u \in SUBSET s /\ u # s /\ u \in SUBSET S
        BY <2>2, <2>6, <2>7
    <2>9. Sum(f, u) <= Sum(g, image[u])
        BY <1>3, <2>1, <2>8
    <2>10. Sum(f, s) = f[a] + Sum(f, u)
        BY <2>3, <2>6, <2>7, SumRemoves
    <2>11. f[a] \in Nat /\ Sum(f, u) \in Nat /\ Sum(g, image[u]) \in Nat
        <3>1. IsFiniteSet(u) /\ (\A x \in u : f[x] \in Nat) /\ IsFiniteSet(image[u])
              /\ \A x \in image[u] : g[x] \in Nat
            BY <1>2, <2>3, <2>8, FS_Subset
        <3> QED
            BY <2>3, <2>6, <3>1, SumIsNat
    <2>12. CASE f[a] = 0
        <3>1. image[s] = image[u]
            BY <1>1, <2>2, <2>7, <2>8, <2>12
        <3> QED
            BY <2>2, <2>9, <2>10, <2>11, <2>12, <3>1
    <2>13. CASE f[a] # 0
        <3>1. PICK b, v : b = h[a] /\ v = image[u]
            OBVIOUS
        <3>2. image[s] = v \union {b}
            BY <1>1, <2>2, <2>6, <2>7, <2>8, <2>13, <3>1
        <3>3. b \notin v
            <4>1. ASSUME NEW k \in u, f[k] # 0
                  PROVE  h[k] # b
                BY <2>2, <2>6, <2>7, <2>13, <3>1, <4>1 DEF Covers
            <4> QED
                BY <1>1, <2>8, <3>1, <4>1
        <3>4. b \in T /\ f[a] <= g[b] /\ g[b] \in Nat
            BY <2>2, <2>6, <2>13, <3>1 DEF Covers
        <3>5. IsFiniteSet(v) /\ \A x \in v : g[x] \in Nat
            BY <1>2, <2>8, <3>1
        <3>6. Sum(g, image[s]) = Sum(g, v) + g[b]
            BY <3>2, <3>3, <3>4, <3>5, SumAdds
        <3> QED
            BY <2>2, <2>9, <2>10, <2>11, <3>1, <3>4, <3>6
    <2> QED
        BY <2>12, <2>13
<1>5. Sum(f, S) <= Sum(g, image[S])
    BY <1>3, <1>4
<1>6. Sum(g, image[S]) <= Sum(g, T)
    BY <1>2, SumOfMore
<1>7. Sum(f, S) \in Nat /\ Sum(g, image[S]) \in Nat /\ Sum(g, T) \in Nat
    <2>1. \A x \in image[S] : g[x] \in Nat
        BY <1>2
    <2> QED
        BY <1>2, <2>1, SumIsNat
<1> QED
    BY <1>5, <1>6, <1>7


\* The operators of a stage as they are listed: by pipeline, by operator, by place.
Upstream(ops, S) ==
    [l \in S |-> {k \in S : UpstreamFirst(ops[k], ops[l]) \/ (k < l /\ ~UpstreamFirst(ops[l], ops[k]))}]

LEMMA UpstreamOrders ==
    ASSUME NEW S \in SUBSET Int, NEW ops, \A k \in S : ops[k].pipeline \in Nat /\ ops[k].operator \in Nat
    PROVE  Orders(Upstream(ops, S), S)
<1>1. PICK before : before = Upstream(ops, S)
    OBVIOUS
<1>2. PICK p, o : p = [k \in S |-> ops[k].pipeline] /\ o = [k \in S |-> ops[k].operator]
    OBVIOUS
<1>3. \A k \in S : k \in Int /\ p[k] \in Int /\ o[k] \in Int
    BY <1>2
<1>4. \A k, l \in S : k \in before[l] <=> \/ p[k] < p[l]
                                          \/ p[k] = p[l] /\ o[k] < o[l]
                                          \/ p[k] = p[l] /\ o[k] = o[l] /\ k < l
    <2>1. ASSUME NEW k \in S, NEW l \in S
          PROVE  UpstreamFirst(ops[k], ops[l]) <=> p[k] < p[l] \/ (p[k] = p[l] /\ o[k] < o[l])
        BY <1>2 DEF UpstreamFirst
    <2>2. \A k, l \in S : k \in before[l] <=> \/ UpstreamFirst(ops[k], ops[l])
                                              \/ k < l /\ ~UpstreamFirst(ops[l], ops[k])
        BY <1>1 DEF Upstream
    <2> QED
        BY <1>3, <2>1, <2>2
<1>5. before \in [S -> SUBSET S]
    BY <1>1 DEF Upstream
<1>6. \A k \in S : k \notin before[k]
    BY <1>3, <1>4
<1>7. ASSUME NEW l \in S, NEW k \in before[l], NEW j \in before[k]
      PROVE  j \in before[l]
    <2>1. k \in S /\ j \in S
        BY <1>5, <1>7
    <2> QED
        BY <1>3, <1>4, <1>7, <2>1
<1>8. \A k, l \in S : k # l => k \in before[l] \/ l \in before[k]
    BY <1>3, <1>4
<1> QED
    BY <1>1, <1>5, <1>6, <1>7, <1>8 DEF Orders

LEMMA UpstreamLists ==
    ASSUME NEW S \in SUBSET Int, IsFiniteSet(S),
           NEW ops, \A k \in S : ops[k].pipeline \in Nat /\ ops[k].operator \in Nat
    PROVE  Lists(Sorted(ops, S, UpstreamFirst), S, Upstream(ops, S))
<1>1. PICK before : before = Upstream(ops, S)
    OBVIOUS
<1>2. Orders(before, S)
    BY <1>1, UpstreamOrders
<1>3. \A x \in S :
          before[x] = {y \in S : UpstreamFirst(ops[y], ops[x]) \/ (y < x /\ ~UpstreamFirst(ops[x], ops[y]))}
    BY <1>1 DEF Upstream
<1>4. PICK f : f = Sorted(ops, S, UpstreamFirst)
    OBVIOUS
<1>5. f = [r \in 1 .. Cardinality(S) |->
              CHOOSE x \in S : Cardinality({y \in S : UpstreamFirst(ops[y], ops[x]) \/ (y < x /\ ~UpstreamFirst(ops[x], ops[y]))}) = r - 1]
    BY <1>4 DEF Sorted, InOrder
<1>6. ASSUME NEW r \in 1 .. Cardinality(S)
      PROVE  f[r] \in S /\ Cardinality(before[f[r]]) = r - 1
    <2>1. \E x \in S : Cardinality(before[x]) = r - 1
        BY <1>2, RanksTaken
    <2>2. \E x \in S : Cardinality({y \in S : UpstreamFirst(ops[y], ops[x]) \/ (y < x /\ ~UpstreamFirst(ops[x], ops[y]))}) = r - 1
        BY <1>3, <2>1
    <2>3. /\ f[r] \in S
          /\ Cardinality({y \in S : UpstreamFirst(ops[y], ops[f[r]]) \/ (y < f[r] /\ ~UpstreamFirst(ops[f[r]], ops[y]))}) = r - 1
        BY <1>5, <2>2
    <2> QED
        BY <1>3, <2>3
<1> QED
    BY <1>1, <1>2, <1>4, <1>5, <1>6, Listing

\* facts are the operators that do work; work is where they stand among all.
AtWork(facts, work, m, ops) ==
    /\ m \in Nat /\ DOMAIN facts = 1 .. m
    /\ \A r \in 1 .. m : work[r] \in DOMAIN ops /\ facts[r].in = ops[work[r]].in /\ facts[r].in \in Nat
    /\ \A k \in DOMAIN ops : ops[k].type \notin infrastructureOps => \E r \in 1 .. m : work[r] = k

LEMMA OperatorsAtWork ==
    ASSUME NEW query, NEW ops, Counting(ops, query), NEW facts, facts = ProjectedOperators(ops)
    PROVE  \E work, m : AtWork(facts, work, m, ops)
<1>1. PICK n \in Nat : DOMAIN ops = 1 .. n
    <2>1. ops \in Seq(Range(ops))
        BY DEF Counting
    <2> QED
        BY <2>1
<1>2. \A k \in 1 .. n : ops[k].pipeline \in Nat /\ ops[k].operator \in Nat /\ ops[k].in \in Nat
    BY <1>1 DEF Counting, Range
<1>3. PICK S : S = {k \in DOMAIN ops : ops[k].type \notin infrastructureOps}
    OBVIOUS
<1>4. S \in SUBSET (1 .. n) /\ S \in SUBSET Int /\ IsFiniteSet(S)
    <2>1. IsFiniteSet(1 .. n) /\ S \in SUBSET (1 .. n)
        BY <1>1, <1>3, FS_Interval
    <2>2. S \in SUBSET Int
        BY <2>1
    <2> QED
        BY <2>1, <2>2, FS_Subset
<1>5. PICK work : work = Sorted(ops, S, UpstreamFirst)
    OBVIOUS
<1>6. Lists(work, S, Upstream(ops, S))
    BY <1>2, <1>4, <1>5, UpstreamLists
<1>7. PICK m \in Nat : DOMAIN work = 1 .. m
    BY <1>6 DEF Lists
<1>8. facts = [r \in 1 .. m |-> OperatorFact(ops[work[r]])]
    BY <1>3, <1>5, <1>7 DEF ProjectedOperators
<1>9. \A op : OperatorFact(op).in = op.in
    BY DEF OperatorFact
<1>10. \A r \in 1 .. m : work[r] \in 1 .. n
    BY <1>4, <1>6, <1>7 DEF Lists
<1>11. \A k \in S : \E r \in 1 .. m : work[r] = k
    BY <1>6, <1>7 DEF Lists
<1>12. AtWork(facts, work, m, ops)
    BY <1>1, <1>2, <1>3, <1>7, <1>8, <1>9, <1>10, <1>11 DEF AtWork
<1> QED
    BY <1>12


\* The r-th working operator belongs to a node and took in so many rows.
Credited(rows, id, r, facts, work, m, ops) ==
    r \in 1 .. m /\ rows <= facts[r].in /\ ops[work[r]].node = id

LEMMA RowsHaveOperator ==
    ASSUME NEW query, NEW ops, Counting(ops, query), NEW facts, NEW work, NEW m, AtWork(facts, work, m, ops),
           NEW stage \in DOMAIN query.plans, NEW node \in Range(query.plans[stage].plan), node.name \in scanNodeNames,
           NEW read, read = OperatorMetrics(node.id, ops), read.physical # 0
    PROVE  \E r : Credited(read.physical, node.id, r, facts, work, m, ops)
<1>1. PICK k \in DOMAIN ops : ops[k].node = node.id /\ read.physical = ops[k].in
    BY MetricsAre
<1>2. \A l \in DOMAIN ops : ops[l] \in Range(ops)
    BY DEF Range
<1>3. \A l \in DOMAIN ops : ops[l].in \in Nat
    BY <1>2 DEF Counting
<1>4. PICK l \in DOMAIN ops : ops[l].type \notin infrastructureOps /\ ops[l].node = node.id /\ ops[k].in <= ops[l].in
    <2>1. CASE ops[k].type \notin infrastructureOps
        BY <1>1, <1>3, <2>1
    <2>2. CASE ops[k].type \in infrastructureOps
        <3>1. PICK op \in Range(ops) : op = ops[k]
            BY <1>2
        <3>2. PICK other \in Range(ops) : /\ other.type \notin infrastructureOps /\ other.node = op.node
                                          /\ op.in <= other.in
            BY <1>1, <2>2, <3>1 DEF Counting
        <3>3. PICK l \in DOMAIN ops : other = ops[l]
            BY DEF Range
        <3> QED
            BY <1>1, <3>1, <3>2, <3>3
    <2> QED
        BY <2>1, <2>2
<1>5. PICK r \in 1 .. m : work[r] = l
    BY <1>4 DEF AtWork
<1>6. facts[r].in = ops[l].in
    BY <1>5 DEF AtWork
<1>7. Credited(read.physical, node.id, r, facts, work, m, ops)
    BY <1>1, <1>4, <1>5, <1>6 DEF Credited
<1> QED
    BY <1>7

\* What the scans of a stage have read its operators took in.
LEMMA StageIsCovered ==
    ASSUME NEW query \in Workloads, NEW info, Planned(info, query), NEW ops, Counting(ops, query),
           NEW byNode, NEW byFQN, NEW scans, NEW paths, ScansRead(scans, paths, info, ops, byNode, byFQN),
           NEW facts, facts = ProjectedOperators(ops)
    PROVE  SumOf(scans, LAMBDA scan : scan.physical) <= SumOf(facts, LAMBDA op : op.in)
<1>1. PICK stage \in DOMAIN query.plans : info.id = stage /\ info.plan = query.plans[stage].plan
    BY DEF Planned
<1>2. PICK plan : plan = query.plans[stage].plan
    OBVIOUS
<1>3. NodesDiffer(plan)
    BY <1>2, WorkloadsAssumption
<1>4. PICK work, m : AtWork(facts, work, m, ops)
    BY OperatorsAtWork
<1>5. PICK last \in Nat : DOMAIN scans = 1 .. last
    BY DEF ScansRead
<1>6. PICK S, T : S = 1 .. last /\ T = 1 .. m
    OBVIOUS
<1>7. IsFiniteSet(S) /\ IsFiniteSet(T)
    BY <1>4, <1>5, <1>6, FS_Interval DEF AtWork
<1>8. PICK f, g : f = [k \in S |-> scans[k].physical] /\ g = [r \in T |-> facts[r].in]
    OBVIOUS
<1>9. \A r \in T : g[r] \in Nat
    BY <1>4, <1>6, <1>8 DEF AtWork
<1>10. PICK nodes : nodes = [k \in S |-> plan[paths[k]]]
    OBVIOUS
<1>11. ASSUME NEW k \in S
       PROVE  /\ nodes[k] \in Range(plan) /\ nodes[k].name \in scanNodeNames
              /\ \E read : read = OperatorMetrics(nodes[k].id, ops) /\ f[k] = read.physical
    <2>1. PICK node : node = nodes[k]
        OBVIOUS
    <2>2. /\ paths[k] \in DOMAIN plan /\ node = plan[paths[k]] /\ node.name \in scanNodeNames
          /\ scans[k] = buildScanPushdownFact(stage, node, ops, byNode, byFQN)
        BY <1>1, <1>2, <1>5, <1>6, <1>10, <2>1 DEF ScansRead, FactAt
    <2>3. PICK read : read = OperatorMetrics(node.id, ops)
        OBVIOUS
    <2>4. scans[k].physical = read.physical
        BY <2>2, <2>3 DEF buildScanPushdownFact
    <2> QED
        BY <1>8, <2>1, <2>2, <2>3, <2>4 DEF Range
<1>12. \A k \in S : f[k] \in Nat
    <2>1. ASSUME NEW k \in S
          PROVE  f[k] \in Nat
        <3>1. PICK read : read = OperatorMetrics(nodes[k].id, ops) /\ f[k] = read.physical
            BY <1>11
        <3>2. \A l \in DOMAIN ops : ops[l].in \in Nat
            BY DEF Counting, Range
        <3> QED
            BY <3>1, <3>2, MetricsAre
    <2> QED
        BY <2>1
<1>13. PICK h : h = [k \in S |-> CHOOSE r : Credited(f[k], nodes[k].id, r, facts, work, m, ops)]
    OBVIOUS
<1>14. ASSUME NEW k \in S, f[k] # 0
       PROVE  Credited(f[k], nodes[k].id, h[k], facts, work, m, ops)
    <2>1. PICK node : node = nodes[k] /\ node \in Range(query.plans[stage].plan) /\ node.name \in scanNodeNames
        BY <1>2, <1>11
    <2>2. PICK read : read = OperatorMetrics(node.id, ops) /\ f[k] = read.physical
        BY <1>11, <2>1
    <2>3. \E r : Credited(f[k], node.id, r, facts, work, m, ops)
        BY <1>4, <1>14, <2>1, <2>2, RowsHaveOperator
    <2> QED
        BY <1>13, <2>1, <2>3
<1>15. ASSUME NEW k \in S, NEW l \in S, f[k] # 0, f[l] # 0, h[l] = h[k]
       PROVE  l = k
    <2>1. nodes[k].id = nodes[l].id
        BY <1>14, <1>15 DEF Credited
    <2>2. paths[k] \in DOMAIN plan /\ paths[l] \in DOMAIN plan
        BY <1>1, <1>2, <1>5, <1>6 DEF ScansRead
    <2>3. paths[l] = paths[k]
        BY <1>3, <1>10, <2>1, <2>2 DEF NodesDiffer
    <2> QED
        BY <1>5, <1>6, <2>3 DEF ScansRead
<1>16. Covers(g, T, f, S, h)
    <2>1. ASSUME NEW k \in S, f[k] # 0
          PROVE  h[k] \in T /\ f[k] <= g[h[k]]
        BY <1>6, <1>8, <1>14, <2>1 DEF Credited
    <2> QED
        BY <1>15, <2>1 DEF Covers
<1>17. Sum(f, S) <= Sum(g, T)
    BY <1>7, <1>9, <1>12, <1>16, SumIsCovered
<1>18. SumOf(scans, LAMBDA scan : scan.physical) = Sum(f, S)
    <2>1. SumOf(scans, LAMBDA scan : scan.physical) = SumFunction(f)
        BY <1>5, <1>6, <1>8 DEF SumOf
    <2>2. IsPart(f, f, S)
        BY <1>7, <1>8 DEF IsPart
    <2> QED
        BY <2>1, <2>2, SumOfFunction
<1>19. SumOf(facts, LAMBDA op : op.in) = Sum(g, T)
    <2>1. DOMAIN facts = T
        BY <1>4, <1>6 DEF AtWork
    <2>2. SumOf(facts, LAMBDA op : op.in) = SumFunction(g)
        BY <1>8, <2>1 DEF SumOf
    <2>3. IsPart(g, g, T)
        BY <1>7, <1>8 DEF IsPart
    <2> QED
        BY <2>2, <2>3, SumOfFunction
<1> QED
    BY <1>17, <1>18, <1>19

LEMMA RowsAlways ==
    Inv => RowsCreditedOnce
<1> SUFFICES ASSUME Inv
             PROVE  RowsCreditedOnce
    OBVIOUS
<1>1. CASE reply = Refusal
    <2>1. Range(Facts.stages) = {}
        BY <1>1, NothingThere DEF Facts
    <2> QED
        BY <2>1, Zenon DEF RowsCreditedOnce
<1>2. CASE reply # Refusal
    <2>1. PICK qi, infos, byNode, byFQN, stages, heard :
              Made(qi, infos, byNode, byFQN, stages, heard)
        BY <1>2, ReplyIsMade
    <2>2. PICK query \in Workloads : query = workload
        BY DEF Inv, IsSnapshot
    <2>3. /\ InfosStand(infos, query, heard) /\ Facts.stages = stages
          /\ stages = [k \in DOMAIN infos |-> StageFact(infos[k], qi.ops, byNode, byFQN)]
          /\ \A k \in DOMAIN infos : Counting(OperatorsFor(infos[k], qi.ops), query)
        BY <2>1, <2>2 DEF Made
    <2>4. ASSUME NEW k \in DOMAIN infos
          PROVE  SumOf(stages[k].scans, LAMBDA scan : scan.physical)
                     <= SumOf(stages[k].operators, LAMBDA op : op.in)
        <3>1. PICK info : info = infos[k]
            OBVIOUS
        <3>2. PICK ops : ops = OperatorsFor(info, qi.ops) /\ Counting(ops, query)
            BY <2>3, <3>1
        <3>3. PICK scans, paths : scans = stages[k].scans /\ ScansRead(scans, paths, info, ops, byNode, byFQN)
            BY <2>3, <3>1, <3>2, ScansOfEachStage
        <3>4. PICK facts : facts = stages[k].operators /\ facts = ProjectedOperators(ops)
            BY <2>3, <3>1, <3>2, StageFactIs
        <3>5. Planned(info, query)
            BY <2>3, <3>1, PlansStand
        <3>6. SumOf(scans, LAMBDA scan : scan.physical) <= SumOf(facts, LAMBDA op : op.in)
            BY <3>2, <3>3, <3>4, <3>5, StageIsCovered
        <3> QED
            BY <3>3, <3>4, <3>6
    <2>5. DOMAIN stages = DOMAIN infos
        BY <2>3
    <2> QED
        BY <2>3, <2>4, <2>5 DEF RowsCreditedOnce, Range
<1> QED
    BY <1>1, <1>2

\* No operator's rows are credited to two scans: what the scans of a stage have read
\* is at most what its operators took in (scan_pushdown.go:83-94 and 206-215).
THEOREM RowsAreCreditedOnce ==
    Spec => []RowsCreditedOnce
BY RepliesAreFromThePast, RowsAlways, PTL


(***************************************************************************)
(* Findings that stay.                                                     *)
(***************************************************************************)
\* The rules about what cannot be undone.
CumulativeRules == {1, 3, 4, 8, 13, 15, 17, 18}

LEMMA CumulativeRulesAre ==
    ASSUME NEW facts, NEW rules, rules = DefaultEngine(facts)
    PROVE  /\ rules[1] = Rule("failed", "critical", Failed(facts))
           /\ rules[3] = Rule("memory-pressure", "warn", MemoryPressure(facts))
           /\ rules[4] = Rule("disk-spill", "warn", DiskSpill(facts))
           /\ rules[8] = Rule("scan-too-large", "warn", ScanTooLarge(facts))
           /\ rules[13] = Rule("missed-pushdown", "info", MissedPushdown(facts))
           /\ rules[15] = Rule("duplicate-federated-scans", "warn", DuplicateFederatedScans(facts))
           /\ rules[17] = Rule("iceberg-metadata-table", "warn", IcebergMetadataTable(facts))
           /\ rules[18] = Rule("unpushable-expression", "info", UnpushableExpression(facts))
BY DEF DefaultEngine

LEMMA RuleIsFiring ==
    ASSUME NEW id, NEW severity, NEW early \in BOOLEAN, NEW late \in BOOLEAN, early => late,
           Rule(id, severity, early).fires
    PROVE  Rule(id, severity, early) = Rule(id, severity, late) /\ Rule(id, severity, late).fires
BY DEF Rule

LEMMA RuleIsNamed ==
    ASSUME NEW id, NEW severity, NEW fires
    PROVE  Rule(id, severity, fires).id = id
BY DEF Rule

\* What fires of facts fires of later ones.
FiresStill(facts, later) ==
    /\ Failed(facts) => Failed(later)
    /\ MemoryPressure(facts) => MemoryPressure(later)
    /\ DiskSpill(facts) => DiskSpill(later)
    /\ ScanTooLarge(facts) => ScanTooLarge(later)
    /\ MissedPushdown(facts) => MissedPushdown(later)
    /\ DuplicateFederatedScans(facts) => DuplicateFederatedScans(later)
    /\ IcebergMetadataTable(facts) => IcebergMetadataTable(later)
    /\ UnpushableExpression(facts) => UnpushableExpression(later)

Booleans(facts) ==
    /\ Failed(facts) \in BOOLEAN /\ MemoryPressure(facts) \in BOOLEAN /\ DiskSpill(facts) \in BOOLEAN
    /\ ScanTooLarge(facts) \in BOOLEAN /\ MissedPushdown(facts) \in BOOLEAN
    /\ DuplicateFederatedScans(facts) \in BOOLEAN /\ IcebergMetadataTable(facts) \in BOOLEAN
    /\ UnpushableExpression(facts) \in BOOLEAN

LEMMA RulesAreBoolean ==
    ASSUME NEW facts
    PROVE  Booleans(facts)
<1>1. Failed(facts) \in BOOLEAN
    BY DEF Failed
<1>2. MemoryPressure(facts) \in BOOLEAN
    BY DEF MemoryPressure
<1>3. DiskSpill(facts) \in BOOLEAN
    BY DEF DiskSpill
<1>4. ScanTooLarge(facts) \in BOOLEAN
    BY DEF ScanTooLarge
<1>5. MissedPushdown(facts) \in BOOLEAN
    BY DEF MissedPushdown
<1>6. DuplicateFederatedScans(facts) \in BOOLEAN
    BY DEF DuplicateFederatedScans
<1>7. IcebergMetadataTable(facts) \in BOOLEAN
    BY DEF IcebergMetadataTable
<1>8. UnpushableExpression(facts) \in BOOLEAN
    BY DEF UnpushableExpression
<1> QED
    BY <1>1, <1>2, <1>3, <1>4, <1>5, <1>6, <1>7, <1>8 DEF Booleans

LEMMA RuleStays ==
    ASSUME NEW facts, NEW later, FiresStill(facts, later), NEW rules, rules = DefaultEngine(facts),
           NEW others, others = DefaultEngine(later), NEW k \in CumulativeRules, rules[k].fires
    PROVE  rules[k] = others[k] /\ others[k].fires
<1>1. Booleans(facts) /\ Booleans(later)
    BY RulesAreBoolean
<1>2. CASE k = 1
    BY <1>1, <1>2, CumulativeRulesAre, RuleIsFiring DEF FiresStill, Booleans
<1>3. CASE k = 3
    BY <1>1, <1>3, CumulativeRulesAre, RuleIsFiring DEF FiresStill, Booleans
<1>4. CASE k = 4
    BY <1>1, <1>4, CumulativeRulesAre, RuleIsFiring DEF FiresStill, Booleans
<1>5. CASE k = 8
    BY <1>1, <1>5, CumulativeRulesAre, RuleIsFiring DEF FiresStill, Booleans
<1>6. CASE k = 13
    BY <1>1, <1>6, CumulativeRulesAre, RuleIsFiring DEF FiresStill, Booleans
<1>7. CASE k = 15
    BY <1>1, <1>7, CumulativeRulesAre, RuleIsFiring DEF FiresStill, Booleans
<1>8. CASE k = 17
    BY <1>1, <1>8, CumulativeRulesAre, RuleIsFiring DEF FiresStill, Booleans
<1>9. CASE k = 18
    BY <1>1, <1>9, CumulativeRulesAre, RuleIsFiring DEF FiresStill, Booleans
<1> QED
    BY <1>2, <1>3, <1>4, <1>5, <1>6, <1>7, <1>8, <1>9 DEF CumulativeRules

LEMMA FindingsStay ==
    ASSUME NEW facts, NEW later, FiresStill(facts, later),
           NEW findings, FindingsOf(facts, findings), NEW others, FindingsOf(later, others),
           NEW f \in Range(findings), f.id \in Cumulatives
    PROVE  f \in Range(others)
<1>1. PICK rules, next : rules = DefaultEngine(facts) /\ next = DefaultEngine(later)
    OBVIOUS
<1>2. PICK fired \in SUBSET (1 .. 19) : fired = {k \in 1 .. 19 : rules[k].fires} /\ HoldsWorstFirst(findings, rules, fired)
    BY <1>1 DEF FindingsOf
<1>3. PICK firing \in SUBSET (1 .. 19) : firing = {k \in 1 .. 19 : next[k].fires} /\ HoldsWorstFirst(others, next, firing)
    BY <1>1 DEF FindingsOf
<1>4. PICK k \in fired : f = rules[k]
    <2>1. PICK r \in DOMAIN findings : f = findings[r]
        BY DEF Range
    <2> QED
        BY <1>2, <2>1 DEF HoldsWorstFirst
<1>5. k \in 1 .. 19 /\ rules[k].fires
    BY <1>2, <1>4
<1>6. k \in CumulativeRules
    <2>1. \A i, j \in 1 .. 19 : rules[i].id = rules[j].id => i = j
        <3>1. RulesStand(rules, facts)
            BY <1>1, RulesAre
        <3> QED
            BY <3>1 DEF RulesStand
    <2>2. /\ rules[1].id = "failed" /\ rules[3].id = "memory-pressure" /\ rules[4].id = "disk-spill"
          /\ rules[8].id = "scan-too-large" /\ rules[13].id = "missed-pushdown"
          /\ rules[15].id = "duplicate-federated-scans" /\ rules[17].id = "iceberg-metadata-table"
          /\ rules[18].id = "unpushable-expression"
        BY <1>1, CumulativeRulesAre, RuleIsNamed
    <2>3. \E j \in CumulativeRules : rules[j].id = rules[k].id
        BY <1>4, <2>2 DEF Cumulatives, CumulativeRules
    <2> QED
        BY <1>5, <2>1, <2>3 DEF CumulativeRules
<1>7. f = next[k] /\ k \in firing
    BY <1>1, <1>3, <1>4, <1>5, <1>6, RuleStays
<1>8. PICK r \in DOMAIN others : others[r] = next[k]
    BY <1>3, <1>7 DEF HoldsWorstFirst
<1> QED
    BY <1>7, <1>8 DEF Range

\* The order of the stages is the query's.
StageIds(query) ==
    LET paths == InOrder(DOMAIN query.shape, Preorder)
    IN  IF query.listed # << >> THEN [k \in DOMAIN query.listed |-> query.listed[k].id]
        ELSE [k \in DOMAIN paths |-> query.shape[paths[k]]]

NumberedAs(infos, ids) == DOMAIN infos = DOMAIN ids /\ \A k \in DOMAIN infos : infos[k].id = ids[k]

LEMMA StagesInOrder ==
    ASSUME NEW query \in Workloads, NEW status, NEW heard, NEW totals,
           NEW infos, infos = resolveStageInfos(InfoOf(query, status, heard, totals)),
           NEW ids, ids = StageIds(query)
    PROVE  NumberedAs(infos, ids)
<1>1. PICK qi : qi = InfoOf(query, status, heard, totals)
    OBVIOUS
<1>2. qi.stages = [k \in DOMAIN query.listed |->
          [Reported(query, query.listed[k].id, heard) EXCEPT !.subs = query.listed[k].subs]]
    BY <1>1 DEF InfoOf
<1>3. qi.outputStage = [p \in DOMAIN query.shape |-> Reported(query, query.shape[p], heard)]
    BY <1>1 DEF InfoOf
<1>4. StagesStandOnce(query)
    BY WorkloadsAssumption
<1>5. CASE query.listed = << >>
    <2>1. qi.stages = << >>
        BY <1>2, <1>5
    <2>2. PICK tree : tree = qi.outputStage
        OBVIOUS
    <2>3. infos = collectStages(tree)
        BY <1>1, <2>1, <2>2 DEF resolveStageInfos
    <2>4. PICK S : S = DOMAIN query.shape
        OBVIOUS
    <2>5. IsFiniteSet(S) /\ \A p \in S : p \in Seq(Nat \ {0})
        BY <1>4, <2>4 DEF StagesStandOnce, IsTree
    <2>6. PICK paths : paths = InOrder(S, Preorder)
        OBVIOUS
    <2>7. Lists(paths, S, Ahead(S))
        BY <2>5, <2>6, Walk
    <2>8. \A k \in DOMAIN paths : paths[k] \in S
        BY <2>7 DEF Lists
    <2>9. infos = [k \in DOMAIN paths |-> [tree[paths[k]] EXCEPT !.subs = UpstreamIds(tree, paths[k])]]
        BY <1>3, <2>2, <2>3, <2>4, <2>6 DEF collectStages
    <2>10. ids = [k \in DOMAIN paths |-> query.shape[paths[k]]]
        BY <1>5, <2>4, <2>6 DEF StageIds
    <2>11. ASSUME NEW k \in DOMAIN paths
           PROVE  infos[k].id = query.shape[paths[k]]
        <3>1. PICK p \in S : p = paths[k]
            BY <2>8
        <3>2. PICK info, id, subs : info = infos[k] /\ id = query.shape[p] /\ subs = UpstreamIds(tree, p)
            OBVIOUS
        <3>3. tree[p] = Reported(query, id, heard) /\ info = [tree[p] EXCEPT !.subs = subs]
            BY <1>3, <2>2, <2>4, <2>9, <3>1, <3>2
        <3>4. Told(info, query, id, heard, subs)
            BY <3>3 DEF Told
        <3>5. info.id = id
            BY <3>4, ReportedIs
        <3> QED
            BY <3>1, <3>2, <3>5
    <2> QED
        BY <2>9, <2>10, <2>11 DEF NumberedAs
<1>6. CASE query.listed # << >>
    <2>1. PICK n \in Nat : n = Len(query.listed) /\ DOMAIN query.listed = 1 .. n
        BY <1>4 DEF StagesStandOnce
    <2>2. n # 0
        BY <1>4, <1>6, <2>1, EmptySeq DEF StagesStandOnce
    <2>3. qi.stages # << >>
        <3>1. 1 \in DOMAIN qi.stages
            BY <1>2, <2>1, <2>2
        <3> QED
            BY <3>1
    <2>4. infos = qi.stages
        BY <1>1, <2>3 DEF resolveStageInfos
    <2>5. ids = [k \in DOMAIN query.listed |-> query.listed[k].id]
        BY <1>6 DEF StageIds
    <2>6. ASSUME NEW k \in DOMAIN query.listed
          PROVE  infos[k].id = query.listed[k].id
        <3>1. PICK info, id, subs : info = infos[k] /\ id = query.listed[k].id /\ subs = query.listed[k].subs
            OBVIOUS
        <3>2. Told(info, query, id, heard, subs)
            BY <1>2, <2>4, <3>1 DEF Told
        <3>3. info.id = id
            BY <3>2, ReportedIs
        <3> QED
            BY <3>1, <3>3
    <2> QED
        BY <1>2, <2>4, <2>5, <2>6 DEF NumberedAs
<1> QED
    BY <1>5, <1>6

\* Connectors are named by what is planned, so all answers about a query name the same.
LEMMA EntriesStay ==
    ASSUME NEW query \in Workloads, NEW heard, NEW infos, InfosStand(infos, query, heard),
           NEW later, NEW others, InfosStand(others, query, later),
           NEW ids, NumberedAs(infos, ids), NumberedAs(others, ids),
           NEW x \in NamedEntries(infos)
    PROVE  x \in NamedEntries(others)
<1>1. Sourced(x)
    BY EntriesAre
<1>2. PICK k \in DOMAIN infos : x \in EntriesOf(infos[k].tables, k)
    BY EntriesAre
<1>3. k \in DOMAIN others /\ infos[k].id = others[k].id
    BY <1>2 DEF NumberedAs
<1>4. infos[k].tables = others[k].tables
    <2>1. PICK info, other : info = infos[k] /\ other = others[k]
        OBVIOUS
    <2>2. Planned(info, query) /\ Planned(other, query)
        BY <1>2, <1>3, <2>1, PlansStand
    <2> QED
        BY <1>3, <2>1, <2>2 DEF Planned
<1>5. x \in EntriesOf(others[k].tables, k)
    BY <1>2, <1>4
<1> QED
    BY <1>1, <1>3, <1>5, EntriesAre

ByNode(entries) == [n \in {x.node : x \in entries} |-> LastOf(entries, n).connector]

ByTable(entries) ==
    LET some == {x \in entries : OfNamedTable(x)}
    IN  [t \in {x.table : x \in some} |-> FirstOf(some, t).connector]

LEMMA ConnectorsAreChosen ==
    ASSUME NEW infos, NEW entries, entries = NamedEntries(infos)
    PROVE  connectorByPlanNode(infos) = ByNode(entries) /\ connectorByFQN(infos) = ByTable(entries)
<1>1. connectorByPlanNode(infos) = ByNode(NamedEntries(infos))
    BY Zenon DEF connectorByPlanNode, ByNode, LastOf
<1>2. connectorByFQN(infos) = ByTable(NamedEntries(infos))
    BY Zenon DEF connectorByFQN, ByTable, FirstOf, OfNamedTable
<1> QED
    BY <1>1, <1>2

LEMMA ConnectorsStay ==
    ASSUME NEW query \in Workloads, NEW heard, NEW infos, InfosStand(infos, query, heard),
           NEW later, NEW others, InfosStand(others, query, later),
           NEW ids, NumberedAs(infos, ids), NumberedAs(others, ids)
    PROVE  /\ connectorByPlanNode(infos) = connectorByPlanNode(others)
           /\ connectorByFQN(infos) = connectorByFQN(others)
<1>1. \A x \in NamedEntries(infos) : x \in NamedEntries(others)
    BY EntriesStay
<1>2. \A x \in NamedEntries(others) : x \in NamedEntries(infos)
    BY EntriesStay
<1>3. PICK entries, named : entries = NamedEntries(infos) /\ named = NamedEntries(others)
    OBVIOUS
<1>4. entries = named
    BY <1>1, <1>2, <1>3
<1>5. NamedEntries(infos) = NamedEntries(others)
    BY <1>3, <1>4
<1>6. /\ connectorByPlanNode(infos) = ByNode(entries) /\ connectorByPlanNode(others) = ByNode(named)
      /\ connectorByFQN(infos) = ByTable(entries) /\ connectorByFQN(others) = ByTable(named)
    BY <1>3, ConnectorsAreChosen
<1> QED
    BY <1>4, <1>6

\* What of a scan does not depend on what has been read.
Reads(s, id, node, byNode, byFQN) ==
    /\ s.stage = id /\ s.node = node.id /\ s.table = node.table /\ s.filter = node.filter
    /\ s.connector = resolveConnectorType(node.id, node.table, byNode, byFQN)

Marked(x) == OfNamedTable(x) \/ x.filter # {}

IsScan(p, plan) == p \in DOMAIN plan /\ Len(p) <= MaxScanDepth /\ plan[p].name \in scanNodeNames

LEMMA FactReads ==
    ASSUME NEW id, NEW node, NEW ops, NEW byNode, NEW byFQN, NEW s, s = buildScanPushdownFact(id, node, ops, byNode, byFQN)
    PROVE  Reads(s, id, node, byNode, byFQN)
BY DEF buildScanPushdownFact, Reads

\* Such a scan is listed from the first answer on.
LEMMA MarkedTells ==
    ASSUME NEW query \in Workloads, NEW id \in DOMAIN query.plans, NEW node \in Range(query.plans[id].plan),
           node.name \in scanNodeNames, Marked(node), NEW s, s.table = node.table, s.filter = node.filter
    PROVE  Telling(s)
<1>1. Catalogued(query.plans[id].plan)
    BY WorkloadsAssumption
<1>2. node.table.name # "" => node.table.catalog # ""
    BY <1>1, Zenon DEF Catalogued
<1>3. node.table.name # "" \/ node.filter # {}
    BY Zenon DEF Marked, OfNamedTable
<1> QED
    BY <1>2, <1>3, Zenon DEF Telling

\* The scans of one stage.
AreOf(scans, id, plan, byNode, byFQN) ==
    /\ \A j \in DOMAIN scans : \E p : IsScan(p, plan) /\ Reads(scans[j], id, plan[p], byNode, byFQN)
    /\ \A p : IsScan(p, plan) /\ Marked(plan[p]) => \E j \in DOMAIN scans : Reads(scans[j], id, plan[p], byNode, byFQN)
    /\ \A i, j \in DOMAIN scans : scans[i].node = scans[j].node => i = j

LEMMA StageScans ==
    ASSUME NEW query \in Workloads, NEW id \in DOMAIN query.plans, NEW plan, plan = query.plans[id].plan,
           NEW info, info.id = id, info.plan = plan, NEW ops, NEW byNode, NEW byFQN,
           NEW scans, NEW paths, ScansRead(scans, paths, info, ops, byNode, byFQN)
    PROVE  AreOf(scans, id, plan, byNode, byFQN)
<1>1. PICK S : S = ScanPaths(info, ops, byNode, byFQN)
    OBVIOUS
<1>2. \A j \in DOMAIN scans : paths[j] \in S /\ scans[j] = FactAt(paths[j], info, ops, byNode, byFQN)
    BY <1>1 DEF ScansRead
<1>3. \A p \in S : \E j \in DOMAIN scans : paths[j] = p
    BY <1>1 DEF ScansRead
<1>4. \A p \in S : IsScan(p, plan)
    BY <1>1 DEF ScanPaths, IsScan
<1>5. ASSUME NEW j \in DOMAIN scans
      PROVE  IsScan(paths[j], plan) /\ Reads(scans[j], id, plan[paths[j]], byNode, byFQN)
    <2>1. PICK s, node : s = scans[j] /\ node = plan[paths[j]]
        OBVIOUS
    <2>2. s = buildScanPushdownFact(id, node, ops, byNode, byFQN)
        BY <1>2, <2>1 DEF FactAt
    <2>3. Reads(s, id, node, byNode, byFQN)
        BY <2>2, FactReads
    <2> QED
        BY <1>2, <1>4, <2>1, <2>3
<1>6. ASSUME NEW p, IsScan(p, plan), Marked(plan[p])
      PROVE  \E j \in DOMAIN scans : Reads(scans[j], id, plan[p], byNode, byFQN)
    <2>1. PICK node : node = plan[p]
        OBVIOUS
    <2>2. PICK s : s = buildScanPushdownFact(id, node, ops, byNode, byFQN)
        OBVIOUS
    <2>3. node \in Range(query.plans[id].plan) /\ node.name \in scanNodeNames
        BY <1>6, <2>1 DEF IsScan, Range
    <2>4. s.table = node.table /\ s.filter = node.filter
        BY <2>2, FactReads DEF Reads
    <2>5. Telling(s)
        BY <1>6, <2>1, <2>3, <2>4, MarkedTells
    <2>6. p \in S
        <3>1. FactAt(p, info, ops, byNode, byFQN) = s
            BY <2>1, <2>2 DEF FactAt
        <3> QED
            BY <1>1, <1>6, <2>5, <3>1 DEF ScanPaths, IsScan
    <2>7. PICK j \in DOMAIN scans : paths[j] = p
        BY <1>3, <2>6
    <2> QED
        BY <1>5, <2>7
<1>7. ASSUME NEW i \in DOMAIN scans, NEW j \in DOMAIN scans, scans[i].node = scans[j].node
      PROVE  i = j
    <2>1. plan[paths[i]].id = plan[paths[j]].id
        BY <1>5, <1>7 DEF Reads
    <2>2. paths[i] \in DOMAIN plan /\ paths[j] \in DOMAIN plan
        BY <1>5 DEF IsScan
    <2>3. NodesDiffer(plan)
        BY WorkloadsAssumption
    <2>4. paths[i] = paths[j]
        BY <2>1, <2>2, <2>3 DEF NodesDiffer
    <2> QED
        BY <2>4 DEF ScansRead
<1> QED
    BY <1>5, <1>6, <1>7 DEF AreOf

\* The scans of all stages.
Located(scans, query, byNode, byFQN) ==
    /\ Len(scans) \in Nat /\ DOMAIN scans = 1 .. Len(scans)
    /\ \A i \in DOMAIN scans : \E id \in DOMAIN query.plans : \E p :
          IsScan(p, query.plans[id].plan) /\ Reads(scans[i], id, query.plans[id].plan[p], byNode, byFQN)
    /\ \A id \in DOMAIN query.plans : \A p :
          IsScan(p, query.plans[id].plan) /\ Marked(query.plans[id].plan[p]) =>
              \E i \in DOMAIN scans : Reads(scans[i], id, query.plans[id].plan[p], byNode, byFQN)
    /\ \A i, j \in DOMAIN scans : scans[i].stage = scans[j].stage /\ scans[i].node = scans[j].node => i = j

LEMMA ScansLocated ==
    ASSUME NEW query \in Workloads, NEW heard, NEW infos, InfosStand(infos, query, heard), NEW allOps,
           NEW byNode, NEW byFQN, NEW stages,
           stages = [k \in DOMAIN infos |-> StageFact(infos[k], allOps, byNode, byFQN)],
           NEW scans, scans = ScansIn(stages)
    PROVE  Located(scans, query, byNode, byFQN)
<1>1. PICK n \in Nat : DOMAIN infos = 1 .. n
    BY DEF InfosStand
<1>2. PICK seqs, start : /\ \A k \in 1 .. n : seqs[k] = stages[k].scans
                         /\ Joined(scans, start, seqs, n, AllScans(stages))
    <2>1. AreJoined(stages, n)
        BY <1>1, ScansJoined
    <2> QED
        BY <2>1 DEF AreJoined
<1>3. ASSUME NEW k \in 1 .. n
      PROVE  /\ infos[k].id \in DOMAIN query.plans
             /\ AreOf(seqs[k], infos[k].id, query.plans[infos[k].id].plan, byNode, byFQN)
             /\ DOMAIN seqs[k] = 1 .. Len(seqs[k]) /\ Len(seqs[k]) \in Nat
             /\ \A j \in DOMAIN seqs[k] : seqs[k][j].stage = infos[k].id
    <2>1. PICK info, own : info = infos[k] /\ own = seqs[k]
        OBVIOUS
    <2>2. PICK id \in DOMAIN query.plans : info.id = id /\ info.plan = query.plans[id].plan
        <3>1. Planned(info, query)
            BY <1>1, <2>1, PlansStand
        <3> QED
            BY <3>1 DEF Planned
    <2>3. PICK plan, ops : plan = query.plans[id].plan /\ ops = OperatorsFor(info, allOps)
        OBVIOUS
    <2>4. PICK paths : ScansRead(own, paths, info, ops, byNode, byFQN)
        BY <1>1, <1>2, <2>1, <2>3, ScansOfEachStage
    <2>5. AreOf(own, id, plan, byNode, byFQN)
        BY <2>2, <2>3, <2>4, StageScans
    <2>6. DOMAIN own = 1 .. Len(own) /\ Len(own) \in Nat
        BY <2>4 DEF ScansRead
    <2>7. ASSUME NEW j \in DOMAIN own
          PROVE  own[j].stage = id
        <3>1. PICK p : Reads(own[j], id, plan[p], byNode, byFQN)
            BY <2>5 DEF AreOf
        <3> QED
            BY <3>1 DEF Reads
    <2> QED
        BY <2>1, <2>2, <2>3, <2>5, <2>6, <2>7
<1>4. PICK total \in Nat : Len(scans) = total /\ DOMAIN scans = 1 .. total
    <2>1. scans \in Seq(AllScans(stages))
        BY <1>2 DEF Joined
    <2> QED
        BY <2>1
<1>5. ASSUME NEW i \in 1 .. total
      PROVE  \E k \in 1 .. n : \E j \in DOMAIN seqs[k] : i = start[k] + j /\ scans[i] = seqs[k][j]
    <2>1. PICK k \in 1 .. n : \E j \in 1 .. Len(seqs[k]) : i = start[k] + j
        BY <1>2, <1>4 DEF Joined
    <2>2. PICK j \in 1 .. Len(seqs[k]) : i = start[k] + j
        BY <2>1
    <2>3. scans[start[k] + j] = seqs[k][j]
        BY <1>2 DEF Joined
    <2> QED
        BY <1>3, <2>2, <2>3
<1>6. ASSUME NEW k \in 1 .. n, NEW j \in DOMAIN seqs[k]
      PROVE  start[k] + j \in 1 .. total /\ scans[start[k] + j] = seqs[k][j]
    <2>1. j \in 1 .. Len(seqs[k])
        BY <1>3
    <2>2. start[k] + Len(seqs[k]) <= total /\ scans[start[k] + j] = seqs[k][j] /\ start[k] \in Nat
        BY <1>2, <1>4, <2>1 DEF Joined
    <2>3. Len(seqs[k]) \in Nat
        BY <1>3
    <2> QED
        BY <2>1, <2>2, <2>3
<1>7. ASSUME NEW i \in 1 .. total
      PROVE  \E id \in DOMAIN query.plans : \E p :
                 IsScan(p, query.plans[id].plan) /\ Reads(scans[i], id, query.plans[id].plan[p], byNode, byFQN)
    <2>1. PICK k \in 1 .. n : \E j \in DOMAIN seqs[k] : scans[i] = seqs[k][j]
        BY <1>5
    <2>2. PICK own, id, plan : own = seqs[k] /\ id = infos[k].id /\ plan = query.plans[id].plan
        OBVIOUS
    <2>3. PICK j \in DOMAIN own : scans[i] = own[j]
        BY <2>1, <2>2
    <2>4. AreOf(own, id, plan, byNode, byFQN) /\ id \in DOMAIN query.plans
        BY <1>3, <2>2
    <2>5. PICK p : IsScan(p, plan) /\ Reads(own[j], id, plan[p], byNode, byFQN)
        BY <2>4 DEF AreOf
    <2> QED
        BY <2>2, <2>3, <2>4, <2>5
<1>8. ASSUME NEW id \in DOMAIN query.plans, NEW p, IsScan(p, query.plans[id].plan), Marked(query.plans[id].plan[p])
      PROVE  \E i \in 1 .. total : Reads(scans[i], id, query.plans[id].plan[p], byNode, byFQN)
    <2>1. PICK k \in 1 .. n : infos[k].id = id
        BY <1>1 DEF InfosStand
    <2>2. PICK own, plan : own = seqs[k] /\ plan = query.plans[id].plan
        OBVIOUS
    <2>3. AreOf(own, id, plan, byNode, byFQN)
        BY <1>3, <2>1, <2>2
    <2>4. PICK j \in DOMAIN own : Reads(own[j], id, plan[p], byNode, byFQN)
        BY <1>8, <2>2, <2>3 DEF AreOf
    <2>5. start[k] + j \in 1 .. total /\ scans[start[k] + j] = own[j]
        BY <1>6, <2>2
    <2> QED
        BY <2>2, <2>4, <2>5
<1>9. ASSUME NEW i \in 1 .. total, NEW j \in 1 .. total,
             scans[i].stage = scans[j].stage, scans[i].node = scans[j].node
      PROVE  i = j
    <2>1. PICK k \in 1 .. n : \E r \in DOMAIN seqs[k] : i = start[k] + r /\ scans[i] = seqs[k][r]
        BY <1>5
    <2>2. PICK r \in DOMAIN seqs[k] : i = start[k] + r /\ scans[i] = seqs[k][r]
        BY <2>1
    <2>3. PICK l \in 1 .. n : \E q \in DOMAIN seqs[l] : j = start[l] + q /\ scans[j] = seqs[l][q]
        BY <1>5
    <2>4. PICK q \in DOMAIN seqs[l] : j = start[l] + q /\ scans[j] = seqs[l][q]
        BY <2>3
    <2>5. scans[i].stage = infos[k].id
        BY <1>3, <2>2
    <2>6. scans[j].stage = infos[l].id
        BY <1>3, <2>4
    <2>7. k = l
        BY <1>1, <1>9, <2>5, <2>6 DEF InfosStand
    <2>8. PICK own : own = seqs[k]
        OBVIOUS
    <2>9. AreOf(own, infos[k].id, query.plans[infos[k].id].plan, byNode, byFQN)
        BY <1>3, <2>8
    <2>10. r \in DOMAIN own /\ q \in DOMAIN own /\ own[r].node = own[q].node
        BY <1>9, <2>2, <2>4, <2>7, <2>8
    <2>11. r = q
        BY <2>9, <2>10 DEF AreOf
    <2> QED
        BY <2>2, <2>4, <2>7, <2>11
<1> QED
    BY <1>4, <1>7, <1>8, <1>9, ZenonT(60) DEF Located

Alike(a, b) ==
    a.stage = b.stage /\ a.node = b.node /\ a.table = b.table /\ a.filter = b.filter /\ a.connector = b.connector

LEMMA MarkedStays ==
    ASSUME NEW query, NEW byNode, NEW byFQN, NEW early, Located(early, query, byNode, byFQN),
           NEW late, Located(late, query, byNode, byFQN), NEW i \in DOMAIN early, Marked(early[i])
    PROVE  \E r \in DOMAIN late : Alike(early[i], late[r])
<1>1. PICK id \in DOMAIN query.plans :
          \E p : IsScan(p, query.plans[id].plan) /\ Reads(early[i], id, query.plans[id].plan[p], byNode, byFQN)
    BY DEF Located
<1>2. PICK plan : plan = query.plans[id].plan
    OBVIOUS
<1>3. PICK p : IsScan(p, plan) /\ Reads(early[i], id, plan[p], byNode, byFQN)
    BY <1>1, <1>2
<1>4. PICK s, node : s = early[i] /\ node = plan[p]
    OBVIOUS
<1>5. Reads(s, id, node, byNode, byFQN)
    BY <1>3, <1>4
<1>6. Marked(node)
    <2>1. s.table = node.table /\ s.filter = node.filter
        BY <1>5 DEF Reads
    <2>2. OfNamedTable(s) \/ s.filter # {}
        BY <1>4 DEF Marked
    <2>3. OfNamedTable(s) => OfNamedTable(node)
        BY <2>1, Zenon DEF OfNamedTable
    <2> QED
        BY <2>1, <2>2, <2>3 DEF Marked
<1>7. PICK r \in DOMAIN late : Reads(late[r], id, node, byNode, byFQN)
    <2>1. Marked(plan[p])
        BY <1>4, <1>6
    <2>2. \E r \in DOMAIN late : Reads(late[r], id, plan[p], byNode, byFQN)
        BY <1>2, <1>3, <2>1 DEF Located
    <2> QED
        BY <1>4, <2>2
<1> QED
    BY <1>4, <1>5, <1>7 DEF Reads, Alike

LEMMA IcebergStays ==
    ASSUME NEW facts, NEW later, \A i \in DOMAIN facts.scans :
               Marked(facts.scans[i]) => \E r \in DOMAIN later.scans : Alike(facts.scans[i], later.scans[r])
    PROVE  IcebergMetadataTable(facts) => IcebergMetadataTable(later)
<1> SUFFICES ASSUME IcebergMetadataTable(facts)
             PROVE  IcebergMetadataTable(later)
    OBVIOUS
<1>1. PICK s \in Range(facts.scans) : detectIcebergMetadataForm(s.table)
    BY DEF IcebergMetadataTable
<1>2. PICK i \in DOMAIN facts.scans : s = facts.scans[i]
    BY <1>1 DEF Range
<1>3. OfNamedTable(s)
    BY <1>1, Zenon DEF detectIcebergMetadataForm, OfNamedTable
<1>4. PICK r \in DOMAIN later.scans : Alike(s, later.scans[r])
    BY <1>2, <1>3 DEF Marked
<1>5. later.scans[r] \in Range(later.scans) /\ detectIcebergMetadataForm(later.scans[r].table)
    BY <1>1, <1>4 DEF Range, Alike
<1> QED
    BY <1>5 DEF IcebergMetadataTable

LEMMA UnpushableStays ==
    ASSUME NEW facts, NEW later, \A i \in DOMAIN facts.scans :
               Marked(facts.scans[i]) => \E r \in DOMAIN later.scans : Alike(facts.scans[i], later.scans[r])
    PROVE  UnpushableExpression(facts) => UnpushableExpression(later)
<1> SUFFICES ASSUME UnpushableExpression(facts)
             PROVE  UnpushableExpression(later)
    OBVIOUS
<1>1. PICK s \in Range(facts.scans) : matchPatternsForScan(s) # {}
    BY DEF UnpushableExpression
<1>2. PICK i \in DOMAIN facts.scans : s = facts.scans[i]
    BY <1>1 DEF Range
<1>3. PICK pattern : pattern \in matchPatternsForScan(s)
    BY <1>1
<1>4. pattern \in s.filter \intersect DOMAIN unpushableCatalogue /\ patternAppliesToConnector(pattern, s.connector)
    BY <1>3 DEF matchPatternsForScan
<1>5. PICK r \in DOMAIN later.scans : Alike(s, later.scans[r])
    BY <1>2, <1>4 DEF Marked
<1>6. PICK other : other = later.scans[r]
    OBVIOUS
<1>7. pattern \in matchPatternsForScan(other)
    BY <1>4, <1>5, <1>6 DEF matchPatternsForScan, Alike
<1>8. other \in Range(later.scans)
    BY <1>6 DEF Range
<1> QED
    BY <1>7, <1>8 DEF UnpushableExpression

\* A table is scanned twice when two positions hold scans of it.
LEMMA TableScans ==
    ASSUME NEW scans, NEW n \in Nat, DOMAIN scans = 1 .. n, NEW table,
           NEW own, own = ScansOf(table, scans)
    PROVE  /\ Len(own) >= 2 <=>
                  \E i, j \in 1 .. n : i # j /\ scans[i].table = table /\ scans[j].table = table
           /\ Len(own) >= 1 => \E i \in 1 .. n : scans[i].table = table /\ own[1] = scans[i]
<1>1. PICK S \in SUBSET (1 .. n) : S = {k \in 1 .. n : scans[k].table = table}
    OBVIOUS
<1>2. PICK f : f = InOrder(S, <)
    OBVIOUS
<1>3. Lists(f, S, Below(S)) /\ Orders(Below(S), S)
    BY <1>1, <1>2, NumbersInOrder
<1>4. PICK c \in Nat : c = Cardinality(S) /\ DOMAIN f = 1 .. c
    BY <1>3 DEF Lists
<1>5. own = [r \in 1 .. c |-> scans[f[r]]]
    BY <1>1, <1>2, <1>4 DEF ScansOf
<1>6. Len(own) = c
    <2>1. own = [r \in 1 .. c |-> own[r]]
        BY <1>5
    <2> QED
        BY <2>1, SegmentLength
<1>7. \A r \in 1 .. c : f[r] \in S
    BY <1>3, <1>4 DEF Lists
<1>8. ASSUME c >= 2
      PROVE  \E i, j \in 1 .. n : i # j /\ scans[i].table = table /\ scans[j].table = table
    <2>1. 1 \in 1 .. c /\ 2 \in 1 .. c
        BY <1>8
    <2>2. f[1] # f[2]
        BY <1>3, <1>4, <2>1, ListedOnce
    <2>3. PICK i, j \in S : i = f[1] /\ j = f[2]
        BY <1>7, <2>1
    <2> QED
        BY <1>1, <2>2, <2>3
<1>9. ASSUME NEW i \in 1 .. n, NEW j \in 1 .. n, i # j, scans[i].table = table, scans[j].table = table
      PROVE  c >= 2
    <2>1. i \in S /\ j \in S
        BY <1>1, <1>9
    <2>2. PICK q, r \in 1 .. c : f[q] = i /\ f[r] = j
        BY <1>3, <1>4, <2>1 DEF Lists
    <2>3. q # r
        BY <1>9, <2>2
    <2> QED
        BY <2>2, <2>3
<1>10. ASSUME c >= 1
       PROVE  \E i \in 1 .. n : scans[i].table = table /\ own[1] = scans[i]
    <2>1. 1 \in 1 .. c
        BY <1>10
    <2>2. own[1] = scans[f[1]]
        BY <1>5, <2>1
    <2> QED
        BY <1>1, <1>7, <2>1, <2>2
<1> QED
    BY <1>6, <1>8, <1>9, <1>10

\* Trino names the connector of a table somewhere.
Named(table, query) ==
    \E id \in DOMAIN query.plans : \E e \in Range(query.plans[id].tables) : Sourced(e) /\ OfNamedTable(e) /\ e.table = table

\* Where it does not, the catalog's name is taken.
LEMMA NodeGuesses ==
    ASSUME NEW query \in Workloads, NEW heard, NEW infos, InfosStand(infos, query, heard),
           NEW byNode, byNode = connectorByPlanNode(infos), NEW byFQN, byFQN = connectorByFQN(infos),
           NEW at \in DOMAIN query.plans, NEW node \in Range(query.plans[at].plan), node.name \in scanNodeNames,
           OfNamedTable(node), ~Named(node.table, query)
    PROVE  resolveConnectorType(node.id, node.table, byNode, byFQN) = node.table.catalog
<1>1. PICK n, table : n = node.id /\ table = node.table
    OBVIOUS
<1>2. PICK entries : entries = NamedEntries(infos)
    OBVIOUS
<1>3. byNode = ByNode(entries) /\ byFQN = ByTable(entries)
    BY <1>2, ConnectorsAreChosen
<1>4. ASSUME NEW x \in entries
      PROVE  \E id \in DOMAIN query.plans : \E m \in DOMAIN query.plans[id].tables :
                 /\ Sourced(query.plans[id].tables[m]) /\ m = x.node /\ query.plans[id].tables[m].table = x.table
    <2>1. NamedIn(x, query) /\ Sourced(x)
        BY <1>2, EntryStands
    <2>2. PICK id \in DOMAIN query.plans : \E m \in DOMAIN query.plans[id].tables :
              /\ x.node = m /\ x.connector = query.plans[id].tables[m].connector
              /\ x.table = query.plans[id].tables[m].table
        BY <2>1 DEF NamedIn
    <2>3. PICK m \in DOMAIN query.plans[id].tables :
              /\ x.node = m /\ x.connector = query.plans[id].tables[m].connector
              /\ x.table = query.plans[id].tables[m].table
        BY <2>2
    <2>4. Sourced(query.plans[id].tables[m])
        BY <2>1, <2>3, Zenon DEF Sourced
    <2> QED
        BY <2>3, <2>4
<1>5. n \notin DOMAIN byNode
    <2>1. SUFFICES ASSUME n \in DOMAIN byNode
                   PROVE  FALSE
        OBVIOUS
    <2>2. PICK x \in entries : x.node = n
        BY <1>3, <2>1 DEF ByNode
    <2>3. PICK id \in DOMAIN query.plans : \E m \in DOMAIN query.plans[id].tables :
              /\ Sourced(query.plans[id].tables[m]) /\ m = x.node /\ query.plans[id].tables[m].table = x.table
        BY <1>4
    <2>4. PICK named : named = query.plans[id].tables[n]
        OBVIOUS
    <2>5. n \in DOMAIN query.plans[id].tables /\ Sourced(named)
        BY <2>2, <2>3, <2>4
    <2>6. node.table = named.table
        BY <1>1, <2>4, <2>5, NodesAgree
    <2>7. OfNamedTable(named)
        BY <2>6, Zenon DEF OfNamedTable
    <2>8. named \in Range(query.plans[id].tables)
        BY <2>4, <2>5 DEF Range
    <2> QED
        BY <2>5, <2>6, <2>7, <2>8 DEF Named
<1>6. table \notin DOMAIN byFQN
    <2>1. SUFFICES ASSUME table \in DOMAIN byFQN
                   PROVE  FALSE
        OBVIOUS
    <2>2. PICK x \in entries : x.table = table
        BY <1>3, <2>1 DEF ByTable
    <2>3. PICK id \in DOMAIN query.plans : \E m \in DOMAIN query.plans[id].tables :
              /\ Sourced(query.plans[id].tables[m]) /\ m = x.node /\ query.plans[id].tables[m].table = x.table
        BY <1>4
    <2>4. PICK m \in DOMAIN query.plans[id].tables :
              Sourced(query.plans[id].tables[m]) /\ query.plans[id].tables[m].table = x.table
        BY <2>3
    <2>5. PICK named : named = query.plans[id].tables[m]
        OBVIOUS
    <2>6. node.table = named.table /\ Sourced(named)
        BY <1>1, <2>2, <2>4, <2>5
    <2>7. OfNamedTable(named)
        BY <2>6, Zenon DEF OfNamedTable
    <2>8. named \in Range(query.plans[id].tables)
        BY <2>4, <2>5 DEF Range
    <2> QED
        BY <2>6, <2>7, <2>8 DEF Named
<1>7. resolveConnectorType(n, table, byNode, byFQN) = table.catalog
    BY <1>5, <1>6, Zenon DEF resolveConnectorType
<1> QED
    BY <1>1, <1>7

\* All scans of a table have one connector.
LEMMA OneTableOneConnector ==
    ASSUME NEW query \in Workloads, NEW heard, NEW infos, InfosStand(infos, query, heard),
           NEW byNode, byNode = connectorByPlanNode(infos), NEW byFQN, byFQN = connectorByFQN(infos),
           NEW early, Located(early, query, byNode, byFQN), NEW late, Located(late, query, byNode, byFQN),
           NEW i \in DOMAIN early, NEW r \in DOMAIN late, OfNamedTable(early[i]), early[i].table = late[r].table
    PROVE  early[i].connector = late[r].connector
<1>1. PICK a, b : a = early[i] /\ b = late[r]
    OBVIOUS
<1>2. PICK at, node : /\ at \in DOMAIN query.plans /\ node \in Range(query.plans[at].plan) /\ node.name \in scanNodeNames
                      /\ Reads(a, at, node, byNode, byFQN)
    BY <1>1 DEF Located, IsScan, Range
<1>3. PICK by, other : /\ by \in DOMAIN query.plans /\ other \in Range(query.plans[by].plan) /\ other.name \in scanNodeNames
                       /\ Reads(b, by, other, byNode, byFQN)
    BY <1>1 DEF Located, IsScan, Range
<1>4. /\ node.table = a.table /\ other.table = a.table
      /\ a.connector = resolveConnectorType(node.id, node.table, byNode, byFQN)
      /\ b.connector = resolveConnectorType(other.id, other.table, byNode, byFQN)
    BY <1>1, <1>2, <1>3 DEF Reads
<1>5. CASE Named(a.table, query)
    <2>1. PICK id \in DOMAIN query.plans : \E e \in Range(query.plans[id].tables) : Sourced(e) /\ OfNamedTable(e) /\ e.table = a.table
        BY <1>5 DEF Named
    <2>2. PICK e \in Range(query.plans[id].tables) : Sourced(e) /\ OfNamedTable(e) /\ e.table = a.table
        BY <2>1
    <2>3. resolveConnectorType(node.id, node.table, byNode, byFQN) = e.connector
        BY <1>2, <1>4, <2>2, NodeResolves
    <2>4. resolveConnectorType(other.id, other.table, byNode, byFQN) = e.connector
        BY <1>3, <1>4, <2>2, NodeResolves
    <2> QED
        BY <1>1, <1>4, <2>3, <2>4
<1>6. CASE ~Named(a.table, query)
    <2>1. OfNamedTable(node) /\ OfNamedTable(other)
        <3>1. OfNamedTable(a)
            BY <1>1
        <3> QED
            BY <1>4, <3>1, Zenon DEF OfNamedTable
    <2>2. resolveConnectorType(node.id, node.table, byNode, byFQN) = node.table.catalog
        BY <1>2, <1>4, <1>6, <2>1, NodeGuesses
    <2>3. resolveConnectorType(other.id, other.table, byNode, byFQN) = other.table.catalog
        BY <1>3, <1>4, <1>6, <2>1, NodeGuesses
    <2> QED
        BY <1>1, <1>4, <2>2, <2>3
<1> QED
    BY <1>5, <1>6

LEMMA ScannedAre ==
    ASSUME NEW scans, NEW t
    PROVE  t \in ScannedTables(scans) <=> \E s \in Range(scans) : OfNamedTable(s) /\ s.table = t
BY Zenon DEF ScannedTables, OfNamedTable

LEMMA DuplicatesStay ==
    ASSUME NEW query \in Workloads, NEW heard, NEW infos, InfosStand(infos, query, heard),
           NEW byNode, byNode = connectorByPlanNode(infos), NEW byFQN, byFQN = connectorByFQN(infos),
           NEW early, Located(early, query, byNode, byFQN), NEW late, Located(late, query, byNode, byFQN),
           NEW table \in DuplicatelyScanned(early)
    PROVE  table \in DuplicatelyScanned(late)
<1>1. PICK own : own = ScansOf(table, early)
    OBVIOUS
<1>2. table \in ScannedTables(early) /\ Len(own) >= 2 /\ isRemoteConnector(own[1].connector)
    BY <1>1 DEF DuplicatelyScanned
<1>3. PICK n \in Nat : DOMAIN early = 1 .. n
    BY DEF Located
<1>4. PICK m \in Nat : DOMAIN late = 1 .. m
    BY DEF Located
<1>5. PICK others : others = ScansOf(table, late)
    OBVIOUS
<1>6. PICK i, j \in 1 .. n : i # j /\ early[i].table = table /\ early[j].table = table
    BY <1>1, <1>2, <1>3, TableScans
<1>7. \A k \in 1 .. n : early[k].table = table => OfNamedTable(early[k])
    <2>1. PICK s \in Range(early) : OfNamedTable(s) /\ s.table = table
        BY <1>2, ScannedAre
    <2>2. table.name # ""
        BY <2>1, Zenon DEF OfNamedTable
    <2> QED
        BY <2>2, Zenon DEF OfNamedTable
<1>8. PICK q \in 1 .. m : Alike(early[i], late[q])
    <2>1. Marked(early[i])
        BY <1>6, <1>7 DEF Marked
    <2> QED
        BY <1>3, <1>4, <1>6, <2>1, MarkedStays
<1>9. PICK r \in 1 .. m : Alike(early[j], late[r])
    <2>1. Marked(early[j])
        BY <1>6, <1>7 DEF Marked
    <2> QED
        BY <1>3, <1>4, <1>6, <2>1, MarkedStays
<1>10. q # r
    <2>1. SUFFICES ASSUME q = r
                   PROVE  FALSE
        OBVIOUS
    <2>2. early[i].stage = early[j].stage /\ early[i].node = early[j].node
        BY <1>8, <1>9, <2>1 DEF Alike
    <2>3. i = j
        BY <1>3, <1>6, <2>2 DEF Located
    <2> QED
        BY <1>6, <2>3
<1>11. late[q].table = table /\ late[r].table = table
    BY <1>6, <1>8, <1>9 DEF Alike
<1>12. Len(others) >= 2
    BY <1>4, <1>5, <1>10, <1>11, TableScans
<1>13. table \in ScannedTables(late)
    <2>1. PICK s : s = late[q]
        OBVIOUS
    <2>2. s \in Range(late) /\ s.table = table
        BY <1>4, <1>11, <2>1 DEF Range
    <2>3. OfNamedTable(s)
        <3>1. OfNamedTable(early[i])
            BY <1>6, <1>7
        <3>2. early[i].table = s.table
            BY <1>6, <2>2
        <3> QED
            BY <3>1, <3>2, Zenon DEF OfNamedTable
    <2> QED
        BY <2>2, <2>3, ScannedAre
<1>14. own[1].connector = others[1].connector
    <2>1. PICK a \in 1 .. n : early[a].table = table /\ own[1] = early[a]
        <3>1. own = ScansOf(table, early) /\ Len(own) >= 1
            <4>1. PICK len : len = Len(own) /\ len \in Nat /\ len >= 2
                BY <1>1, <1>2, <1>3, TableScans
            <4> QED
                BY <1>1, <4>1
        <3> QED
            BY <1>3, <3>1, TableScans
    <2>2. PICK b \in 1 .. m : late[b].table = table /\ others[1] = late[b]
        <3>1. others = ScansOf(table, late) /\ Len(others) >= 1
            <4>1. PICK len : len = Len(others) /\ len \in Nat /\ len >= 2
                BY <1>4, <1>5, <1>12, TableScans
            <4> QED
                BY <1>5, <4>1
        <3> QED
            BY <1>4, <3>1, TableScans
    <2>3. early[a].connector = late[b].connector
        <3>1. OfNamedTable(early[a]) /\ early[a].table = late[b].table
            BY <1>7, <2>1, <2>2
        <3> QED
            BY <1>3, <1>4, <3>1, OneTableOneConnector
    <2> QED
        BY <2>1, <2>2, <2>3
<1> QED
    BY <1>2, <1>5, <1>12, <1>13, <1>14 DEF DuplicatelyScanned

\* The statistics of the query never go back.
LEMMA TotalsGrow ==
    ASSUME NEW query \in Workloads, NEW k \in 1 .. Len(query.stats), NEW l \in 1 .. Len(query.stats), k <= l,
           NEW m \in Statistics
    PROVE  /\ query.stats[k][m] \in Nat /\ query.stats[l][m] \in Nat /\ query.stats[k][m] <= query.stats[l][m]
           /\ DOMAIN query.stats[k] = Statistics /\ DOMAIN query.stats[l] = Statistics
<1>1. PICK reports : reports = query.stats
    OBVIOUS
<1>2. Cumulative(reports, Statistics) /\ \A stats \in Range(reports) : DOMAIN stats = Statistics
    BY <1>1, WorkloadsAssumption
<1>3. PICK n \in Nat : n = Len(reports) /\ DOMAIN reports = 1 .. n
    BY <1>2 DEF Cumulative
<1>4. k \in 1 .. n /\ l \in k .. n /\ l \in 1 .. n
    BY <1>1, <1>3
<1>5. reports[k][m] \in Nat /\ reports[l][m] \in Nat /\ reports[k][m] <= reports[l][m]
    BY <1>2, <1>3, <1>4 DEF Cumulative
<1>6. reports[k] \in Range(reports) /\ reports[l] \in Range(reports)
    BY <1>3, <1>4 DEF Range
<1> QED
    BY <1>1, <1>2, <1>5, <1>6

LEMMA TotalsStay ==
    ASSUME NEW query \in Workloads, NEW k \in 1 .. Len(query.stats), NEW l \in 1 .. Len(query.stats), k <= l,
           NEW facts, facts.stats = Stats(query.stats[k]), NEW later, later.stats = Stats(query.stats[l])
    PROVE  /\ MemoryPressure(facts) => MemoryPressure(later)
           /\ DiskSpill(facts) => DiskSpill(later)
           /\ ScanTooLarge(facts) => ScanTooLarge(later)
<1>1. PICK early, late : early = query.stats[k] /\ late = query.stats[l]
    OBVIOUS
<1>2. ASSUME NEW m \in Statistics, m \notin Times
      PROVE  /\ facts.stats[m] \in Nat /\ later.stats[m] \in Nat /\ facts.stats[m] <= later.stats[m]
    <2>1. /\ early[m] \in Nat /\ late[m] \in Nat /\ early[m] <= late[m]
          /\ DOMAIN early = Statistics /\ DOMAIN late = Statistics
        BY <1>1, TotalsGrow
    <2>2. facts.stats[m] = early[m] /\ later.stats[m] = late[m]
        BY <1>1, <1>2, <2>1 DEF Stats
    <2> QED
        BY <2>1, <2>2
<1>3. /\ facts.stats.spilled \in Nat /\ later.stats.spilled \in Nat
      /\ facts.stats.spilled <= later.stats.spilled
    BY <1>2 DEF Statistics, Times
<1>4. /\ facts.stats.peakTaskUserMem \in Nat /\ later.stats.peakTaskUserMem \in Nat
      /\ facts.stats.peakTaskUserMem <= later.stats.peakTaskUserMem
    BY <1>2 DEF Statistics, Times
<1>5. /\ facts.stats.physicalRows \in Nat /\ later.stats.physicalRows \in Nat
      /\ facts.stats.physicalRows <= later.stats.physicalRows
    BY <1>2 DEF Statistics, Times
<1>6. /\ facts.stats.physicalGiB \in Nat /\ later.stats.physicalGiB \in Nat
      /\ facts.stats.physicalGiB <= later.stats.physicalGiB
    BY <1>2 DEF Statistics, Times
<1>7. MemoryPressure(facts) => MemoryPressure(later)
    BY <1>4 DEF MemoryPressure
<1>8. DiskSpill(facts) => DiskSpill(later)
    BY <1>3 DEF DiskSpill
<1>9. ScanTooLarge(facts) => ScanTooLarge(later)
    BY <1>5, <1>6 DEF ScanTooLarge
<1> QED
    BY <1>7, <1>8, <1>9

\* The later of two answers about a query.
LEMMA LaterFires ==
    ASSUME NEW query, NEW status, NEW heard, NEW totals, IsSnapshot(query, status, heard, totals),
           NEW ends, NEW later, NEW sums, IsSnapshot(query, ends, later, sums),
           status \in {"RUNNING", ends}, totals <= sums,
           NEW facts, facts = FactsOf(InfoOf(query, status, heard, totals)),
           NEW others, others = FactsOf(InfoOf(query, ends, later, sums))
    PROVE  FiresStill(facts, others)
<1>1. query \in Workloads /\ totals \in 1 .. Len(query.stats) /\ sums \in 1 .. Len(query.stats)
    BY DEF IsSnapshot
<1>2. PICK qi, next : qi = InfoOf(query, status, heard, totals) /\ next = InfoOf(query, ends, later, sums)
    OBVIOUS
<1>3. PICK infos, then : infos = resolveStageInfos(qi) /\ then = resolveStageInfos(next)
    OBVIOUS
<1>4. InfosStand(infos, query, heard) /\ InfosStand(then, query, later)
    BY <1>1, <1>2, <1>3, InfosAre
<1>5. PICK ids : ids = StageIds(query)
    OBVIOUS
<1>6. NumberedAs(infos, ids) /\ NumberedAs(then, ids)
    BY <1>1, <1>2, <1>3, <1>5, StagesInOrder
<1>7. PICK byNode, byFQN : byNode = connectorByPlanNode(infos) /\ byFQN = connectorByFQN(infos)
    OBVIOUS
<1>8. byNode = connectorByPlanNode(then) /\ byFQN = connectorByFQN(then)
    BY <1>1, <1>4, <1>6, <1>7, ConnectorsStay
<1>9. PICK stages, subsequent : stages = StagesOf(qi) /\ subsequent = StagesOf(next)
    OBVIOUS
<1>10. stages = [k \in DOMAIN infos |-> StageFact(infos[k], qi.ops, byNode, byFQN)]
    BY <1>3, <1>7, <1>9 DEF StagesOf
<1>11. subsequent = [k \in DOMAIN then |-> StageFact(then[k], next.ops, byNode, byFQN)]
    BY <1>3, <1>8, <1>9 DEF StagesOf
<1>12. PICK early, late : early = ScansIn(stages) /\ late = ScansIn(subsequent)
    OBVIOUS
<1>13. Located(early, query, byNode, byFQN)
    BY <1>1, <1>4, <1>10, <1>12, ScansLocated
<1>14. Located(late, query, byNode, byFQN)
    BY <1>1, <1>4, <1>11, <1>12, ScansLocated
<1>15. facts.scans = early /\ others.scans = late
    BY <1>2, <1>9, <1>12, FactsAre
<1>16. /\ facts.state = status /\ others.state = ends
       /\ facts.stats = Stats(query.stats[totals]) /\ others.stats = Stats(query.stats[sums])
       /\ facts.rules = projectOptimizerRules(query.rules) /\ others.rules = projectOptimizerRules(query.rules)
    BY FactsAre DEF InfoOf
<1>17. ASSUME NEW i \in DOMAIN facts.scans, Marked(facts.scans[i])
       PROVE  \E r \in DOMAIN others.scans : Alike(facts.scans[i], others.scans[r])
    BY <1>13, <1>14, <1>15, <1>17, MarkedStays
<1>18. Failed(facts) => Failed(others)
    BY <1>16 DEF Failed
<1>19. /\ MemoryPressure(facts) => MemoryPressure(others)
       /\ DiskSpill(facts) => DiskSpill(others)
       /\ ScanTooLarge(facts) => ScanTooLarge(others)
    BY <1>1, <1>16, TotalsStay
<1>20. MissedPushdown(facts) => MissedPushdown(others)
    BY <1>16 DEF MissedPushdown
<1>21. DuplicateFederatedScans(facts) => DuplicateFederatedScans(others)
    <2>1. \A t \in DuplicatelyScanned(early) : t \in DuplicatelyScanned(late)
        BY <1>1, <1>4, <1>7, <1>13, <1>14, DuplicatesStay
    <2> QED
        BY <1>15, <2>1 DEF DuplicateFederatedScans
<1>22. IcebergMetadataTable(facts) => IcebergMetadataTable(others)
    BY <1>17, IcebergStays
<1>23. UnpushableExpression(facts) => UnpushableExpression(others)
    BY <1>17, UnpushableStays
<1> QED
    BY <1>18, <1>19, <1>20, <1>21, <1>22, <1>23 DEF FiresStill

LEMMA FindingsStep ==
    Inv /\ [Next]_vars => FindingsStayStep
<1> SUFFICES ASSUME Inv, [Next]_vars, Again, NEW f \in Range(reply.findings), f.id \in Cumulatives
             PROVE  f \in Range(reply'.findings)
    BY DEF FindingsStayStep
<1>1. IsSnapshot(workload, state, published, counted)
    BY DEF Inv
<1>2. CASE reply' = reply
    BY <1>2
<1>3. CASE reply' # reply
    <2>1. PICK status, heard, totals :
              Known(status, heard, totals) /\ reply' = AnswerTo(InfoOf(workload, state, published, counted))
        BY <1>3, TwoReplies
    <2>2. PICK qi, next : qi = InfoOf(workload, status, heard, totals) /\ next = InfoOf(workload, state, published, counted)
        OBVIOUS
    <2>3. PICK facts, others : facts = FactsOf(qi) /\ others = FactsOf(next)
        OBVIOUS
    <2>4. PICK answer, new : answer = reply /\ new = reply'
        OBVIOUS
    <2>5. FindingsOf(facts, answer.findings)
        BY <2>1, <2>2, <2>3, <2>4, AnswerIs DEF Known
    <2>6. FindingsOf(others, new.findings)
        BY <2>1, <2>2, <2>3, <2>4, AnswerIs
    <2>7. FiresStill(facts, others)
        <3>1. /\ IsSnapshot(workload, status, heard, totals)
              /\ status \in {"RUNNING", state} /\ totals <= counted
            BY <2>1 DEF Known, Precedes
        <3> QED
            BY <1>1, <2>2, <2>3, <3>1, LaterFires
    <2>8. PICK findings, later : findings = answer.findings /\ later = new.findings
        OBVIOUS
    <2>9. f \in Range(findings)
        BY <2>4, <2>8
    <2>10. f \in Range(later)
        BY <2>5, <2>6, <2>7, <2>8, <2>9, FindingsStay
    <2> QED
        BY <2>4, <2>8, <2>10
<1> QED
    BY <1>2, <1>3

\* A finding about something that cannot be undone is in every later analysis of the
\* query as well (disk_spill.go:16-20, scan_too_large.go:33-42, duplicate_federated_scans.go:
\* 84-96, iceberg_metadata_table.go:60-77, unpushable_expression.go:209-221).
THEOREM FindingsRemain ==
    Spec => CumulativeFindingsStay
<1>1. Inv /\ [Next]_vars => FindingsStayStep
    BY FindingsStep
<1> QED
    BY <1>1, RepliesAreFromThePast, PTL DEF Spec, CumulativeFindingsStay
================================================================================
