---------------------------- MODULE MotionProofs ----------------------------
(***************************************************************************)
(* What holds of Motion for any number of agents, whatever their sizes and *)
(* the constants of the models: a range query misses nobody, every model   *)
(* moves the crowd to whole positions on the surface, hermite_interp is    *)
(* asked inside of its interval exactly where a desired speed allows it,   *)
(* and with the speed models two agents come no closer than their contact  *)
(* distance, so that nobody overlaps in V1 and V2.  Sums, minima and       *)
(* powers are handled by induction over sets of numbers and of agents.     *)
(***************************************************************************)
EXTENDS Motion, FiniteSetTheorems, WellFoundedInduction, TLAPS

-----------------------------------------------------------------------------
(* Range queries                                                           *)

LEMMA Division ==
  ASSUME NEW n \in Nat, NEW c \in Nat \ {0}
  PROVE  /\ n \div c \in Nat
         /\ (n \div c) * c <= n /\ n < (n \div c) * c + c
OBVIOUS

\* Whole cells between two points are no more than fit between them, and one.
LEMMA FewerCells ==
  ASSUME NEW c \in Nat \ {0}, NEW m \in Int, NEW r \in Nat, m * c < r + c
  PROVE  m <= (r + c - 1) \div c
<1> DEFINE q == (r + c - 1) \div c
<1>1. q \in Nat /\ r + c - 1 < q * c + c
  BY Division
<1> HIDE DEF q
<1>2. m * c < q * c + c + 1
  <2>1. m * c \in Int /\ q * c \in Int
    BY <1>1
  <2> QED
    BY <1>1, <2>1
<1>3. ~(m >= q + 1)
  <2> SUFFICES ASSUME m >= q + 1 PROVE FALSE
    OBVIOUS
  <2>1. PICK d \in Nat : m = q + 1 + d
    <3>1. m - q - 1 \in Nat /\ m = q + 1 + (m - q - 1)
      BY <1>1
    <3> QED
      BY <3>1
  <2>2. m * c = q * c + c + d * c /\ d * c \in Nat /\ q * c \in Int
    BY <1>1, <2>1
  <2>3. r + c <= q * c + c
    BY <1>1
  <2> QED
    BY <2>2, <2>3
<1> QED
  BY <1>1, <1>3 DEF q

LEMMA CellsClose ==
  ASSUME NEW x \in Int, NEW y \in Int, NEW r \in Nat, AbsOf(x - y) <= r
  PROVE  AbsOf(CellOf(x) - CellOf(y)) <= CellOffset(r)
<1> DEFINE c == CellSize
<1>c. c \in Nat \ {0}
  BY SpaceAssumption
<1>1. ASSUME NEW u \in Int, NEW v \in Int, u - v <= r
      PROVE  CellOf(u) - CellOf(v) <= CellOffset(r)
  <2>1. CASE u >= 0 /\ v >= 0
    <3> DEFINE k == u \div c
               l == v \div c
    <3>1. k \in Nat /\ l \in Nat /\ k * c <= u /\ v < l * c + c
      BY <1>c, <2>1, Division
    <3> HIDE DEF k, l, c
    <3>2. (k - l) * c < r + c
      BY <1>1, <1>c, <3>1
    <3>3. k - l <= (r + c - 1) \div c
      BY <1>c, <3>1, <3>2, FewerCells
    <3> QED
      BY <2>1, <3>3 DEF CellOf, CellOffset, k, l, c
  <2>2. CASE u >= 0 /\ v < 0
    <3> DEFINE k == u \div c
               l == (-v) \div c
    <3>1. k \in Nat /\ l \in Nat /\ k * c <= u /\ l * c <= -v
      BY <1>c, <2>2, Division
    <3> HIDE DEF k, l, c
    <3>2. (k + l) * c < r + c
      BY <1>1, <1>c, <3>1
    <3>3. k + l <= (r + c - 1) \div c
      BY <1>c, <3>1, <3>2, FewerCells
    <3>4. CellOf(u) = k /\ CellOf(v) = -l
      BY <2>2 DEF CellOf, k, l, c
    <3> QED
      BY <3>1, <3>3, <3>4 DEF CellOffset, c
  <2>3. CASE u < 0 /\ v >= 0
    <3> DEFINE k == (-u) \div c
               l == v \div c
    <3>1. k \in Nat /\ l \in Nat
      BY <1>c, <2>3, Division
    <3>2. CellOf(u) = -k /\ CellOf(v) = l
      BY <2>3 DEF CellOf
    <3>3. (r + c - 1) \div c \in Nat
      BY <1>c, Division
    <3> HIDE DEF k, l, c
    <3> QED
      BY <3>1, <3>2, <3>3 DEF CellOffset, c
  <2>4. CASE u < 0 /\ v < 0
    <3> DEFINE k == (-u) \div c
               l == (-v) \div c
    <3>1. k \in Nat /\ l \in Nat /\ -u < k * c + c /\ l * c <= -v
      BY <1>c, <2>4, Division
    <3> HIDE DEF k, l, c
    <3>2. (l - k) * c < r + c
      BY <1>1, <1>c, <3>1
    <3>3. l - k <= (r + c - 1) \div c
      BY <1>c, <3>1, <3>2, FewerCells
    <3>4. CellOf(u) = -k /\ CellOf(v) = -l
      BY <2>4 DEF CellOf, k, l, c
    <3> QED
      BY <3>1, <3>3, <3>4 DEF CellOffset, c
  <2> QED
    BY <2>1, <2>2, <2>3, <2>4
<1>2. x - y <= r /\ y - x <= r
  BY DEF AbsOf
<1>3. CellOf(x) - CellOf(y) <= CellOffset(r) /\ CellOf(y) - CellOf(x) <= CellOffset(r)
  BY <1>1, <1>2
<1>4. CellOf(x) \in Int /\ CellOf(y) \in Int /\ CellOffset(r) \in Int
  BY <1>c DEF CellOf, CellOffset
<1> QED
  BY <1>3, <1>4 DEF AbsOf

\* for_each_in_range hands out exactly who is in range, although the cell
\* index truncates towards zero, for every size of the cells and every radius.
THEOREM NobodyIsMissed ==
  ASSUME NEW c, \A b \in DOMAIN c : c[b].x \in Int, NEW x \in Int, NEW r \in Nat
  PROVE  InRange(c, x, r) = {b \in DOMAIN c : AbsOf(c[b].x - x) <= r}
<1>1. \A b \in DOMAIN c :
        AbsOf(c[b].x - x) <= r => AbsOf(CellOf(c[b].x) - CellOf(x)) <= CellOffset(r)
  BY CellsClose
<1> QED
  BY <1>1 DEF InRange

-----------------------------------------------------------------------------
(* Induction over numbers and over finite sets                             *)

LEMMA MinOfNat ==
  ASSUME NEW T, T \subseteq Nat, T # {}
  PROVE  Min(T) \in T /\ \A y \in T : Min(T) <= y
<1>1. PICK x \in T : \A y \in T : ~(<<y, x>> \in OpToRel(<, Nat))
  BY NatLessThanWellFounded, WFMin
<1>2. \A y \in Nat : y < x => <<y, x>> \in OpToRel(<, Nat)
  BY Zenon DEF OpToRel
<1>3. \A y \in T : ~(y < x)
  BY <1>1, <1>2, Zenon
<1>4. \A y \in T : x <= y
  BY <1>3
<1> QED
  BY <1>1, <1>4 DEF Min

\* Induction, with the set of the numbers that have the property.
LEMMA Induction ==
  ASSUME NEW S, 0 \in S, \A n \in Nat : n \in S => n + 1 \in S
  PROVE  Nat \subseteq S
<1>1. SUFFICES ASSUME Nat \ S # {} PROVE FALSE
  BY Zenon
<1>2. PICK x \in Nat \ S : \A y \in Nat \ S : x <= y
  <2>1. Nat \ S \subseteq Nat
    OBVIOUS
  <2>2. Min(Nat \ S) \in Nat \ S /\ \A y \in Nat \ S : Min(Nat \ S) <= y
    BY <1>1, <2>1, MinOfNat, Zenon
  <2> QED
    BY <2>2
<1>3. x # 0 /\ x - 1 \in Nat /\ x - 1 + 1 = x
  BY <1>2
<1>4. x - 1 \notin Nat \ S
  BY <1>2, <1>3
<1> QED
  BY <1>2, <1>3, <1>4

\* The same over the subsets of a finite set, one element at a time.
LEMMA FiniteInduction ==
  ASSUME NEW S, IsFiniteSet(S), NEW P, {} \in P,
         \A T \in SUBSET S : \A x \in S \ T : T \in P => T \cup {x} \in P
  PROVE  S \in P
<1> DEFINE N == {n \in Nat : \A T \in SUBSET S : Cardinality(T) = n => T \in P}
<1>1. \A T \in SUBSET S : IsFiniteSet(T) /\ Cardinality(T) \in Nat
  BY FS_Subset, FS_CardinalityType
<1>2. 0 \in N
  BY <1>1, FS_EmptySet
<1>3. \A n \in Nat : n \in N => n + 1 \in N
  <2> SUFFICES ASSUME NEW n \in Nat, n \in N,
                      NEW T \in SUBSET S, Cardinality(T) = n + 1
               PROVE  T \in P
    OBVIOUS
  <2>1. T # {}
    BY FS_EmptySet
  <2>2. PICK x \in T : TRUE
    BY <2>1
  <2>3. Cardinality(T \ {x}) = n
    BY <1>1, FS_RemoveElement
  <2>4. T \ {x} \in SUBSET S /\ x \in S \ (T \ {x}) /\ (T \ {x}) \cup {x} = T
    OBVIOUS
  <2>5. T \ {x} \in P
    BY <2>3, <2>4
  <2>6. (T \ {x}) \cup {x} \in P
    BY <2>4, <2>5, Zenon
  <2> QED
    BY <2>4, <2>6
<1> HIDE DEF N
<1>4. Nat \subseteq N
  BY <1>2, <1>3, Induction
<1>5. Cardinality(S) \in N
  BY <1>1, <1>4
<1> QED
  BY <1>5 DEF N

LEMMA MinOfFinite ==
  ASSUME NEW T, IsFiniteSet(T), T \subseteq Int, T # {}
  PROVE  Min(T) \in T /\ \A y \in T : Min(T) <= y
<1> DEFINE P == {U \in SUBSET T : U = {} \/ \E x \in U : \A y \in U : x <= y}
<1>1. {} \in P
  OBVIOUS
<1>2. \A U \in SUBSET T : \A z \in T \ U : U \in P => U \cup {z} \in P
  <2> SUFFICES ASSUME NEW U \in SUBSET T, NEW z \in T \ U, U \in P
               PROVE  \E x \in U \cup {z} : \A y \in U \cup {z} : x <= y
    OBVIOUS
  <2>1. CASE U = {}
    BY <2>1
  <2>2. CASE U # {}
    <3>1. PICK x \in U : \A y \in U : x <= y
      BY <2>2
    <3>2. CASE x <= z
      BY <3>1, <3>2
    <3>3. CASE ~(x <= z)
      <4>1. \A y \in U \cup {z} : z <= y
        BY <3>1, <3>3
      <4> QED
        BY <4>1
    <3> QED
      BY <3>2, <3>3
  <2> QED
    BY <2>1, <2>2
<1> HIDE DEF P
<1>3. T \in P
  BY <1>1, <1>2, FiniteInduction
<1>4. \E x \in T : \A y \in T : x <= y
  BY <1>3 DEF P
<1> QED
  BY <1>4 DEF Min

\* One step of the recursion that adds up the values of g.
Adding(g, h, s) == LET x == CHOOSE x \in s : TRUE IN g[x] + h[s \ {x}]

SumsOf(g, S, h) == h = [s \in SUBSET S |-> IF s = {} THEN 0 ELSE Adding(g, h, s)]

LEMMA SumsExist ==
  ASSUME NEW S, IsFiniteSet(S), NEW g
  PROVE  \E h : SumsOf(g, S, h)
<1> DEFINE Sums(h, s) == h[s] = IF s = {} THEN 0 ELSE Adding(g, h, s)
           N == {n \in Nat : \E h : \A s \in SUBSET S : Cardinality(s) <= n => Sums(h, s)}
<1>1. \A s \in SUBSET S : IsFiniteSet(s) /\ Cardinality(s) \in Nat
  BY FS_Subset, FS_CardinalityType
<1>2. 0 \in N
  <2> DEFINE h == [s \in SUBSET S |-> 0]
  <2>1. \A s \in SUBSET S : Cardinality(s) <= 0 => s = {}
    BY <1>1, FS_EmptySet
  <2>2. \A s \in SUBSET S : Cardinality(s) <= 0 => Sums(h, s)
    BY <2>1
  <2> QED
    BY <2>2
<1>3. \A n \in Nat : n \in N => n + 1 \in N
  <2> SUFFICES ASSUME NEW n \in Nat, n \in N
               PROVE  n + 1 \in N
    BY Zenon
  <2>1. PICK h : \A s \in SUBSET S : Cardinality(s) <= n => Sums(h, s)
    OBVIOUS
  <2> DEFINE k == [s \in SUBSET S |-> IF s = {} THEN 0 ELSE Adding(g, h, s)]
  <2>2. \A s \in SUBSET S : k[s] = IF s = {} THEN 0 ELSE Adding(g, h, s)
    BY Zenon
  <2>3. \A s \in SUBSET S : Cardinality(s) <= n => k[s] = h[s]
    BY <2>1, <2>2
  <2> HIDE DEF k
  <2>4. ASSUME NEW s \in SUBSET S, Cardinality(s) <= n + 1
        PROVE  Sums(k, s)
    <3>1. CASE s = {}
      BY <2>2, <3>1
    <3>2. CASE s # {}
      <4> DEFINE x == CHOOSE x \in s : TRUE
      <4>1. x \in s
        BY <3>2
      <4> HIDE DEF x
      <4>2. Cardinality(s \ {x}) = Cardinality(s) - 1
        BY <1>1, <4>1, FS_RemoveElement
      <4>3. Cardinality(s \ {x}) <= n
        BY <1>1, <2>4, <4>2
      <4>4. k[s \ {x}] = h[s \ {x}]
        BY <2>3, <4>3
      <4>5. Adding(g, k, s) = Adding(g, h, s)
        BY <4>4 DEF Adding, x
      <4> QED
        BY <2>2, <3>2, <4>5
    <3> QED
      BY <3>1, <3>2
  <2> HIDE DEF Sums
  <2>5. \E f : \A s \in SUBSET S : Cardinality(s) <= n + 1 => Sums(f, s)
    BY <2>4
  <2> QED
    BY <2>5
<1> HIDE DEF N
<1>4. Nat \subseteq N
  BY <1>2, <1>3, Induction
<1>5. Cardinality(S) \in N
  BY <1>1, <1>4
<1>6. PICK h : \A s \in SUBSET S : Cardinality(s) <= Cardinality(S) => Sums(h, s)
  BY <1>5 DEF N
<1>7. \A s \in SUBSET S : Sums(h, s)
  BY <1>6, FS_Subset
<1> DEFINE k == [s \in SUBSET S |-> h[s]]
<1>8. \A s \in SUBSET S : k[s] = h[s]
  OBVIOUS
<1>9. \A s \in SUBSET S : s # {} => Adding(g, k, s) = Adding(g, h, s)
  BY <1>8 DEF Adding
<1>10. k = [s \in SUBSET S |-> IF s = {} THEN 0 ELSE Adding(g, k, s)]
  BY <1>7, <1>9
<1> QED
  BY <1>10 DEF SumsOf

\* A finite sum of whole numbers is a whole number.
LEMMA SumType ==
  ASSUME NEW S, IsFiniteSet(S), NEW g \in [S -> Int]
  PROVE  SumFunction(g) \in Int
<1>1. DOMAIN g = S
  OBVIOUS
<1>2. SumFunction(g) = (CHOOSE h : SumsOf(g, S, h))[S]
  BY <1>1 DEF SumFunction, SumFunctionOnSet, FoldFunctionOnSet, MapThenFoldSet, SumsOf, Adding
<1>3. PICK h : h = CHOOSE f : SumsOf(g, S, f)
  OBVIOUS
<1>4. SumsOf(g, S, h)
  BY <1>3, SumsExist
<1>5. \A s \in SUBSET S : h[s] = IF s = {} THEN 0 ELSE Adding(g, h, s)
  BY <1>4, Zenon DEF SumsOf
<1> DEFINE N == {n \in Nat : \A s \in SUBSET S : Cardinality(s) = n => h[s] \in Int}
<1>6. \A s \in SUBSET S : IsFiniteSet(s) /\ Cardinality(s) \in Nat
  BY FS_Subset, FS_CardinalityType
<1>7. 0 \in N
  BY <1>5, <1>6, FS_EmptySet
<1>8. \A n \in Nat : n \in N => n + 1 \in N
  <2> SUFFICES ASSUME NEW n \in Nat, n \in N,
                      NEW s \in SUBSET S, Cardinality(s) = n + 1
               PROVE  h[s] \in Int
    OBVIOUS
  <2>1. s # {}
    BY FS_EmptySet
  <2> DEFINE x == CHOOSE x \in s : TRUE
  <2>2. x \in s
    BY <2>1
  <2>3. h[s] = g[x] + h[s \ {x}]
    BY <1>5, <2>1 DEF Adding
  <2> HIDE DEF x
  <2>4. Cardinality(s \ {x}) = n
    <3>1. Cardinality(s \ {x}) = Cardinality(s) - 1
      BY <1>6, <2>2, FS_RemoveElement
    <3> QED
      BY <3>1
  <2>5. h[s \ {x}] \in Int
    BY <2>4
  <2> QED
    BY <2>2, <2>3, <2>5
<1> HIDE DEF N
<1>9. Nat \subseteq N
  BY <1>7, <1>8, Induction
<1>10. h[S] \in Int
  BY <1>6, <1>9 DEF N
<1> QED
  BY <1>2, <1>3, <1>10

Doubling(k, p) == p = [n \in 0 .. k |-> IF n = 0 THEN 1 ELSE 2 * p[n - 1]]

LEMMA DoublingExists ==
  ASSUME NEW k \in Nat
  PROVE  \E p : Doubling(k, p)
<1> DEFINE N == {n \in Nat : \E p : Doubling(n, p)}
<1>1. 0 \in N
  <2> DEFINE p == [n \in 0 .. 0 |-> 1]
  <2>1. p = [n \in 0 .. 0 |-> IF n = 0 THEN 1 ELSE 2 * p[n - 1]]
    OBVIOUS
  <2> QED
    BY <2>1 DEF Doubling
<1>2. \A n \in Nat : n \in N => n + 1 \in N
  <2> SUFFICES ASSUME NEW n \in Nat, n \in N PROVE \E p : Doubling(n + 1, p)
    OBVIOUS
  <2>1. PICK p : Doubling(n, p)
    OBVIOUS
  <2>2. \A i \in 0 .. n : p[i] = IF i = 0 THEN 1 ELSE 2 * p[i - 1]
    BY <2>1, Zenon DEF Doubling
  <2> DEFINE q == [i \in 0 .. n + 1 |-> IF i = n + 1 THEN 2 * p[n] ELSE p[i]]
  <2>3. \A i \in 0 .. n + 1 : q[i] = IF i = n + 1 THEN 2 * p[n] ELSE p[i]
    BY Zenon
  <2>4. \A i \in 0 .. n + 1 : q[i] = IF i = 0 THEN 1 ELSE 2 * q[i - 1]
    <3> HIDE DEF q
    <3> QED
      BY <2>2, <2>3
  <2>5. q = [i \in 0 .. n + 1 |-> IF i = 0 THEN 1 ELSE 2 * q[i - 1]]
    <3>1. q = [i \in 0 .. n + 1 |-> q[i]]
      OBVIOUS
    <3> HIDE DEF q
    <3> QED
      BY <2>4, <3>1
  <2> HIDE DEF q
  <2> QED
    BY <2>5 DEF Doubling
<1> HIDE DEF N
<1>3. k \in N
  BY <1>1, <1>2, Induction
<1> QED
  BY <1>3 DEF N

LEMMA PowerType ==
  ASSUME NEW k \in Nat
  PROVE  Power2(k) \in Nat \ {0}
<1>1. PICK p : p = CHOOSE f : Doubling(k, f)
  OBVIOUS
<1>2. Power2(k) = p[k]
  BY <1>1 DEF Power2, Doubling
<1>3. Doubling(k, p)
  BY <1>1, DoublingExists
<1>4. \A i \in 0 .. k : p[i] = IF i = 0 THEN 1 ELSE 2 * p[i - 1]
  BY <1>3, Zenon DEF Doubling
<1> DEFINE N == {n \in Nat : n <= k => p[n] \in Nat \ {0}}
<1>5. 0 \in N
  BY <1>4
<1>6. \A n \in Nat : n \in N => n + 1 \in N
  <2> SUFFICES ASSUME NEW n \in Nat, n \in N, n + 1 <= k PROVE p[n + 1] \in Nat \ {0}
    OBVIOUS
  <2>1. p[n] \in Nat \ {0} /\ n + 1 - 1 = n
    OBVIOUS
  <2>2. p[n + 1] = 2 * p[n]
    BY <1>4, <2>1
  <2> QED
    BY <2>1, <2>2
<1> HIDE DEF N
<1>7. k \in N
  BY <1>5, <1>6, Induction
<1> QED
  BY <1>2, <1>7 DEF N

LEMMA DecayType ==
  ASSUME NEW strength \in Int, NEW gap \in Int
  PROVE  Decay(strength, gap) \in Int
<1>1. CASE gap >= 0
  <2>1. Power2(gap) \in Nat \ {0}
    BY <1>1, PowerType
  <2> QED
    BY <1>1, <2>1 DEF Decay
<1>2. CASE ~(gap >= 0)
  <2>1. -gap \in Nat
    BY <1>2
  <2>2. Power2(-gap) \in Nat \ {0}
    BY <2>1, PowerType
  <2> QED
    BY <1>2, <2>2 DEF Decay
<1> QED
  BY <1>1, <1>2

-----------------------------------------------------------------------------
(* The types of the models                                                 *)

Crowd(c) == IsFiniteSet(DOMAIN c) /\ \A a \in DOMAIN c : c[a] \in Agent

LEMMA CrowdTypes ==
  ASSUME NEW c, Crowd(c), NEW a \in DOMAIN c
  PROVE  /\ c[a].x \in Int /\ c[a].radius \in Nat /\ c[a].o \in Directions /\ c[a].v \in Int
         /\ c[a].route \in Directions /\ c[a].e0 \in Int /\ c[a].delay \in Nat
         /\ c[a].v0 \in Nat
         /\ \A b \in DOMAIN c : RelativePosition(c, a, b) \in Int
         /\ \A r : OthersInRange(c, a, r) \subseteq DOMAIN c \ {a}
         /\ \A r : IsFiniteSet(OthersInRange(c, a, r))
<1>1. \A b \in DOMAIN c : c[b].x \in Int
  BY DEF Crowd, Agent
<1>2. /\ c[a].x \in Int /\ c[a].radius \in Nat /\ c[a].o \in Directions /\ c[a].v \in Int
      /\ c[a].route \in Directions /\ c[a].e0 \in Int /\ c[a].delay \in Nat
      /\ c[a].v0 \in Nat
  BY DEF Crowd, Agent
<1>3. \A r : OthersInRange(c, a, r) \subseteq DOMAIN c \ {a}
  BY DEF OthersInRange, InRange
<1>4. \A r : IsFiniteSet(OthersInRange(c, a, r))
  BY <1>3, FS_Subset DEF Crowd
<1> QED
  BY <1>1, <1>2, <1>3, <1>4 DEF RelativePosition

LEMMA WallsTypes ==
  ASSUME NEW c, NEW a, NEW r
  PROVE  /\ WallsInRange(c, a, r) \subseteq {Lo, Hi} /\ {Lo, Hi} \subseteq Int
         /\ IsFiniteSet(WallsInRange(c, a, r))
<1>1. WallsInRange(c, a, r) \subseteq {Lo, Hi}
  BY DEF WallsInRange
<1>2. IsFiniteSet({Lo, Hi})
  <2>1. IsFiniteSet({Hi})
    BY FS_Singleton
  <2>2. IsFiniteSet({Hi} \cup {Lo})
    BY <2>1, FS_AddElement
  <2>3. {Hi} \cup {Lo} = {Lo, Hi}
    OBVIOUS
  <2> QED
    BY <2>2, <2>3
<1> QED
  BY <1>1, <1>2, FS_Subset, SpaceAssumption

LEMMA SignTypes ==
  ASSUME NEW x \in Int
  PROVE  Sgn(x) \in Directions /\ Sgn(x) \in Int /\ AbsOf(x) \in Nat
BY DEF Sgn, AbsOf, Directions

\* The space ahead is a whole number, and no more than any gap in front.
LEMMA SpacingType ==
  ASSUME NEW c, Crowd(c), NEW a \in DOMAIN c, NEW d \in Directions, NEW buffer \in Int
  PROVE  /\ Spacing(c, a, d, buffer) \in Int
         /\ \A b \in Neighborhood(c, a) :
              d * RelativePosition(c, a, b) >= 0 =>
                Gap(c, a, b) \in Int /\ Spacing(c, a, d, buffer) <= Gap(c, a, b) - buffer
<1> DEFINE front == {b \in Neighborhood(c, a) : d * RelativePosition(c, a, b) >= 0}
           gaps == {Gap(c, a, b) - buffer : b \in front}
<1>1. IsFiniteSet(front) /\ front \subseteq DOMAIN c
  <2>1. IsFiniteSet(OthersInRange(c, a, CutOff)) /\ OthersInRange(c, a, CutOff) \subseteq DOMAIN c
    BY CrowdTypes
  <2> QED
    BY <2>1, FS_Subset DEF Neighborhood
<1>2. \A b \in front : Gap(c, a, b) \in Int
  <2> SUFFICES ASSUME NEW b \in front PROVE Gap(c, a, b) \in Int
    OBVIOUS
  <2>1. b \in DOMAIN c
    BY <1>1
  <2>2. RelativePosition(c, a, b) \in Int /\ c[a].radius \in Nat /\ c[b].radius \in Nat
    BY <2>1, CrowdTypes
  <2> QED
    BY <2>2, SignTypes DEF Gap
<1>3. gaps \subseteq Int
  BY <1>2
<1>4. IsFiniteSet(gaps)
  <2> DEFINE f == [b \in front |-> Gap(c, a, b) - buffer]
  <2> HIDE DEF front
  <2>1. f \in Surjection(front, gaps)
    BY DEF Surjection
  <2> HIDE DEF f, gaps
  <2> QED
    BY <1>1, <2>1, FS_Surjection
<1>5. CASE front = {}
  <2>1. Spacing(c, a, d, buffer) \in Int
    BY <1>5, ModelAssumption DEF Spacing
  <2> QED
    BY <1>5, <2>1
<1>6. CASE front # {}
  <2>1. gaps # {} /\ Spacing(c, a, d, buffer) = Min(gaps)
    BY <1>6 DEF Spacing
  <2> HIDE DEF gaps
  <2>2. Spacing(c, a, d, buffer) \in Int /\ \A y \in gaps : Spacing(c, a, d, buffer) <= y
    BY <1>3, <1>4, <2>1, MinOfFinite
  <2>3. \A b \in front : Gap(c, a, b) - buffer \in gaps
    BY DEF gaps
  <2> QED
    BY <1>2, <2>2, <2>3
<1> QED
  BY <1>5, <1>6

\* A step that the speed models ask for leaves an agent an agent.
LEMMA MovedIsAgent ==
  ASSUME NEW g \in Agent, NEW d \in Directions, NEW s \in Int
  PROVE  [g EXCEPT !.o = Moved(d, s).o, !.x = @ + Moved(d, s).dx] \in Agent
<1> DEFINE m == Moved(d, s)
<1>1. m.o = d /\ m.dx = d * s
  BY DEF Moved
<1>2. g.x + m.dx \in Int
  BY <1>1 DEF Directions, Agent
<1>3. PICK x \in Int : x = g.x + m.dx
  BY <1>2
<1>4. [g EXCEPT !.o = m.o, !.x = @ + m.dx] = [g EXCEPT !.o = d, !.x = x]
  BY <1>1, <1>3
<1>5. [g EXCEPT !.o = d, !.x = x] \in Agent
  BY DEF Agent
<1> QED
  BY <1>4, <1>5

LEMMA TurnType ==
  ASSUME NEW s, NEW o \in Directions
  PROVE  DirectionOf(s, o) \in Directions
BY DEF DirectionOf, Sgn, Directions

LEMMA ClampType ==
  ASSUME NEW p \in Int, NEW x \in Int, NEW q \in Int
  PROVE  Clamp(p, x, q) \in Int
BY DEF Clamp, Least, Largest

LEMMA QuotientType ==
  ASSUME NEW p \in Int, NEW q \in Nat \ {0}
  PROVE  p \div q \in Int
OBVIOUS

LEMMA SteppingType ==
  ASSUME NEW c, Crowd(c), NEW a \in DOMAIN c, NEW force
  PROVE  \E d \in Directions : \E s \in Int : Stepping(c, a, force) = Moved(d, s)
<1> DEFINE d == DirectionOf(Unit * c[a].route + force, c[a].o)
           p == Spacing(c, a, d, 0)
<1>c. V0 \in Nat /\ TimeGap \in Nat \ {0}
  BY ModelAssumption
<1>1. d \in Directions
  BY CrowdTypes, TurnType
<1>2. Stepping(c, a, force) = Moved(d, Clamp(0, p \div TimeGap, V0))
  BY DEF Stepping, OptimalStep
<1> HIDE DEF d
<1>3. p \in Int
  BY <1>1, SpacingType
<1> HIDE DEF p
<1>4. p \div TimeGap \in Int
  BY <1>c, <1>3, QuotientType
<1>5. Clamp(0, p \div TimeGap, V0) \in Int
  BY <1>c, <1>4, ClampType
<1> QED
  BY <1>1, <1>2, <1>5

LEMMA CollisionFreeV3Type ==
  ASSUME NEW c, Crowd(c), NEW a \in DOMAIN c
  PROVE  \E d \in Directions : \E s \in Int : CollisionFreeV3(c, a) = Moved(d, s)
<1> DEFINE d == V3Reference(c, a)
           goal == V3Goal(c, a)
           move == SpacingV3(c, a, d)
           ahead == SpacingV3(c, a, goal)
           p == Blend(move, ahead)
<1>c. V0 \in Nat /\ TimeGap \in Nat \ {0} /\ Far \in Nat /\ V3Buffer \in Nat /\ Reverse \in Nat
  BY ModelAssumption
<1>1. d \in Directions
  BY CrowdTypes, TurnType DEF V3Reference
<1>2. goal \in Directions
  BY <1>1, CrowdTypes DEF V3Goal
<1>3. CollisionFreeV3(c, a) = Moved(d, OptimalStepV3(p))
  BY DEF CollisionFreeV3
<1> HIDE DEF d, goal
<1>4. move \in Int /\ ahead \in Int
  BY <1>1, <1>2, SpacingType DEF SpacingV3
<1> HIDE DEF move, ahead
<1>5. p \in Int
  BY <1>c, <1>4 DEF Blend
<1> HIDE DEF p
<1>6. (p - V3Buffer) \div TimeGap \in Int
  BY <1>c, <1>5
<1>7. OptimalStepV3(p) \in Int
  BY <1>c, <1>6, ClampType DEF OptimalStepV3
<1> QED
  BY <1>1, <1>3, <1>7

LEMMA DirectionAVMType ==
  ASSUME NEW c, Crowd(c), NEW a \in DOMAIN c
  PROVE  DirectionAVM(c, a) \in Directions
<1>1. c[a].o \in Directions /\ c[a].route \in Directions
  BY CrowdTypes
<1>2. PICK t : t = DirectionOf(c[a].route, c[a].o)
  OBVIOUS
<1>3. t \in Directions
  BY <1>1, <1>2, TurnType
<1>4. 3 * c[a].o + (t - c[a].o) \in Int
  BY <1>1, <1>3 DEF Directions
<1>5. Sgn(3 * c[a].o + (t - c[a].o)) \in Directions
  BY <1>4, SignTypes
<1> QED
  BY <1>2, <1>3, <1>5 DEF DirectionAVM, UpdateDirection

LEMMA AnticipatingType ==
  ASSUME NEW c, Crowd(c), NEW a \in DOMAIN c, NEW draw \in Directions
  PROVE  \E d \in Directions : \E s \in Int : Anticipating(c, a, draw) = Moved(d, s)
<1> DEFINE p == AheadAVM(c, a)
           turned == WallAvoidance(c, a, DirectionAVM(c, a))
<1>c. V0 \in Nat /\ TimeGap \in Nat \ {0} /\ Creep \in Nat /\ AVMBuffer \in Nat
  BY ModelAssumption
<1>1. DirectionAVM(c, a) \in Directions
  BY DirectionAVMType
<1>2. p \in Int
  BY <1>c, <1>1, SpacingType DEF AheadAVM, SpacingAVM
<1> HIDE DEF p
<1>3. OptimalStepAVM(p, draw) \in Int
  <2>1. draw * Creep \in Int /\ p \div TimeGap \in Int /\ -Creep \in Int /\ V0 \in Int
    BY <1>c, <1>2 DEF Directions
  <2>2. PICK q : q = IF Creeps(p) THEN draw * Creep ELSE p \div TimeGap
    OBVIOUS
  <2>3. q \in Int
    BY <2>1, <2>2
  <2>4. Clamp(-Creep, q, V0) \in Int
    BY <2>1, <2>3, ClampType
  <2> QED
    BY <2>2, <2>4 DEF OptimalStepAVM
<1>4. turned \in Directions
  BY <1>1 DEF WallAvoidance, Sgn, Directions
<1>5. Anticipating(c, a, draw) = Moved(turned, OptimalStepAVM(p, draw))
  BY DEF Anticipating, p
<1> QED
  BY <1>3, <1>4, <1>5

LEMMA SeparationForceType ==
  ASSUME NEW x \in Int, NEW scale \in Nat, NEW radius \in Nat
  PROVE  ForceFromSeparation(x, scale, radius) \in Int
<1>1. Sgn(x) \in Int /\ AbsOf(x) \in Nat
  BY SignTypes
<1>2. AbsOf(x) - radius \in Int
  BY <1>1
<1>3. Decay(scale, AbsOf(x) - radius) \in Int
  BY <1>2, DecayType
<1>4. BodyForce * (radius - AbsOf(x)) \in Int
  BY <1>1, ForceAssumption
<1> QED
  BY <1>1, <1>3, <1>4 DEF ForceFromSeparation

LEMMA SocialForceType ==
  ASSUME NEW c, Crowd(c), NEW a \in DOMAIN c
  PROVE  SocialForce(c, a) \in Int
<1> DEFINE near == OthersInRange(c, a, SFMCutOff)
           walls == WallsInRange(c, a, WallRange)
           OfAgent(b) == ForceFromSeparation(-RelativePosition(c, a, b), AgentScale,
                                             c[a].radius + c[b].radius)
           OfWall(w) == ForceFromSeparation(c[a].x - w, ObstacleScale, c[a].radius)
           agents == [b \in near |-> OfAgent(b)]
           obstacles == [w \in walls |-> OfWall(w)]
<1>c. AgentScale \in Nat /\ ObstacleScale \in Nat /\ V0 \in Nat /\ Tau \in Nat \ {0}
  BY ModelAssumption, ForceAssumption
<1>1. \A b \in near : OfAgent(b) \in Int
  <2> SUFFICES ASSUME NEW b \in near PROVE OfAgent(b) \in Int
    OBVIOUS
  <2>1. b \in DOMAIN c
    BY CrowdTypes
  <2>2. -RelativePosition(c, a, b) \in Int /\ c[a].radius + c[b].radius \in Nat
    <3>1. RelativePosition(c, a, b) \in Int /\ c[a].radius \in Nat /\ c[b].radius \in Nat
      BY <2>1, CrowdTypes
    <3> QED
      BY <3>1
  <2> QED
    BY <1>c, <2>2, SeparationForceType
<1>2. \A w \in walls : OfWall(w) \in Int
  <2> SUFFICES ASSUME NEW w \in walls PROVE OfWall(w) \in Int
    OBVIOUS
  <2>1. w \in Int
    BY WallsTypes
  <2>2. c[a].x - w \in Int /\ c[a].radius \in Nat
    BY <2>1, CrowdTypes
  <2> QED
    BY <1>c, <2>2, SeparationForceType
<1>3. agents \in [near -> Int] /\ IsFiniteSet(near)
  BY <1>1, CrowdTypes
<1>4. obstacles \in [walls -> Int] /\ IsFiniteSet(walls)
  BY <1>2, WallsTypes
<1>5. SocialForce(c, a) = c[a].v + DrivingForce(c[a].v, c[a].route)
                            + SumFunction(agents) + SumFunction(obstacles)
  BY DEF SocialForce
<1> HIDE DEF agents, obstacles, near, walls
<1>6. SumFunction(agents) \in Int
  BY <1>3, SumType
<1>7. SumFunction(obstacles) \in Int
  BY <1>4, SumType
<1>8. DrivingForce(c[a].v, c[a].route) \in Int /\ c[a].v \in Int
  <2>1. c[a].v \in Int /\ c[a].route \in Int
    BY CrowdTypes DEF Directions
  <2>2. c[a].route * V0 - c[a].v \in Int
    BY <1>c, <2>1
  <2> QED
    BY <1>c, <2>1, <2>2 DEF DrivingForce
<1> QED
  BY <1>5, <1>6, <1>7, <1>8

LEMMA Products ==
  ASSUME NEW p \in Int, NEW q \in Int, NEW r \in Int
  PROVE  p * q \in Int /\ p * q * r \in Int
<1>1. p * q \in Int
  OBVIOUS
<1> QED
  BY <1>1

LEMMA CubePositive ==
  ASSUME NEW s \in Nat \ {0}
  PROVE  s * s * s \in Nat \ {0}
<1>1. s * s \in Nat \ {0}
  OBVIOUS
<1>2. PICK q \in Nat \ {0} : q = s * s
  BY <1>1
<1>3. q * s \in Nat \ {0}
  OBVIOUS
<1> QED
  BY <1>2, <1>3

LEMMA HermiteType ==
  ASSUME NEW t \in Int, NEW x1 \in Int, NEW x2 \in Int, x1 < x2,
         NEW y1 \in Int, NEW y2 \in Int, NEW dy1 \in Int, NEW dy2 \in Int
  PROVE  HermiteInterp(t, x1, x2, y1, y2, dy1, dy2) \in Int
<1>1. PICK s \in Nat \ {0} : s = x2 - x1
  OBVIOUS
<1>2. PICK u \in Int : u = t - x1
  OBVIOUS
<1> DEFINE h1 == 2 * u * u * u - 3 * s * u * u + s * s * s
           h2 == 3 * s * u * u - 2 * u * u * u
           h3 == s * u * u * u - 2 * s * s * u * u + s * s * s * u
           h4 == s * u * u * u - s * s * u * u
           sum == y1 * h1 + y2 * h2 + dy1 * h3 + dy2 * h4
<1>3. HermiteInterp(t, x1, x2, y1, y2, dy1, dy2) = sum \div (s * s * s)
  BY <1>1, <1>2 DEF HermiteInterp
<1>4. h1 \in Int /\ h2 \in Int /\ h3 \in Int /\ h4 \in Int
  <2>1. s \in Int /\ 2 \in Int /\ 3 \in Int
    OBVIOUS
  <2>2. 2 * u * u * u \in Int
    BY <2>1, Products
  <2>3. 3 * s * u * u \in Int
    BY <2>1, Products
  <2>4. s * s * s \in Int /\ s * s * s * u \in Int
    BY <2>1, Products
  <2>5. s * u * u * u \in Int /\ s * s * u * u \in Int
    BY <2>1, Products
  <2>6. 2 * s * s * u * u \in Int
    BY <2>1, Products
  <2> QED
    BY <2>2, <2>3, <2>4, <2>5, <2>6
<1> HIDE DEF h1, h2, h3, h4
<1>5. sum \in Int
  <2>1. y1 * h1 \in Int /\ y2 * h2 \in Int /\ dy1 * h3 \in Int /\ dy2 * h4 \in Int
    BY <1>4, Products
  <2> QED
    BY <2>1
<1> HIDE DEF sum
<1>6. s * s * s \in Nat \ {0}
  BY CubePositive
<1>7. PICK q \in Nat \ {0} : q = s * s * s
  BY <1>6
<1>8. sum \div q \in Int
  BY <1>5, QuotientType
<1> QED
  BY <1>3, <1>7, <1>8

LEMMA RangeTypes ==
  ASSUME NEW par \in {Ped, Geo}
  PROVE  /\ par.strength \in Nat /\ par.reach \in Nat /\ par.cap \in Nat
         /\ Left(par) \in Nat \ {0} /\ Right(par) \in Nat \ {0} /\ SMax(par) \in Int
         /\ Right(par) < par.reach /\ SMax(par) < Left(par)
<1>1. par \in ForceRange /\ MinDist \in Nat
  BY ForceAssumption
<1>2. /\ par.strength \in Nat /\ par.reach \in Nat /\ par.cap \in Nat
      /\ par.blend \in Nat \ {0} /\ par.blend < par.reach
  BY <1>1 DEF ForceRange
<1> QED
  BY <1>1, <1>2 DEF Left, Right, SMax

LEMMA ZoneForceType ==
  ASSUME NEW zone \in {2, 3, 4}, NEW d \in Int, zone = 3 => d # 0,
         NEW nominator \in Int, NEW par \in {Ped, Geo}
  PROVE  ZoneForce(zone, d, nominator, par) \in Int
<1> DEFINE At(s) == -(nominator \div s)
           l == Left(par)
           r == Right(par)
<1>1. \A s \in Nat \ {0} : At(s) \in Int
  BY QuotientType
<1>2. l \in Nat \ {0} /\ r \in Nat \ {0} /\ SMax(par) \in Int /\ par.reach \in Int /\ par.cap \in Int
      /\ r < par.reach /\ SMax(par) < l
  BY RangeTypes
<1>3. At(l) \in Int /\ At(r) \in Int
  BY <1>1, <1>2
<1>4. -(At(l) \div l) \in Int /\ -(At(r) \div r) \in Int
  <2> HIDE DEF At, l, r
  <2> QED
    BY <1>2, <1>3, QuotientType
<1>5. CASE zone = 2
  <2>1. ZoneForce(zone, d, nominator, par)
          = HermiteInterp(d, r, par.reach, At(r), 0, -(At(r) \div r), 0)
    BY <1>5 DEF ZoneForce
  <2> HIDE DEF At, l, r
  <2>2. PICK y \in Int : y = At(r)
    BY <1>3
  <2>3. PICK z \in Int : z = -(At(r) \div r)
    BY <1>4
  <2>4. r \in Int /\ par.reach \in Int /\ 0 \in Int
    BY <1>2
  <2>5. HermiteInterp(d, r, par.reach, y, 0, z, 0) \in Int
    BY <1>2, <2>4, HermiteType
  <2> QED
    BY <2>1, <2>2, <2>3, <2>5
<1>6. CASE zone = 3
  <2>1. ZoneForce(zone, d, nominator, par) = At(AbsOf(d))
    BY <1>6 DEF ZoneForce
  <2>2. AbsOf(d) \in Nat \ {0}
    BY <1>6 DEF AbsOf
  <2> HIDE DEF At
  <2> QED
    BY <1>1, <2>1, <2>2
<1>7. CASE zone = 4
  <2>1. ZoneForce(zone, d, nominator, par)
          = HermiteInterp(d, SMax(par), l, par.cap * At(l), At(l), 0, -(At(l) \div l))
    BY <1>7 DEF ZoneForce
  <2> HIDE DEF At, l, r
  <2>2. PICK y \in Int : y = At(l)
    BY <1>3
  <2>3. PICK z \in Int : z = -(At(l) \div l)
    BY <1>4
  <2>4. PICK x \in Int : x = par.cap * y
    BY <1>2
  <2>5. PICK lo \in Int : lo = SMax(par)
    BY <1>2
  <2>6. l \in Int /\ lo < l /\ 0 \in Int
    BY <1>2, <2>5
  <2>7. HermiteInterp(d, lo, l, x, y, 0, z) \in Int
    BY <2>6, HermiteType
  <2> QED
    BY <2>1, <2>2, <2>3, <2>4, <2>5, <2>7
<1> QED
  BY <1>5, <1>6, <1>7

LEMMA ExtentType ==
  ASSUME NEW g \in Agent
  PROVE  Extent(g) \in Nat
<1>1. g.v \in Int
  BY DEF Agent
<1>2. AbsOf(g.v) \in Nat /\ AMin \in Nat /\ AV \in Nat
  BY <1>1, SignTypes, ForceAssumption
<1>3. AV * AbsOf(g.v) \in Nat
  BY <1>2
<1> QED
  BY <1>2, <1>3 DEF Extent

LEMMA AgentSpacingType ==
  ASSUME NEW c, Crowd(c), NEW a \in DOMAIN c, NEW b \in DOMAIN c
  PROVE  AgentToAgentSpacing(c, a, b) \in Nat
<1>1. RelativePosition(c, a, b) \in Int
  BY CrowdTypes
<1>2. AbsOf(RelativePosition(c, a, b)) \in Nat
  BY <1>1, SignTypes
<1>3. Extent(c[a]) \in Nat /\ Extent(c[b]) \in Nat
  BY ExtentType DEF Crowd
<1>4. AbsOf(RelativePosition(c, a, b)) - Extent(c[a]) - Extent(c[b]) \in Int
  BY <1>2, <1>3
<1> QED
  BY <1>4, SignTypes DEF AgentToAgentSpacing

LEMMA SquareType ==
  ASSUME NEW n \in Int
  PROVE  Squared(n) \in Int
BY DEF Squared

LEMMA PedForceType ==
  ASSUME NEW c, Crowd(c), NEW a \in DOMAIN c, NEW b \in DOMAIN c
  PROVE  ForceRepPed(c, a, b) \in Int
<1> DEFINE e == Sgn(RelativePosition(c, a, b))
           d == AgentToAgentSpacing(c, a, b)
           approach == Largest(0, (c[a].v - c[b].v) * e)
           nominator == Squared(Ped.strength * c[a].v0 + approach)
           zone == PedZone(d, Ped)
           force == IF zone = 5 THEN -(Ped.cap * (nominator \div Left(Ped)))
                    ELSE ZoneForce(zone, d, nominator, Ped)
<1>1. ForceRepPed(c, a, b) = IF zone = 1 \/ c[a].v * e <= 0 THEN 0 ELSE e * force
  BY DEF ForceRepPed
<1>2. e \in Int
  BY CrowdTypes, SignTypes
<1>3. d \in Nat
  BY AgentSpacingType
<1>4. Ped \in {Ped, Geo}
  OBVIOUS
<1>5. /\ Ped.strength \in Nat /\ Ped.reach \in Nat /\ Ped.cap \in Nat
      /\ Left(Ped) \in Nat \ {0}
  BY <1>4, RangeTypes
<1>6. approach \in Int
  <2>1. c[a].v - c[b].v \in Int
    <3>1. c[a].v \in Int /\ c[b].v \in Int
      BY CrowdTypes
    <3> QED
      BY <3>1
  <2> HIDE DEF e
  <2>2. (c[a].v - c[b].v) * e \in Int
    BY <1>2, <2>1, Products
  <2> QED
    BY <2>2 DEF Largest
<1> HIDE DEF approach, e
<1>7. nominator \in Int
  <2>1. c[a].v0 \in Nat
    BY CrowdTypes
  <2>2. Ped.strength * c[a].v0 \in Int
    BY <1>5, <2>1, Products
  <2> QED
    BY <1>6, <2>2, SquareType
<1> HIDE DEF nominator, d
<1>8. zone \in {1, 2, 3, 4, 5} /\ (zone = 3 => d # 0)
  BY <1>3, <1>5 DEF PedZone
<1> HIDE DEF zone
<1>9. CASE zone = 1
  BY <1>1, <1>9
<1>10. CASE zone = 5
  <2>1. nominator \div Left(Ped) \in Int
    BY <1>5, <1>7, QuotientType
  <2>2. PICK q \in Int : q = nominator \div Left(Ped)
    BY <2>1
  <2>3. -(Ped.cap * q) \in Int
    BY <1>5
  <2>4. e * (-(Ped.cap * q)) \in Int
    BY <1>2, <2>3, Products
  <2> QED
    BY <1>1, <1>10, <2>2, <2>4
<1>11. CASE zone \in {2, 3, 4}
  <2>0. d \in Int
    BY <1>3
  <2>1. ZoneForce(zone, d, nominator, Ped) \in Int
    BY <2>0, <1>4, <1>7, <1>8, <1>11, ZoneForceType
  <2>2. force = ZoneForce(zone, d, nominator, Ped)
    BY <1>11
  <2> HIDE DEF force
  <2>3. e * force \in Int
    BY <1>2, <2>1, <2>2, Products
  <2> QED
    BY <1>1, <2>3
<1> QED
  BY <1>8, <1>9, <1>10, <1>11

\* The ellipse has a whole distance from a wall where its scale is a number.
LEMMA WallDistanceType ==
  ASSUME NEW c, Crowd(c), NEW a \in DOMAIN c, NEW w \in Int
  PROVE  /\ c[a].v0 > 0 => WallDistance(c, a, w) \in Int
         /\ ~(c[a].v0 > 0) => WallDistance(c, a, w) = NaN
<1>1. AbsOf(c[a].x - w) \in Int
  <2>1. c[a].x - w \in Int
    BY CrowdTypes
  <2> QED
    BY <2>1, SignTypes
<1>2. Extent(c[a]) \in Nat
  BY ExtentType DEF Crowd
<1>3. c[a].v0 \in Nat
  BY CrowdTypes
<1> QED
  BY <1>1, <1>2, <1>3 DEF WallDistance, Unscaled

LEMMA WallForceType ==
  ASSUME NEW c, Crowd(c), NEW a \in DOMAIN c, NEW w \in Int
  PROVE  ForceRepWall(c, a, w) \in Int \cup {NaN}
<1> DEFINE e == -Normal(c, a, w)
           d == WallDistance(c, a, w)
           nominator == Squared(Geo.strength * c[a].v0 + AbsOf(c[a].v))
           zone == WallZone(d, Extent(c[a]), Geo)
           force == IF zone = 5 THEN -Geo.cap ELSE ZoneForce(zone, d, nominator, Geo)
<1>1. ForceRepWall(c, a, w) = IF zone = 1 \/ ~MovesTowards(c, a, w) THEN 0
                              ELSE IF d = NaN THEN NaN ELSE e * force
  BY DEF ForceRepWall
<1>2. c[a].x - w \in Int /\ c[a].v \in Int /\ c[a].v0 \in Nat
  BY CrowdTypes
<1>3. e \in Int
  <2>1. Sgn(c[a].x - w) \in Int
    BY <1>2, SignTypes
  <2> QED
    BY <2>1 DEF Normal
<1>4. Extent(c[a]) \in Nat
  BY ExtentType DEF Crowd
<1>5. d \in Int \/ d = NaN
  BY WallDistanceType
<1> HIDE DEF e, d
<1>6. CASE d = NaN
  BY <1>1, <1>6
<1>7. CASE d \in Int /\ d # NaN
  <2>1. Geo \in {Ped, Geo}
    OBVIOUS
  <2>2. /\ Geo.strength \in Nat /\ Geo.reach \in Nat /\ Geo.cap \in Nat
        /\ Left(Geo) \in Nat \ {0}
    BY <2>1, RangeTypes
  <2>3. nominator \in Int
    <3>1. Geo.strength * c[a].v0 \in Int /\ AbsOf(c[a].v) \in Nat
      BY <1>2, <2>2, Products, SignTypes
    <3> QED
      BY <3>1, SquareType
  <2> HIDE DEF nominator
  <2>4. zone \in {1, 2, 3, 4, 5} /\ (zone = 3 => d # 0)
    BY <1>7, <2>2 DEF WallZone
  <2> HIDE DEF zone
  <2>5. CASE zone = 1
    BY <1>1, <2>5
  <2>6. CASE zone = 5
    <3>1. -Geo.cap \in Int
      BY <2>2
    <3>2. e * (-Geo.cap) \in Int
      BY <1>3, <3>1, Products
    <3> QED
      BY <1>1, <1>7, <2>6, <3>2
  <2>7. CASE zone \in {2, 3, 4}
    <3>1. ZoneForce(zone, d, nominator, Geo) \in Int
      BY <1>7, <2>1, <2>3, <2>4, <2>7, ZoneForceType
    <3>2. force = ZoneForce(zone, d, nominator, Geo)
      BY <2>7
    <3> HIDE DEF force
    <3>3. e * force \in Int
      BY <1>3, <3>1, <3>2, Products
    <3> QED
      BY <1>1, <1>7, <3>3
  <2> QED
    BY <2>4, <2>5, <2>6, <2>7
<1> QED
  BY <1>5, <1>6, <1>7

LEMMA MollifiedType ==
  ASSUME NEW g \in Agent
  PROVE  MollifyE0(g) \in Int
<1>1. g.e0 \in Int /\ g.route \in Int /\ g.delay \in Nat /\ Settle \in Nat \ {0}
  BY ForceAssumption DEF Agent, Directions
<1>2. Least(g.delay, Settle) \in Int
  BY <1>1 DEF Least
<1>3. (g.route - g.e0) * Least(g.delay, Settle) \in Int
  <2>1. g.route - g.e0 \in Int
    BY <1>1
  <2> QED
    BY <1>2, <2>1, Products
<1>4. ((g.route - g.e0) * Least(g.delay, Settle)) \div Settle \in Int
  BY <1>1, <1>3, QuotientType
<1> QED
  BY <1>1, <1>4 DEF MollifyE0

LEMMA CentrifugalForceType ==
  ASSUME NEW c, Crowd(c), NEW a \in DOMAIN c
  PROVE  CentrifugalForce(c, a) \in Int \cup {NaN}
<1> DEFINE near == OthersInRange(c, a, GCFMCutOff)
           walls == WallsInRange(c, a, WallRange)
           agents == [b \in near |-> ForceRepPed(c, a, b)]
           obstacles == [w \in walls |-> ForceRepWall(c, a, w)]
           e0 == IF c[a].route # 0 THEN MollifyE0(c[a]) ELSE c[a].e0
           driving == (e0 * c[a].v0 - c[a].v) \div Tau
<1>1. CentrifugalForce(c, a) = IF \E w \in DOMAIN obstacles : obstacles[w] = NaN THEN NaN
                               ELSE c[a].v + driving + SumFunction(agents) + SumFunction(obstacles)
  BY DEF CentrifugalForce
<1>2. agents \in [near -> Int] /\ IsFiniteSet(near)
  <2>1. near \subseteq DOMAIN c /\ IsFiniteSet(near)
    BY CrowdTypes
  <2>2. \A b \in near : ForceRepPed(c, a, b) \in Int
    BY <2>1, PedForceType
  <2> QED
    BY <2>1, <2>2
<1>3. obstacles \in [walls -> Int \cup {NaN}] /\ IsFiniteSet(walls)
  <2>1. walls \subseteq Int /\ IsFiniteSet(walls)
    BY WallsTypes
  <2>2. \A w \in walls : ForceRepWall(c, a, w) \in Int \cup {NaN}
    BY <2>1, WallForceType
  <2> QED
    BY <2>1, <2>2
<1>4. c[a].v \in Int /\ c[a].e0 \in Int /\ c[a].v0 \in Nat /\ c[a] \in Agent
  BY CrowdTypes DEF Crowd
<1>5. e0 \in Int
  BY <1>4, MollifiedType
<1> HIDE DEF agents, obstacles, near, walls, e0
<1>6. driving \in Int
  <2>1. e0 * c[a].v0 \in Int
    BY <1>4, <1>5, Products
  <2>2. e0 * c[a].v0 - c[a].v \in Int
    BY <1>4, <2>1
  <2>3. Tau \in Nat \ {0}
    BY ForceAssumption
  <2> QED
    BY <2>2, <2>3, QuotientType
<1>7. SumFunction(agents) \in Int
  BY <1>2, SumType
<1> HIDE DEF driving
<1>8. CASE \E w \in DOMAIN obstacles : obstacles[w] = NaN
  BY <1>1, <1>8
<1>9. CASE ~\E w \in DOMAIN obstacles : obstacles[w] = NaN
  <2>1. obstacles \in [walls -> Int]
    BY <1>3, <1>9
  <2>2. SumFunction(obstacles) \in Int
    BY <1>3, <2>1, SumType
  <2>3. c[a].v + driving + SumFunction(agents) + SumFunction(obstacles) \in Int
    BY <1>4, <1>6, <1>7, <2>2
  <2> QED
    BY <1>1, <1>9, <2>3
<1> QED
  BY <1>8, <1>9

\* Whoever arrives at a place that is a number is an agent again.
LEMMA NextStateType ==
  ASSUME NEW m \in {"cfsm", "cfsm_v2", "cfsm_v3", "avm", "sfm", "gcfm"},
         NEW c, Crowd(c), NEW a \in DOMAIN c, NEW draw \in Directions,
         NextState(m, c, a, draw).x # NaN
  PROVE  NextState(m, c, a, draw) \in Agent /\ NextState(m, c, a, draw).radius = c[a].radius
<1> DEFINE g == c[a]
           n == NextState(m, c, a, draw)
           Speed(moved) == [g EXCEPT !.o = moved.o, !.x = @ + moved.dx]
<1>1. g \in Agent
  BY DEF Crowd
<1>2. ASSUME NEW moved, \E d \in Directions : \E s \in Int : moved = Moved(d, s)
      PROVE  Speed(moved) \in Agent /\ Speed(moved).radius = g.radius
  <2>1. PICK d \in Directions, s \in Int : moved = Moved(d, s)
    BY <1>2
  <2> HIDE DEF g
  <2>2. Speed(moved) \in Agent
    BY <1>1, <2>1, MovedIsAgent
  <2>3. Speed(moved).radius = g.radius
    BY <1>1 DEF Agent
  <2> QED
    BY <2>2, <2>3
<1>3. CASE m = "cfsm"
  <2>1. n = Speed(CollisionFree(c, a))
    BY <1>3 DEF NextState
  <2>2. \E d \in Directions : \E s \in Int : CollisionFree(c, a) = Moved(d, s)
    BY SteppingType DEF CollisionFree
  <2> HIDE DEF n, g, Speed
  <2>3. Speed(CollisionFree(c, a)) \in Agent /\ Speed(CollisionFree(c, a)).radius = g.radius
    BY <1>2, <2>2
  <2> QED
    BY <2>1, <2>3 DEF n, g
<1>4. CASE m = "cfsm_v2"
  <2>1. n = Speed(CollisionFreeV2(c, a))
    BY <1>4 DEF NextState
  <2>2. \E d \in Directions : \E s \in Int : CollisionFreeV2(c, a) = Moved(d, s)
    BY SteppingType DEF CollisionFreeV2
  <2> HIDE DEF n, g, Speed
  <2>3. Speed(CollisionFreeV2(c, a)) \in Agent /\ Speed(CollisionFreeV2(c, a)).radius = g.radius
    BY <1>2, <2>2
  <2> QED
    BY <2>1, <2>3 DEF n, g
<1>5. CASE m = "cfsm_v3"
  <2>1. n = Speed(CollisionFreeV3(c, a))
    BY <1>5 DEF NextState
  <2>2. \E d \in Directions : \E s \in Int : CollisionFreeV3(c, a) = Moved(d, s)
    BY CollisionFreeV3Type
  <2> HIDE DEF n, g, Speed
  <2>3. Speed(CollisionFreeV3(c, a)) \in Agent /\ Speed(CollisionFreeV3(c, a)).radius = g.radius
    BY <1>2, <2>2
  <2> QED
    BY <2>1, <2>3 DEF n, g
<1>6. CASE m = "avm"
  <2>1. n = Speed(Anticipating(c, a, draw))
    BY <1>6 DEF NextState
  <2>2. \E d \in Directions : \E s \in Int : Anticipating(c, a, draw) = Moved(d, s)
    BY AnticipatingType
  <2> HIDE DEF n, g, Speed
  <2>3. /\ Speed(Anticipating(c, a, draw)) \in Agent
        /\ Speed(Anticipating(c, a, draw)).radius = g.radius
    BY <1>2, <2>2
  <2> QED
    BY <2>1, <2>3 DEF n, g
<1>7. CASE m = "sfm"
  <2>1. PICK v \in Int : v = SocialForce(c, a)
    BY SocialForceType
  <2>2. n = [g EXCEPT !.v = v, !.x = @ + v]
    BY <1>7, <2>1 DEF NextState
  <2> HIDE DEF n, g
  <2>3. PICK x \in Int : x = g.x + v
    BY <1>1 DEF Agent
  <2>4. n = [g EXCEPT !.v = v, !.x = x]
    BY <2>2, <2>3
  <2>5. [g EXCEPT !.v = v, !.x = x] \in Agent /\ [g EXCEPT !.v = v, !.x = x].radius = g.radius
    BY <1>1 DEF Agent
  <2> QED
    BY <2>4, <2>5 DEF n, g
<1>8. CASE m = "gcfm"
  <2>0. CentrifugalForce(c, a) # NaN
    <3> SUFFICES ASSUME CentrifugalForce(c, a) = NaN PROVE n.x = NaN
      OBVIOUS
    <3>1. n = [g EXCEPT !.x = NaN]
      BY <1>8 DEF NextState
    <3> HIDE DEF n, g
    <3> QED
      BY <1>1, <3>1 DEF Agent
  <2>1. PICK v \in Int : v = CentrifugalForce(c, a)
    BY <2>0, CentrifugalForceType
  <2>2. PICK e0 : e0 = IF g.route # 0 THEN MollifyE0(g) ELSE 0
    OBVIOUS
  <2>3. PICK o : o = Sgn(v)
    OBVIOUS
  <2>4. PICK delay : delay = Least(g.delay + 1, Settle)
    OBVIOUS
  <2>5. n = [g EXCEPT !.v = v, !.x = @ + v, !.o = o, !.delay = delay, !.e0 = e0]
    BY <1>8, <2>0, <2>1, <2>2, <2>3, <2>4 DEF NextState
  <2> HIDE DEF n, g
  <2>6. e0 \in Int
    BY <1>1, <2>2, MollifiedType
  <2>7. o \in Directions
    BY <2>3, SignTypes
  <2>8. delay \in Nat
    BY <1>1, <2>4, ForceAssumption DEF Agent, Least
  <2>9. PICK x \in Int : x = g.x + v
    BY <1>1 DEF Agent
  <2> DEFINE k == [g EXCEPT !.v = v, !.x = x, !.o = o, !.delay = delay, !.e0 = e0]
  <2>10. n = k
    BY <2>5, <2>9
  <2>11. k \in Agent /\ k.radius = g.radius
    BY <1>1, <2>6, <2>7, <2>8 DEF Agent
  <2> QED
    BY <2>10, <2>11 DEF n, g
<1> QED
  BY <1>3, <1>4, <1>5, <1>6, <1>7, <1>8 DEF n, g

-----------------------------------------------------------------------------
(* The types of a crowd, whatever moves it                                 *)

CrowdInv ==
  /\ TypeOK
  /\ IsFiniteSet(DOMAIN crowd)
  /\ model # "gcfm" => \A a \in DOMAIN crowd : crowd[a].radius \in Radii

LEMMA CrowdAdd ==
  ASSUME CrowdInv, NEW a \in Agents, Add(a)
  PROVE  CrowdInv'
<1>1. PICK x \in Places, r \in IF model = "gcfm" THEN {0} ELSE Radii,
            o \in IF model = "gcfm" THEN Directions ELSE {0},
            v0 \in IF model = "gcfm" THEN DesiredSpeeds ELSE {V0} :
        LET agent == [x |-> x, radius |-> r, v0 |-> v0, o |-> o, v |-> 0,
                      route |-> 0, e0 |-> 0, delay |-> 0]
            added == [b \in DOMAIN crowd \cup {a} |-> IF b = a THEN agent ELSE crowd[b]]
        IN  CheckModelConstraint(model, added, a) /\ crowd' = added
  BY DEF Add
<1> DEFINE agent == [x |-> x, radius |-> r, v0 |-> v0, o |-> o, v |-> 0,
                     route |-> 0, e0 |-> 0, delay |-> 0]
           added == [b \in DOMAIN crowd \cup {a} |-> IF b = a THEN agent ELSE crowd[b]]
<1>2. agent \in Agent /\ agent.x \in Lo .. Hi /\ (model # "gcfm" => agent.radius \in Radii)
  <2>1. o \in Directions /\ x \in Int /\ x \in Lo .. Hi
    BY ModelAssumption DEF Directions
  <2>2. r \in Nat /\ v0 \in Nat /\ (model # "gcfm" => r \in Radii)
    BY ModelAssumption
  <2> QED
    BY <2>1, <2>2 DEF Agent, Directions
<1> HIDE DEF agent
<1>3. crowd' = added
  BY <1>1 DEF agent
<1>4. /\ DOMAIN crowd' = DOMAIN crowd \cup {a} /\ crowd'[a] = agent
      /\ \A b \in DOMAIN crowd \ {a} : crowd'[b] = crowd[b]
  BY <1>3
<1>5. IsFiniteSet(DOMAIN crowd')
  <2>1. IsFiniteSet(DOMAIN crowd \cup {a})
    BY FS_AddElement DEF CrowdInv
  <2> QED
    BY <1>4, <2>1
<1>6. model' = model
  BY DEF Add
<1>7. TypeOK'
  BY <1>2, <1>4, <1>6 DEF CrowdInv, TypeOK
<1>8. model' # "gcfm" => \A b \in DOMAIN crowd' : crowd'[b].radius \in Radii
  BY <1>2, <1>4, <1>6 DEF CrowdInv
<1> QED
  BY <1>5, <1>7, <1>8 DEF CrowdInv

LEMMA CrowdSetDesiredSpeed ==
  ASSUME CrowdInv, NEW a \in Agents, NEW speed \in DesiredSpeeds, SetDesiredSpeed(a, speed)
  PROVE  CrowdInv'
<1>1. /\ a \in DOMAIN crowd /\ model' = model /\ model = "gcfm"
      /\ crowd' = [crowd EXCEPT ![a].v0 = speed]
  BY DEF SetDesiredSpeed
<1>2. speed \in Nat /\ crowd[a] \in Agent /\ crowd[a].x \in Lo .. Hi
  BY <1>1, ModelAssumption DEF CrowdInv, TypeOK
<1> DEFINE agent == [crowd[a] EXCEPT !.v0 = speed]
<1>3. agent \in Agent /\ agent.x \in Lo .. Hi
  BY <1>2 DEF Agent
<1>4. /\ DOMAIN crowd' = DOMAIN crowd /\ crowd'[a] = agent
      /\ \A b \in DOMAIN crowd \ {a} : crowd'[b] = crowd[b]
  BY <1>1
<1> HIDE DEF agent
<1> QED
  BY <1>1, <1>3, <1>4 DEF CrowdInv, TypeOK

\* The crowd of an iteration: everybody has the route of this iteration.
Routed(c, route) == [a \in DOMAIN c |-> [c[a] EXCEPT !.route = route[a]]]

LEMMA RoutedTypes ==
  ASSUME NEW c, \A a \in DOMAIN c : c[a] \in Agent, NEW route \in [DOMAIN c -> Directions]
  PROVE  /\ DOMAIN Routed(c, route) = DOMAIN c
         /\ \A a \in DOMAIN c : /\ Routed(c, route)[a] \in Agent
                                /\ Routed(c, route)[a].x = c[a].x
                                /\ Routed(c, route)[a].radius = c[a].radius
<1>1. ASSUME NEW a \in DOMAIN c
      PROVE  /\ Routed(c, route)[a] \in Agent
             /\ Routed(c, route)[a].x = c[a].x
             /\ Routed(c, route)[a].radius = c[a].radius
  <2>1. Routed(c, route)[a] = [c[a] EXCEPT !.route = route[a]]
    BY DEF Routed
  <2>2. c[a] \in Agent /\ route[a] \in Directions
    OBVIOUS
  <2> QED
    BY <2>1, <2>2 DEF Agent
<1> QED
  BY <1>1 DEF Routed

LEMMA IterateMoves ==
  ASSUME Iterate
  PROVE  \E route \in [DOMAIN crowd -> Directions] :
           LET routed == Routed(crowd, route)
           IN  \E draw \in Draws(model, routed) :
                 \/ /\ crowd' = NextGeneration(model, routed, draw)
                    /\ \A a \in DOMAIN crowd' : Arrives(crowd'[a].x)
                 \/ crowd' = routed
BY Zenon DEF Iterate, Routed

LEMMA CrowdIterate ==
  ASSUME CrowdInv, Iterate
  PROVE  /\ CrowdInv' /\ DOMAIN crowd' = DOMAIN crowd
         /\ \A a \in DOMAIN crowd : crowd'[a].radius = crowd[a].radius
<1>1. PICK route \in [DOMAIN crowd -> Directions] :
        LET routed == Routed(crowd, route)
        IN  \E draw \in Draws(model, routed) :
              \/ /\ crowd' = NextGeneration(model, routed, draw)
                 /\ \A a \in DOMAIN crowd' : Arrives(crowd'[a].x)
              \/ crowd' = routed
  BY IterateMoves
<1>2. PICK routed : routed = Routed(crowd, route)
  OBVIOUS
<1>3. PICK draw \in Draws(model, routed) :
        \/ /\ crowd' = NextGeneration(model, routed, draw)
           /\ \A a \in DOMAIN crowd' : Arrives(crowd'[a].x)
        \/ crowd' = routed
  BY <1>1, <1>2
<1>4. /\ \A a \in DOMAIN crowd : crowd[a] \in Agent
      /\ model \in Models /\ model' = model
  BY DEF CrowdInv, TypeOK, Iterate
<1>5. /\ DOMAIN routed = DOMAIN crowd
      /\ \A a \in DOMAIN crowd : /\ routed[a] \in Agent
                                 /\ routed[a].x = crowd[a].x
                                 /\ routed[a].radius = crowd[a].radius
  BY <1>2, <1>4, RoutedTypes
<1>6. CASE crowd' = routed
  BY <1>4, <1>5, <1>6 DEF CrowdInv, TypeOK
<1>7. CASE /\ crowd' = NextGeneration(model, routed, draw)
           /\ \A a \in DOMAIN crowd' : Arrives(crowd'[a].x)
  <2>1. Crowd(routed)
    BY <1>5 DEF Crowd, CrowdInv
  <2>2. DOMAIN crowd' = DOMAIN crowd
    BY <1>5, <1>7 DEF NextGeneration
  <2>3. ASSUME NEW a \in DOMAIN crowd
        PROVE  crowd'[a] \in Agent /\ crowd'[a].radius = crowd[a].radius
    <3>1. PICK u : u = IF a \in DOMAIN draw THEN draw[a] ELSE 0
      OBVIOUS
    <3>2. u \in Directions
      BY <3>1 DEF Draws, Directions
    <3>3. crowd'[a] = NextState(model, routed, a, u)
      BY <1>5, <1>7, <3>1 DEF NextGeneration
    <3>4. model \in {"cfsm", "cfsm_v2", "cfsm_v3", "avm", "sfm", "gcfm"}
      BY <1>4, ModelAssumption
    <3>5. crowd'[a].x # NaN
      BY <1>7, <2>2 DEF Arrives
    <3> QED
      BY <1>5, <2>1, <3>2, <3>3, <3>4, <3>5, NextStateType
  <2>4. \A a \in DOMAIN crowd : crowd'[a].x \in Lo .. Hi
    BY <1>7, <2>2, <2>3, SpaceAssumption DEF Arrives, OnSurface, Agent
  <2>5. TypeOK'
    BY <1>4, <2>2, <2>3, <2>4 DEF CrowdInv, TypeOK
  <2> QED
    BY <1>4, <2>2, <2>3, <2>5 DEF CrowdInv
<1> QED
  BY <1>3, <1>6, <1>7

LEMMA CrowdStays == Spec => []CrowdInv
<1>1. Init => CrowdInv
  <2>1. DOMAIN [a \in {} |-> 0] = {}
    OBVIOUS
  <2> QED
    BY <2>1, FS_EmptySet DEF Init, CrowdInv, TypeOK
<1>2. CrowdInv /\ [Next]_vars => CrowdInv'
  <2> SUFFICES ASSUME CrowdInv, [Next]_vars PROVE CrowdInv'
    OBVIOUS
  <2>1. ASSUME NEW a \in Agents, Add(a) PROVE CrowdInv'
    BY <2>1, CrowdAdd
  <2>2. CASE Iterate
    BY <2>2, CrowdIterate
  <2>3. ASSUME NEW a \in Agents, NEW speed \in DesiredSpeeds, SetDesiredSpeed(a, speed)
        PROVE  CrowdInv'
    BY <2>3, CrowdSetDesiredSpeed
  <2>4. CASE UNCHANGED vars
    BY <2>4 DEF vars, CrowdInv, TypeOK
  <2> QED
    BY <2>1, <2>2, <2>3, <2>4 DEF Next
<1> QED
  BY <1>1, <1>2, PTL DEF Spec

\* Everybody stays on the surface with whole numbers for a position and a
\* speed, and is told about everybody in range, whatever model moves them.
THEOREM CrowdIsSound == Spec => []CrowdSound
<1>1. CrowdInv => CrowdSound
  <2> SUFFICES ASSUME CrowdInv PROVE CrowdSound
    OBVIOUS
  <2>1. TypeOK /\ \A a \in DOMAIN crowd : crowd[a].x \in Int
    BY DEF CrowdInv, TypeOK, Agent
  <2>2. {CutOff, SFMCutOff, GCFMCutOff, ContactRange} \subseteq Nat
    BY ModelAssumption, ForceAssumption
  <2>3. ASSUME NEW a \in DOMAIN crowd, NEW r \in {CutOff, SFMCutOff, GCFMCutOff, ContactRange}
        PROVE  InRange(crowd, crowd[a].x, r)
                 = {b \in DOMAIN crowd : AbsOf(RelativePosition(crowd, a, b)) <= r}
    <3>1. r \in Nat /\ crowd[a].x \in Int
      BY <2>1, <2>2
    <3>2. InRange(crowd, crowd[a].x, r) = {b \in DOMAIN crowd : AbsOf(crowd[b].x - crowd[a].x) <= r}
      BY <2>1, <3>1, NobodyIsMissed
    <3> QED
      BY <3>2 DEF RelativePosition
  <2> QED
    BY <2>1, <2>3 DEF CrowdSound, NobodyMissed
<1> QED
  BY <1>1, CrowdStays, PTL

\* For any sizes and speeds of agents and any positive width of the
\* interpolation, hermite_interp is asked for points between those it is given
\* where an agent has a desired speed, and for one that is not a number at every
\* wall an agent without a desired speed moves towards.
THEOREM InterpolationStaysInRange == Spec => []InterpolationInRange
<1>1. CrowdInv => InterpolationInRange
  <2> SUFFICES ASSUME CrowdInv, NEW a \in DOMAIN crowd
               PROVE  /\ \A b \in DOMAIN crowd \ {a} :
                           LET d == AgentToAgentSpacing(crowd, a, b)
                           IN  InZone(PedZone(d, Ped), d, Ped)
                      /\ \A w \in WallsInRange(crowd, a, WallRange) :
                           LET d == WallDistance(crowd, a, w)
                           IN  InZone(WallZone(d, Extent(crowd[a]), Geo), d, Geo)
                                 <=> crowd[a].v0 > 0
    BY DEF InterpolationInRange
  <2>1. Crowd(crowd)
    BY DEF Crowd, CrowdInv, TypeOK
  <2>2. ASSUME NEW d \in Int, NEW par \in {Ped, Geo}
        PROVE  InZone(PedZone(d, par), d, par)
    BY RangeTypes, ForceAssumption DEF PedZone, InZone
  <2>3. ASSUME NEW d \in Int, NEW r \in Nat, NEW par \in {Ped, Geo}
        PROVE  InZone(WallZone(d, r, par), d, par)
    BY RangeTypes, ForceAssumption DEF WallZone, InZone
  <2>4. ASSUME NEW r, NEW par
        PROVE  ~InZone(WallZone(NaN, r, par), NaN, par)
    BY DEF WallZone, InZone
  <2>5. ASSUME NEW b \in DOMAIN crowd
        PROVE  InZone(PedZone(AgentToAgentSpacing(crowd, a, b), Ped),
                      AgentToAgentSpacing(crowd, a, b), Ped)
    <3>1. AgentToAgentSpacing(crowd, a, b) \in Int
      BY <2>1, AgentSpacingType
    <3> QED
      BY <2>2, <3>1
  <2>6. ASSUME NEW w \in WallsInRange(crowd, a, WallRange)
        PROVE  InZone(WallZone(WallDistance(crowd, a, w), Extent(crowd[a]), Geo),
                      WallDistance(crowd, a, w), Geo) <=> crowd[a].v0 > 0
    <3>1. Extent(crowd[a]) \in Nat
      BY <2>1, ExtentType DEF Crowd
    <3>2. w \in Int
      BY WallsTypes
    <3>3. CASE crowd[a].v0 > 0
      <4>1. WallDistance(crowd, a, w) \in Int
        BY <2>1, <3>2, <3>3, WallDistanceType
      <4> QED
        BY <2>3, <3>1, <3>3, <4>1
    <3>4. CASE ~(crowd[a].v0 > 0)
      <4>1. WallDistance(crowd, a, w) = NaN
        BY <2>1, <3>2, <3>4, WallDistanceType
      <4> QED
        BY <2>4, <3>4, <4>1
    <3> QED
      BY <3>3, <3>4
  <2> QED
    BY <2>5, <2>6
<1> QED
  BY <1>1, CrowdStays, PTL

-----------------------------------------------------------------------------
(* Distances are kept                                                      *)

\* The time gap covers at least two steps, the validation looks as far as two
\* agents reach, and the neighborhood as far as two agents come in one step.
Spacious ==
  /\ TimeGap >= 2
  /\ \A r, s \in Radii : r + s <= ContactRange /\ r + s + 2 * V0 <= CutOff

\* The buffer of the anticipation velocity model is wider than what two agents
\* can creep while one of them still creeps.
Buffered == AVMBuffer >= Creep * TimeGap + 2 * Creep

\* At most half of the gap to whoever is in front, and nothing if it is closed.
Careful(c, a, d, s) ==
  \A b \in Neighborhood(c, a) :
    d * RelativePosition(c, a, b) >= 0 => 2 * s <= Largest(Gap(c, a, b), 0)

LEMMA HalfTheSpace ==
  ASSUME TimeGap >= 2, NEW p \in Int, NEW gap \in Int, p <= gap
  PROVE  p \div TimeGap \in Int /\ 2 * (p \div TimeGap) <= Largest(gap, 0)
<1>1. PICK e \in Nat : TimeGap = 2 + e
  <2>1. TimeGap - 2 \in Nat /\ TimeGap = 2 + (TimeGap - 2)
    BY ModelAssumption
  <2> QED
    BY <2>1
<1>2. TimeGap \in Nat \ {0}
  BY ModelAssumption
<1>3. PICK q \in Int : q = p \div TimeGap
  BY <1>2, QuotientType
<1>4. q * TimeGap <= p
  BY <1>2, <1>3
<1>5. q * TimeGap = 2 * q + q * e
  BY <1>1
<1>6. CASE q >= 0
  <2>1. q * e \in Nat
    BY <1>6
  <2> QED
    BY <1>3, <1>4, <1>5, <2>1 DEF Largest
<1>7. CASE ~(q >= 0)
  BY <1>3, <1>7 DEF Largest
<1> QED
  BY <1>6, <1>7

\* A step of the agent that leads to the state n.
CarefulStep(c, a, n) ==
  \E d \in Directions : \E s \in Nat :
    s <= V0 /\ n.x = c[a].x + d * s /\ Careful(c, a, d, s)

LEMMA SpeedModelCareful ==
  ASSUME TimeGap >= 2, NEW c, Crowd(c), NEW a \in DOMAIN c, NEW d \in Directions
  PROVE  LET s == OptimalStep(c, a, d) IN s \in Nat /\ s <= V0 /\ Careful(c, a, d, s)
<1>c. V0 \in Nat /\ TimeGap \in Nat \ {0}
  BY ModelAssumption
<1>1. PICK p : p = Spacing(c, a, d, 0)
  OBVIOUS
<1>2. p \in Int
  BY <1>1, SpacingType
<1>3. PICK q \in Int : q = p \div TimeGap
  BY <1>c, <1>2, QuotientType
<1>4. PICK s : s = OptimalStep(c, a, d)
  OBVIOUS
<1>5. s = Clamp(0, q, V0)
  BY <1>1, <1>3, <1>4 DEF OptimalStep
<1>6. s \in Nat /\ s <= V0 /\ s <= Largest(q, 0)
  BY <1>c, <1>5 DEF Clamp, Least, Largest
<1>7. ASSUME NEW b \in Neighborhood(c, a), d * RelativePosition(c, a, b) >= 0
      PROVE  2 * s <= Largest(Gap(c, a, b), 0)
  <2>1. PICK gap \in Int : gap = Gap(c, a, b) /\ p <= gap
    <3>1. Gap(c, a, b) \in Int /\ p <= Gap(c, a, b) - 0
      BY <1>1, <1>7, SpacingType
    <3> QED
      BY <1>2, <3>1
  <2>2. 2 * q <= Largest(gap, 0)
    BY <1>2, <1>3, <2>1, HalfTheSpace
  <2> QED
    BY <1>6, <2>1, <2>2 DEF Largest
<1> QED
  BY <1>4, <1>6, <1>7 DEF Careful

LEMMA AnticipatingCareful ==
  ASSUME TimeGap >= 2, Buffered, NEW c, Crowd(c), NEW a \in DOMAIN c, NEW draw \in Directions,
         OptimalStepAVM(AheadAVM(c, a), draw) >= 0
  PROVE  LET s == OptimalStepAVM(AheadAVM(c, a), draw)
         IN  s \in Nat /\ s <= V0 /\ Careful(c, a, DirectionAVM(c, a), s)
<1>c. V0 \in Nat /\ TimeGap \in Nat \ {0} /\ Creep \in Nat /\ AVMBuffer \in Nat
  BY ModelAssumption
<1>1. PICK d \in Directions : d = DirectionAVM(c, a)
  BY DirectionAVMType
<1>2. PICK p \in Int : p = AheadAVM(c, a)
  BY <1>c, <1>1, SpacingType DEF AheadAVM, SpacingAVM
<1>3. PICK q \in Int : q = p \div TimeGap
  BY <1>c, QuotientType
<1>4. PICK u \in Int : u = IF Creeps(p) THEN draw * Creep ELSE q
  <2>1. draw * Creep \in Int
    BY <1>c DEF Directions
  <2> QED
    BY <2>1
<1>5. PICK s : s = OptimalStepAVM(AheadAVM(c, a), draw)
  OBVIOUS
<1>6. s = Clamp(-Creep, u, V0)
  BY <1>2, <1>3, <1>4, <1>5 DEF OptimalStepAVM
<1>7. s \in Nat /\ s <= V0 /\ s <= Largest(u, 0)
  <2>1. s >= 0
    BY <1>5
  <2> QED
    BY <1>c, <1>6, <2>1 DEF Clamp, Least, Largest
<1>8. PICK reach \in Nat : reach = Creep * TimeGap
  BY <1>c
<1>9. ASSUME NEW b \in Neighborhood(c, a), d * RelativePosition(c, a, b) >= 0
      PROVE  2 * s <= Largest(Gap(c, a, b), 0)
  <2>1. PICK gap \in Int : gap = Gap(c, a, b) /\ p <= gap - AVMBuffer
    <3>1. AVMBuffer \in Int
      BY <1>c
    <3>2. Gap(c, a, b) \in Int /\ Spacing(c, a, d, AVMBuffer) <= Gap(c, a, b) - AVMBuffer
      BY <1>9, <3>1, SpacingType
    <3>3. p = Spacing(c, a, d, AVMBuffer)
      BY <1>1, <1>2 DEF AheadAVM, SpacingAVM
    <3> QED
      BY <3>2, <3>3
  <2>2. CASE Creeps(p)
    <3>1. -reach < p
      BY <1>8, <2>2 DEF Creeps, AbsOf
    <3>2. AVMBuffer >= reach + 2 * Creep
      BY <1>8 DEF Buffered
    <3>3. 2 * Creep < gap
      BY <1>c, <2>1, <3>1, <3>2
    <3>4. u <= Creep
      BY <1>c, <1>4, <2>2 DEF Directions
    <3> QED
      BY <1>c, <1>7, <2>1, <3>3, <3>4 DEF Largest
  <2>3. CASE ~Creeps(p)
    <3>1. p <= gap
      BY <1>c, <2>1
    <3>2. 2 * q <= Largest(gap, 0)
      BY <1>3, <3>1, HalfTheSpace
    <3> QED
      BY <1>4, <1>7, <2>1, <2>3, <3>2 DEF Largest
  <2> QED
    BY <2>2, <2>3
<1> QED
  BY <1>1, <1>5, <1>7, <1>9 DEF Careful

\* With the speed models everybody is careful, and with the anticipation
\* velocity model whoever does not move blindly.
LEMMA SightedIsCareful ==
  ASSUME TimeGap >= 2, NEW m \in {"cfsm", "cfsm_v2", "avm"}, m = "avm" => Buffered,
         NEW c, Crowd(c), NEW a \in DOMAIN c, NEW draw \in Directions,
         NEW n, n = NextState(m, c, a, draw),
         m = "avm" => /\ WallsInRange(c, a, WallBuffer + c[a].radius) = {}
                      /\ ~(n.o * (n.x - c[a].x) < 0)
  PROVE  CarefulStep(c, a, n)
<1> DEFINE Speed(moved) == [c[a] EXCEPT !.o = moved.o, !.x = @ + moved.dx]
<1>c. V0 \in Nat
  BY ModelAssumption
<1>1. c[a] \in Agent /\ c[a].x \in Int /\ c[a].o \in Directions
  BY CrowdTypes DEF Crowd
<1>2. ASSUME NEW d, NEW s
      PROVE  Speed(Moved(d, s)).o = d /\ Speed(Moved(d, s)).x = c[a].x + d * s
  BY <1>1 DEF Moved, Agent
<1> HIDE DEF Speed
<1>3. ASSUME NEW force, n = Speed(Stepping(c, a, force))
      PROVE  CarefulStep(c, a, n)
  <2>1. PICK d \in Directions : d = DirectionOf(Unit * c[a].route + force, c[a].o)
    BY <1>1, TurnType
  <2>2. PICK s : s = OptimalStep(c, a, d)
    OBVIOUS
  <2>3. s \in Nat /\ s <= V0 /\ Careful(c, a, d, s)
    BY <2>2, SpeedModelCareful
  <2>4. n = Speed(Moved(d, s))
    BY <1>3, <2>1, <2>2 DEF Stepping
  <2>5. n.x = c[a].x + d * s
    BY <1>2, <2>4
  <2> QED
    BY <2>3, <2>5 DEF CarefulStep
<1>4. CASE m = "cfsm"
  <2>1. n = Speed(Stepping(c, a, Repulsion(c, a, ModelStrength)))
    BY <1>4 DEF NextState, CollisionFree, Speed
  <2> QED
    BY <1>3, <2>1
<1>5. CASE m = "cfsm_v2"
  <2>1. n = Speed(Stepping(c, a, RepulsionV2(c, a)))
    BY <1>5 DEF NextState, CollisionFreeV2, Speed
  <2> QED
    BY <1>3, <2>1
<1>6. CASE m = "avm"
  <2>1. PICK d \in Directions : d = DirectionAVM(c, a)
    BY DirectionAVMType
  <2>2. WallAvoidance(c, a, d) = d
    BY <1>6 DEF WallAvoidance
  <2>3. PICK s : s = OptimalStepAVM(AheadAVM(c, a), draw)
    OBVIOUS
  <2>4. n = Speed(Moved(d, s))
    BY <1>6, <2>1, <2>2, <2>3 DEF NextState, Anticipating, Speed
  <2>5. n.o = d /\ n.x = c[a].x + d * s
    BY <1>2, <2>4
  <2>6. s \in Int
    <3>1. PICK p \in Int : p = AheadAVM(c, a)
      BY <2>1, SpacingType, ModelAssumption DEF AheadAVM, SpacingAVM
    <3>2. PICK u \in Int : u = IF Creeps(p) THEN draw * Creep ELSE p \div TimeGap
      <4>1. draw * Creep \in Int /\ p \div TimeGap \in Int
        BY ModelAssumption DEF Directions
      <4> QED
        BY <4>1
    <3>3. -Creep \in Int /\ V0 \in Int
      BY ModelAssumption
    <3>4. Clamp(-Creep, u, V0) \in Int
      BY <3>3, ClampType
    <3> QED
      BY <2>3, <3>1, <3>2, <3>4 DEF OptimalStepAVM
  <2>7. CASE s >= 0
    <3>1. s \in Nat /\ s <= V0 /\ Careful(c, a, d, s)
      BY <1>6, <2>1, <2>3, <2>7, AnticipatingCareful
    <3> QED
      BY <2>5, <3>1 DEF CarefulStep
  <2>8. CASE ~(s >= 0)
    <3>1. d = 0
      <4>1. PICK o, x : o = n.o /\ x = n.x
        OBVIOUS
      <4>3. ~(o * (x - c[a].x) < 0)
        BY <1>6, <4>1
      <4>4. o = d /\ x = c[a].x + d * s
        BY <2>5, <4>1
      <4>2. d = -1 \/ d = 0 \/ d = 1
        BY DEF Directions
      <4> QED
        BY <1>1, <2>6, <2>8, <4>2, <4>3, <4>4
    <3>2. n.x = c[a].x + d * 0
      BY <1>1, <2>5, <2>6, <3>1
    <3>3. Careful(c, a, d, 0)
      <4>1. \A b \in Neighborhood(c, a) : d * RelativePosition(c, a, b) >= 0 => Gap(c, a, b) \in Int
        BY SpacingType
      <4> QED
        BY <4>1 DEF Careful, Largest
    <3> QED
      BY <1>c, <3>2, <3>3 DEF CarefulStep
  <2> QED
    BY <2>6, <2>7, <2>8
<1> QED
  BY <1>4, <1>5, <1>6

LEMMA BothCareful ==
  ASSUME NEW x \in Int, NEW y \in Int, x < y, NEW r \in Nat,
         NEW d \in Directions, NEW e \in Directions, NEW s \in Nat, NEW t \in Nat,
         d * (y - x) >= 0 => 2 * s <= Largest((y - x) - r, 0),
         e * (x - y) >= 0 => 2 * t <= Largest((y - x) - r, 0)
  PROVE  (y + e * t) - (x + d * s) >= Least(y - x, r)
<1>1. d = -1 \/ d = 0 \/ d = 1
  BY DEF Directions
<1>2. e = -1 \/ e = 0 \/ e = 1
  BY DEF Directions
<1>3. CASE d = -1
  BY <1>2, <1>3 DEF Least, Largest
<1>4. CASE d = 0
  BY <1>2, <1>4 DEF Least, Largest
<1>5. CASE d = 1
  BY <1>2, <1>5 DEF Least, Largest
<1> QED
  BY <1>1, <1>3, <1>4, <1>5

\* Two careful steps bring two agents no closer than to their contact distance.
LEMMA CarefulSteps ==
  ASSUME Spacious, NEW c, Crowd(c), NEW a \in DOMAIN c, NEW b \in DOMAIN c,
         c[a].radius \in Radii, c[b].radius \in Radii, c[a].x < c[b].x,
         NEW n, CarefulStep(c, a, n), NEW k, CarefulStep(c, b, k)
  PROVE  k.x - n.x >= Least(c[b].x - c[a].x, c[a].radius + c[b].radius)
<1>1. PICK x \in Int, y \in Int, r \in Nat :
        /\ x = c[a].x /\ y = c[b].x /\ r = c[a].radius + c[b].radius
        /\ r + 2 * V0 <= CutOff
  <2>1. /\ c[a].x \in Int /\ c[b].x \in Int
        /\ c[a].radius \in Nat /\ c[b].radius \in Nat
    BY CrowdTypes
  <2>2. c[a].radius + c[b].radius + 2 * V0 <= CutOff
    BY DEF Spacious
  <2>3. c[a].radius + c[b].radius \in Nat
    BY <2>1
  <2> QED
    BY <2>1, <2>2, <2>3
<1>2. PICK d \in Directions, s \in Nat :
        s <= V0 /\ n.x = x + d * s /\ Careful(c, a, d, s)
  BY <1>1 DEF CarefulStep
<1>3. PICK e \in Directions, t \in Nat :
        t <= V0 /\ k.x = y + e * t /\ Careful(c, b, e, t)
  BY <1>1 DEF CarefulStep
<1>4. V0 \in Nat /\ CutOff \in Nat
  BY ModelAssumption
<1>5. x < y
  BY <1>1
<1>6. CASE y - x <= CutOff
  <2>1. b \in Neighborhood(c, a) /\ a \in Neighborhood(c, b)
    <3>1. \A u \in DOMAIN c : c[u].x \in Int
      BY CrowdTypes
    <3>2. InRange(c, x, CutOff) = {u \in DOMAIN c : AbsOf(c[u].x - x) <= CutOff}
      BY <1>4, <3>1, NobodyIsMissed
    <3>3. InRange(c, y, CutOff) = {u \in DOMAIN c : AbsOf(c[u].x - y) <= CutOff}
      BY <1>4, <3>1, NobodyIsMissed
    <3>4. AbsOf(y - x) <= CutOff /\ AbsOf(x - y) <= CutOff
      BY <1>5, <1>6 DEF AbsOf
    <3>5. a # b
      BY <1>1, <1>5
    <3> QED
      BY <1>1, <3>2, <3>3, <3>4, <3>5 DEF Neighborhood, OthersInRange
  <2>2. Gap(c, a, b) = y - x - r /\ RelativePosition(c, a, b) = y - x
    BY <1>1, <1>5 DEF Gap, RelativePosition, AbsOf
  <2>3. Gap(c, b, a) = y - x - r /\ RelativePosition(c, b, a) = x - y
    <3>1. c[b].radius + c[a].radius = r
      <4>1. c[a].radius \in Nat /\ c[b].radius \in Nat
        BY CrowdTypes
      <4> QED
        BY <1>1, <4>1
    <3> QED
      BY <1>1, <1>5, <3>1 DEF Gap, RelativePosition, AbsOf
  <2>4. d * (y - x) >= 0 => 2 * s <= Largest((y - x) - r, 0)
    BY <1>2, <2>1, <2>2 DEF Careful
  <2>5. e * (x - y) >= 0 => 2 * t <= Largest((y - x) - r, 0)
    BY <1>3, <2>1, <2>3 DEF Careful
  <2>6. (y + e * t) - (x + d * s) >= Least(y - x, r)
    BY <1>5, <2>4, <2>5, BothCareful
  <2> QED
    BY <1>1, <1>2, <1>3, <2>6
<1>7. CASE ~(y - x <= CutOff)
  <2>1. -s <= d * s /\ d * s <= s /\ d * s \in Int
    BY DEF Directions
  <2>2. -t <= e * t /\ e * t <= t /\ e * t \in Int
    BY DEF Directions
  <2>3. (y + e * t) - (x + d * s) >= r
    BY <1>1, <1>2, <1>3, <1>4, <1>7, <2>1, <2>2
  <2>4. r >= Least(y - x, r)
    BY DEF Least
  <2>5. Least(y - x, r) \in Int
    BY DEF Least
  <2>6. k.x - n.x = (y + e * t) - (x + d * s)
    BY <1>2, <1>3
  <2>7. (y + e * t) - (x + d * s) \in Int
    BY <2>1, <2>2
  <2> QED
    BY <1>1, <2>3, <2>4, <2>5, <2>6, <2>7
<1> QED
  BY <1>6, <1>7

LEMMA DistanceStep ==
  ASSUME Spacious, model = "avm" => Buffered, CrowdInv, [Next]_vars
  PROVE  KeepsDistance
<1> SUFFICES ASSUME model \in {"cfsm", "cfsm_v2", "avm"},
                    NEW a \in DOMAIN crowd, NEW b \in DOMAIN crowd,
                    crowd[a].x < crowd[b].x, ~Blind(a), ~Blind(b)
             PROVE  crowd'[b].x - crowd'[a].x
                      >= Least(crowd[b].x - crowd[a].x, crowd[a].radius + crowd[b].radius)
  BY DEF KeepsDistance
<1>1. /\ \A g \in DOMAIN crowd : crowd[g] \in Agent /\ crowd[g].radius \in Radii
      /\ IsFiniteSet(DOMAIN crowd)
  BY DEF CrowdInv, TypeOK
<1>2. ASSUME crowd'[a].x = crowd[a].x, crowd'[b].x = crowd[b].x
      PROVE  crowd'[b].x - crowd'[a].x
               >= Least(crowd[b].x - crowd[a].x, crowd[a].radius + crowd[b].radius)
  <2>1. PICK x \in Int, y \in Int, r \in Nat :
          x = crowd[a].x /\ y = crowd[b].x /\ r = crowd[a].radius + crowd[b].radius
    <3>1. /\ crowd[a].x \in Int /\ crowd[b].x \in Int
          /\ crowd[a].radius + crowd[b].radius \in Nat
      BY <1>1 DEF Agent
    <3> QED
      BY <3>1
  <2>2. y - x >= Least(y - x, r)
    BY DEF Least
  <2> QED
    BY <1>2, <2>1, <2>2
<1>3. ASSUME NEW new \in Agents, Add(new)
      PROVE  crowd'[a].x = crowd[a].x /\ crowd'[b].x = crowd[b].x
  <2>1. new \notin DOMAIN crowd
    BY <1>3 DEF Add
  <2>2. \A g \in DOMAIN crowd : crowd'[g] = crowd[g]
    BY <1>3, <2>1 DEF Add
  <2> QED
    BY <2>2
<1>4. CASE Iterate
  <2>1. PICK route \in [DOMAIN crowd -> Directions] :
          LET routed == Routed(crowd, route)
          IN  \E draw \in Draws(model, routed) :
                \/ /\ crowd' = NextGeneration(model, routed, draw)
                   /\ \A g \in DOMAIN crowd' : Arrives(crowd'[g].x)
                \/ crowd' = routed
    BY <1>4, IterateMoves
  <2>2. PICK routed : routed = Routed(crowd, route)
    OBVIOUS
  <2>3. PICK draw \in Draws(model, routed) :
          crowd' = NextGeneration(model, routed, draw) \/ crowd' = routed
    BY <2>1, <2>2
  <2>4. /\ DOMAIN routed = DOMAIN crowd
        /\ \A g \in DOMAIN crowd : /\ routed[g] \in Agent
                                   /\ routed[g].x = crowd[g].x
                                   /\ routed[g].radius = crowd[g].radius
    BY <1>1, <2>2, RoutedTypes
  <2>5. Crowd(routed)
    BY <1>1, <2>4 DEF Crowd
  <2>6. CASE crowd' = routed
    BY <1>2, <2>4, <2>6
  <2>7. CASE crowd' = NextGeneration(model, routed, draw)
    <3>1. ASSUME NEW g \in DOMAIN crowd, ~Blind(g)
          PROVE  CarefulStep(routed, g, crowd'[g])
      <4>1. PICK u : u = IF g \in DOMAIN draw THEN draw[g] ELSE 0
        OBVIOUS
      <4>2. u \in Directions
        BY <4>1 DEF Draws, Directions
      <4>3. crowd'[g] = NextState(model, routed, g, u)
        BY <2>4, <2>7, <4>1 DEF NextGeneration
      <4>4. routed[g].x = crowd[g].x /\ routed[g].radius = crowd[g].radius
        BY <2>4
      <4>5. model = "avm" => WallsInRange(routed, g, WallBuffer + routed[g].radius) = {}
        BY <3>1, <4>4 DEF Blind, TurnedByWall, WallsInRange
      <4>6. model = "avm" => ~(crowd'[g].o * (crowd'[g].x - routed[g].x) < 0)
        BY <3>1, <4>4, Zenon DEF Blind, SteppedBack
      <4>7. TimeGap >= 2
        BY DEF Spacious
      <4> QED
        BY <2>4, <2>5, <4>2, <4>3, <4>5, <4>6, <4>7, SightedIsCareful
    <3>2. CarefulStep(routed, a, crowd'[a]) /\ CarefulStep(routed, b, crowd'[b])
      BY <3>1
    <3>3. routed[a].radius \in Radii /\ routed[b].radius \in Radii
      BY <1>1, <2>4
    <3>4. /\ routed[a].x = crowd[a].x /\ routed[a].radius = crowd[a].radius
          /\ routed[b].x = crowd[b].x /\ routed[b].radius = crowd[b].radius
      BY <2>4
    <3>5. crowd'[b].x - crowd'[a].x
            >= Least(routed[b].x - routed[a].x, routed[a].radius + routed[b].radius)
      BY <2>4, <2>5, <3>2, <3>3, <3>4, CarefulSteps
    <3> QED
      BY <3>4, <3>5, Zenon
  <2> QED
    BY <2>3, <2>6, <2>7
<1>5. CASE UNCHANGED vars
  BY <1>2, <1>5 DEF vars
<1>6. ~\E g \in Agents, speed \in DesiredSpeeds : SetDesiredSpeed(g, speed)
  BY DEF SetDesiredSpeed
<1> QED
  BY <1>2, <1>3, <1>4, <1>5, <1>6 DEF Next

\* With the speed models two agents come no closer than their contact distance
\* and do not change places, for any number of agents, unless one of them is
\* turned by a wall or steps back.  For the anticipation velocity model its
\* buffer must be wider than what two agents creep before they meet.
THEOREM DistanceIsKept ==
  ASSUME Spacious, Buffered
  PROVE  Spec => StepsSound
<1>1. CrowdInv /\ [Next]_vars => [KeepsDistance]_vars
  BY DistanceStep
<1> QED
  BY <1>1, CrowdStays, PTL DEF Spec, StepsSound
-----------------------------------------------------------------------------
(* Nobody overlaps                                                         *)

SpeedModel == model \in {"cfsm", "cfsm_v2"}

KeptApart ==
  SpeedModel => \A a \in DOMAIN crowd :
                  /\ crowd[a].radius > 0
                  /\ \A b \in DOMAIN crowd : a # b => Apart(crowd, a, b)

\* An agent that passes the validation overlaps with nobody.
LEMMA AddApart ==
  ASSUME Spacious, NEW m \in {"cfsm", "cfsm_v2"}, NEW c, Crowd(c), NEW a \in DOMAIN c,
         \A b \in DOMAIN c : c[b].radius \in Radii,
         CheckModelConstraint(m, c, a)
  PROVE  \A b \in DOMAIN c \ {a} : Apart(c, a, b) /\ Apart(c, b, a)
<1>1. FarEnough(c, a, [b \in DOMAIN c |-> c[a].radius + c[b].radius])
  BY DEF CheckModelConstraint, SpeedModelConstraint, ConstraintV2
<1> SUFFICES ASSUME NEW b \in DOMAIN c \ {a}
             PROVE  Apart(c, a, b) /\ Apart(c, b, a)
  OBVIOUS
<1>2. /\ c[a].x \in Int /\ c[b].x \in Int /\ c[a].radius \in Nat /\ c[b].radius \in Nat
      /\ c[a].radius + c[b].radius <= ContactRange /\ ContactRange \in Nat
  BY CrowdTypes, ModelAssumption DEF Spacious
<1>3. AbsOf(c[b].x - c[a].x) >= c[a].radius + c[b].radius
  <2>1. CASE AbsOf(c[b].x - c[a].x) <= ContactRange
    <3>1. \A u \in DOMAIN c : c[u].x \in Int
      BY CrowdTypes
    <3>2. b \in OthersInRange(c, a, ContactRange)
      <4>1. InRange(c, c[a].x, ContactRange)
              = {u \in DOMAIN c : AbsOf(c[u].x - c[a].x) <= ContactRange}
        BY <1>2, <3>1, NobodyIsMissed
      <4> QED
        BY <2>1, <4>1 DEF OthersInRange
    <3>3. c[a].radius + c[b].radius < AbsOf(RelativePosition(c, a, b))
      BY <1>1, <3>2 DEF FarEnough
    <3> QED
      BY <1>2, <3>3 DEF RelativePosition, AbsOf
  <2>2. CASE ~(AbsOf(c[b].x - c[a].x) <= ContactRange)
    BY <1>2, <2>2 DEF AbsOf
  <2> QED
    BY <2>1, <2>2
<1> QED
  BY <1>2, <1>3 DEF Apart, RelativePosition, AbsOf

LEMMA AddKeeps ==
  ASSUME Spacious, CrowdInv, CrowdInv', SpeedModel, KeptApart, NEW a \in Agents, Add(a)
  PROVE  KeptApart'
<1>1. /\ DOMAIN crowd' = DOMAIN crowd \cup {a} /\ a \notin DOMAIN crowd
      /\ \A b \in DOMAIN crowd : crowd'[b] = crowd[b]
      /\ CheckModelConstraint(model, crowd', a)
  BY DEF Add
<1>2. Crowd(crowd') /\ \A b \in DOMAIN crowd' : crowd'[b].radius \in Radii
  <2>1. model' # "gcfm"
    BY DEF Add, SpeedModel
  <2> QED
    BY <2>1 DEF CrowdInv, TypeOK, Crowd
<1>3. crowd'[a].radius > 0
  <2>1. SpeedModelConstraint(crowd', a)
    BY <1>1 DEF SpeedModel, CheckModelConstraint, ConstraintV2
  <2>2. crowd'[a].radius \in Nat
    BY <1>1, <1>2, CrowdTypes
  <2> QED
    BY <2>1, <2>2 DEF SpeedModelConstraint
<1>4. \A b \in DOMAIN crowd' \ {a} : Apart(crowd', a, b) /\ Apart(crowd', b, a)
  BY <1>1, <1>2, AddApart DEF SpeedModel
<1>5. \A b, e \in DOMAIN crowd : b # e => Apart(crowd', b, e)
  BY <1>1 DEF KeptApart, Apart, RelativePosition
<1>6. \A b \in DOMAIN crowd : crowd'[b].radius > 0
  BY <1>1 DEF KeptApart
<1>7. \A b \in DOMAIN crowd' :
        /\ crowd'[b].radius > 0
        /\ \A e \in DOMAIN crowd' : b # e => Apart(crowd', b, e)
  BY <1>1, <1>3, <1>4, <1>5, <1>6
<1> QED
  BY <1>7 DEF KeptApart, Apart, RelativePosition

LEMMA IterateKeeps ==
  ASSUME Spacious, CrowdInv, SpeedModel, KeptApart, Iterate
  PROVE  KeptApart'
<1>1. /\ CrowdInv' /\ DOMAIN crowd' = DOMAIN crowd
      /\ \A a \in DOMAIN crowd : crowd'[a].radius = crowd[a].radius
  BY CrowdIterate
<1>2. \A a, b \in DOMAIN crowd :
        crowd[a].x < crowd[b].x =>
          crowd'[b].x - crowd'[a].x
            >= Least(crowd[b].x - crowd[a].x, crowd[a].radius + crowd[b].radius)
  <2>1. KeepsDistance
    BY DistanceStep DEF SpeedModel, Next
  <2> QED
    BY <2>1 DEF KeepsDistance, Blind, SpeedModel
<1>3. Crowd(crowd) /\ Crowd(crowd')
  BY <1>1 DEF CrowdInv, TypeOK, Crowd
<1>4. ASSUME NEW a \in DOMAIN crowd, NEW b \in DOMAIN crowd, a # b
      PROVE  Apart(crowd', a, b)
  <2>1. PICK x \in Int, y \in Int, r \in Nat \ {0} :
          /\ x = crowd[a].x /\ y = crowd[b].x
          /\ r = crowd[a].radius + crowd[b].radius
          /\ r = crowd[b].radius + crowd[a].radius
    <3>1. /\ crowd[a].x \in Int /\ crowd[b].x \in Int
          /\ crowd[a].radius \in Nat /\ crowd[b].radius \in Nat
      BY <1>3, CrowdTypes
    <3>2. crowd[a].radius > 0
      BY DEF KeptApart
    <3>3. /\ crowd[a].radius + crowd[b].radius \in Nat \ {0}
          /\ crowd[a].radius + crowd[b].radius = crowd[b].radius + crowd[a].radius
      BY <3>1, <3>2
    <3> QED
      BY <3>1, <3>3
  <2>2. AbsOf(y - x) >= r
    BY <1>4, <2>1 DEF KeptApart, Apart, RelativePosition
  <2>3. PICK n \in Int, k \in Int : n = crowd'[a].x /\ k = crowd'[b].x
    <3>1. crowd'[a].x \in Int /\ crowd'[b].x \in Int
      BY <1>1, <1>3, CrowdTypes
    <3> QED
      BY <3>1
  <2>4. x < y => k - n >= Least(y - x, r)
    BY <1>2, <2>1, <2>3
  <2>5. y < x => n - k >= Least(x - y, r)
    BY <1>2, <2>1, <2>3
  <2>6. AbsOf(k - n) >= r
    BY <2>2, <2>4, <2>5 DEF AbsOf, Least
  <2> QED
    BY <1>1, <2>1, <2>3, <2>6 DEF Apart, RelativePosition
<1>5. \A a \in DOMAIN crowd' :
        /\ crowd'[a].radius > 0
        /\ \A b \in DOMAIN crowd' : a # b => Apart(crowd', a, b)
  BY <1>1, <1>4 DEF KeptApart
<1> QED
  BY <1>5 DEF KeptApart, Apart, RelativePosition

LEMMA KeptApartStays ==
  ASSUME Spacious, CrowdInv, CrowdInv', KeptApart, [Next]_vars
  PROVE  KeptApart'
<1>1. ASSUME NEW a \in Agents, Add(a), SpeedModel PROVE KeptApart'
  BY <1>1, AddKeeps
<1>2. CASE Iterate /\ SpeedModel
  BY <1>2, IterateKeeps
<1>3. CASE Next /\ ~SpeedModel
  <2>1. model' = model
    BY <1>3 DEF Next, Add, SetDesiredSpeed, Iterate
  <2> QED
    BY <1>3, <2>1 DEF KeptApart, SpeedModel
<1>4. CASE UNCHANGED vars
  BY <1>4 DEF vars, KeptApart, SpeedModel, Apart, RelativePosition
<1>5. SpeedModel => ~\E a \in Agents, speed \in DesiredSpeeds : SetDesiredSpeed(a, speed)
  BY DEF SpeedModel, SetDesiredSpeed
<1> QED
  BY <1>1, <1>2, <1>3, <1>4, <1>5 DEF Next

\* With the collision free speed model (V1, V2) no two agents ever overlap,
\* for any number of agents, walls, cell size and strength of the repulsions,
\* where a time gap spans two steps and the neighborhood reaches far enough.
THEOREM NobodyOverlaps ==
  ASSUME Spacious
  PROVE  Spec => []NoOverlap
<1>1. Init => KeptApart
  BY DEF Init, KeptApart
<1>2. CrowdInv /\ CrowdInv' /\ KeptApart /\ [Next]_vars => KeptApart'
  BY KeptApartStays
<1>3. KeptApart => NoOverlap
  BY DEF KeptApart, NoOverlap, SpeedModel
<1> QED
  BY <1>1, <1>2, <1>3, CrowdStays, PTL DEF Spec
=============================================================================
