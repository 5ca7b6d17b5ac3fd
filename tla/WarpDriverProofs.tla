-------------------------- MODULE WarpDriverProofs --------------------------
(***************************************************************************)
(* Theorems about the warp driver model: the probabilities and gradients   *)
(* of an agent are exact in whatever order it perceives its neighbors,     *)
(* they take no side, and what it remembers of its way is true.            *)
(***************************************************************************)
EXTENDS WarpDriver, FiniteSetTheorems, WellFoundedInduction, TLAPS

-----------------------------------------------------------------------------
(* Induction over numbers and over finite sets                             *)

\* A set of numbers that is not empty has a least one.
LEMMA LeastOfNat ==
  ASSUME NEW T, T \subseteq Nat, T # {}
  PROVE  Min(T) \in T /\ \A y \in T : Min(T) <= y
<1>1. PICK x \in T : \A y \in T : ~(<<y, x>> \in OpToRel(<, Nat))
  BY NatLessThanWellFounded, WFMin
<1>2. \A y \in Nat : y < x => <<y, x>> \in OpToRel(<, Nat)
  BY Zenon DEF OpToRel
<1>3. \A y \in T : ~(y < x)
  BY <1>1, <1>2, Zenon
<1>4. \A y \in T : x <= y
  BY <1>3
<1> QED
  BY <1>1, <1>4 DEF Min

\* Induction, with the set of the numbers that have the property.
LEMMA Induction ==
  ASSUME NEW S, 0 \in S, \A n \in Nat : n \in S => n + 1 \in S
  PROVE  Nat \subseteq S
<1>1. SUFFICES ASSUME Nat \ S # {} PROVE FALSE
  BY Zenon
<1>2. PICK x \in Nat \ S : \A y \in Nat \ S : x <= y
  <2>1. Nat \ S \subseteq Nat
    OBVIOUS
  <2>2. Min(Nat \ S) \in Nat \ S /\ \A y \in Nat \ S : Min(Nat \ S) <= y
    BY <1>1, <2>1, LeastOfNat, Zenon
  <2> QED
    BY <2>2
<1>3. x # 0 /\ x - 1 \in Nat /\ x - 1 + 1 = x
  BY <1>2
<1>4. x - 1 \notin Nat \ S
  BY <1>2, <1>3
<1> QED
  BY <1>2, <1>3, <1>4

\* The same over the subsets of a finite set, one element at a time.
LEMMA FiniteInduction ==
  ASSUME NEW S, IsFiniteSet(S), NEW P, {} \in P,
         \A T \in SUBSET S : \A x \in S \ T : T \in P => T \cup {x} \in P
  PROVE  \A T \in SUBSET S : T \in P
<1> DEFINE N == {n \in Nat : \A T \in SUBSET S : Cardinality(T) = n => T \in P}
<1>1. \A T \in SUBSET S : IsFiniteSet(T) /\ Cardinality(T) \in Nat
  BY FS_Subset, FS_CardinalityType
<1>2. 0 \in N
  BY <1>1, FS_EmptySet
<1>3. \A n \in Nat : n \in N => n + 1 \in N
  <2> SUFFICES ASSUME NEW n \in Nat, n \in N,
                      NEW T \in SUBSET S, Cardinality(T) = n + 1
               PROVE  T \in P
    OBVIOUS
  <2>1. T # {}
    BY FS_EmptySet
  <2>2. PICK x \in T : TRUE
    BY <2>1
  <2>3. Cardinality(T \ {x}) = n
    BY <1>1, FS_RemoveElement
  <2>4. T \ {x} \in SUBSET S /\ x \in S \ (T \ {x}) /\ (T \ {x}) \cup {x} = T
    OBVIOUS
  <2>5. T \ {x} \in P
    BY <2>3, <2>4
  <2>6. (T \ {x}) \cup {x} \in P
    BY <2>4, <2>5, Zenon
  <2> QED
    BY <2>4, <2>6
<1> HIDE DEF N
<1>4. Nat \subseteq N
  BY <1>2, <1>3, Induction
<1> QED
  BY <1>1, <1>4 DEF N

-----------------------------------------------------------------------------
(* Folds: op is an operation on A, given as a function                     *)

Some(s) == CHOOSE x \in s : TRUE

Operation(A, op) ==
  /\ op \in [A -> [A -> A]]
  /\ \A a, b \in A : op[a][b] = op[b][a]
  /\ \A a, b, c \in A : op[a][op[b][c]] = op[op[a][b]][c]

\* h folds g over every subset of S, taking the elements as CHOOSE does;
\* where a value is of A already the next one is too.
Unfolds(S, A, base, op, g, h) ==
  /\ h[{}] = base
  /\ \A s \in SUBSET S : s # {} /\ h[s \ {Some(s)}] \in A
       => h[s] = op[g[Some(s)]][h[s \ {Some(s)}]]

\* The same with the elements in any order.
Splits(S, A, op, g, h) ==
  \A s \in SUBSET S : h[s] \in A /\ \A x \in s : h[s] = op[g[x]][h[s \ {x}]]

\* The recursion a fold is defined by has a solution.
LEMMA FoldExists ==
  ASSUME NEW S, IsFiniteSet(S), NEW A, NEW base \in A, NEW op \in [A -> [A -> A]],
         NEW g \in [S -> A]
  PROVE  \E h \in [SUBSET S -> A] : Unfolds(S, A, base, op, g, h)
<1> DEFINE Value(h, s) == IF s = {} THEN base ELSE op[g[Some(s)]][h[s \ {Some(s)}]]
           N == {n \in Nat : \E h \in [SUBSET S -> A] :
                   \A s \in SUBSET S : Cardinality(s) <= n => h[s] = Value(h, s)}
<1>1. \A s \in SUBSET S : IsFiniteSet(s) /\ Cardinality(s) \in Nat
  BY FS_Subset, FS_CardinalityType
<1>2. 0 \in N
  <2> DEFINE h == [s \in SUBSET S |-> base]
  <2>1. h \in [SUBSET S -> A]
    OBVIOUS
  <2>2. \A s \in SUBSET S : Cardinality(s) <= 0 => s = {}
    BY <1>1, FS_EmptySet
  <2>3. \A s \in SUBSET S : Cardinality(s) <= 0 => h[s] = Value(h, s)
    BY <2>2
  <2> QED
    BY <2>1, <2>3
<1>3. \A n \in Nat : n \in N => n + 1 \in N
  <2> SUFFICES ASSUME NEW n \in Nat, n \in N
               PROVE  n + 1 \in N
    BY Zenon
  <2>1. PICK h \in [SUBSET S -> A] : \A s \in SUBSET S : Cardinality(s) <= n => h[s] = Value(h, s)
    OBVIOUS
  <2> DEFINE k == [s \in SUBSET S |-> Value(h, s)]
  <2>2. \A s \in SUBSET S : s # {} => Some(s) \in s
    BY DEF Some
  <2>3. \A s \in SUBSET S : Value(h, s) \in A
    <3> SUFFICES ASSUME NEW s \in SUBSET S, s # {}
                 PROVE  op[g[Some(s)]][h[s \ {Some(s)}]] \in A
      OBVIOUS
    <3>1. g[Some(s)] \in A /\ h[s \ {Some(s)}] \in A
      BY <2>2
    <3> QED
      BY <3>1
  <2>4. k \in [SUBSET S -> A]
    BY <2>3
  <2>5. \A s \in SUBSET S : k[s] = Value(h, s)
    OBVIOUS
  <2> HIDE DEF k
  <2>6. ASSUME NEW s \in SUBSET S, Cardinality(s) <= n + 1
        PROVE  k[s] = Value(k, s)
    <3>1. CASE s = {}
      BY <2>5, <3>1
    <3>2. CASE s # {}
      <4> DEFINE t == s \ {Some(s)}
      <4>1. Cardinality(t) = Cardinality(s) - 1
        BY <1>1, <2>2, <3>2, FS_RemoveElement
      <4>2. t \in SUBSET S /\ Cardinality(t) <= n
        BY <1>1, <2>6, <4>1
      <4>3. k[t] = h[t]
        BY <2>1, <2>5, <4>2
      <4> QED
        BY <2>5, <3>2, <4>3
    <3> QED
      BY <3>1, <3>2
  <2>7. \A s \in SUBSET S : Cardinality(s) <= n + 1 => k[s] = Value(k, s)
    BY <2>6
  <2> HIDE DEF Value
  <2> QED
    BY <2>4, <2>7
<1> HIDE DEF N
<1>4. Nat \subseteq N
  BY <1>2, <1>3, Induction
<1>5. Cardinality(S) \in N
  BY <1>1, <1>4
<1>6. PICK h \in [SUBSET S -> A] :
        \A s \in SUBSET S : Cardinality(s) <= Cardinality(S) => h[s] = Value(h, s)
  BY <1>5 DEF N
<1>7. \A s \in SUBSET S : h[s] = Value(h, s)
  BY <1>6, FS_Subset
<1> QED
  BY <1>7 DEF Unfolds

\* Whatever order the elements are taken in, any of them may be split off.
LEMMA FoldSplits ==
  ASSUME NEW S, IsFiniteSet(S), NEW A, NEW base \in A, NEW op, Operation(A, op),
         NEW g \in [S -> A], NEW h, Unfolds(S, A, base, op, g, h)
  PROVE  Splits(S, A, op, g, h)
<1> DEFINE Good(s) == h[s] \in A /\ \A x \in s : h[s] = op[g[x]][h[s \ {x}]]
           N == {n \in Nat : \A s \in SUBSET S : Cardinality(s) <= n => Good(s)}
<1>a. \A a, b \in A : op[a][b] \in A /\ op[a][b] = op[b][a]
  BY DEF Operation
<1>b. \A a, b, c \in A : op[a][op[b][c]] = op[op[a][b]][c]
  BY DEF Operation
<1>c. h[{}] = base
  BY DEF Unfolds
<1>d. \A s \in SUBSET S : s # {} /\ h[s \ {Some(s)}] \in A
        => h[s] = op[g[Some(s)]][h[s \ {Some(s)}]]
  BY DEF Unfolds
<1>1. \A s \in SUBSET S : IsFiniteSet(s) /\ Cardinality(s) \in Nat
  BY FS_Subset, FS_CardinalityType
<1>2. 0 \in N
  <2>1. \A s \in SUBSET S : Cardinality(s) <= 0 => s = {}
    BY <1>1, FS_EmptySet
  <2>2. Good({})
    BY <1>c
  <2> HIDE DEF Good
  <2>3. \A s \in SUBSET S : Cardinality(s) <= 0 => Good(s)
    BY <2>1, <2>2
  <2> QED
    BY <2>3
<1>3. ASSUME NEW n \in Nat, n \in N,
             NEW s \in SUBSET S, Cardinality(s) <= n + 1
      PROVE  Good(s)
  <2>1. CASE s = {}
    BY <1>c, <2>1
  <2> SUFFICES ASSUME s # {}
               PROVE  Good(s)
    BY <2>1
  <2>2. PICK y \in s : y = Some(s)
    BY DEF Some
  <2>3. \A x \in s : /\ s \ {x} \in SUBSET S
                     /\ Cardinality(s \ {x}) = Cardinality(s) - 1
    BY <1>1, FS_RemoveElement
  <2>4. \A x \in s : Cardinality(s \ {x}) <= n
    BY <1>1, <1>3, <2>3
  <2>5. \A r \in SUBSET S : Cardinality(r) <= n => Good(r)
    BY <1>3
  <2>6. \A x \in s : Good(s \ {x})
    <3> HIDE DEF Good, N
    <3> QED
      BY <2>3, <2>4, <2>5
  <2>7. \A x \in s : g[x] \in A /\ h[s \ {x}] \in A
    BY <2>6
  <2>8. h[s] = op[g[y]][h[s \ {y}]]
    BY <1>d, <2>2, <2>7
  <2>9. h[s] \in A
    <3>1. PICK a \in A, b \in A : a = g[y] /\ b = h[s \ {y}]
      BY <2>7
    <3>2. op[a][b] \in A
      BY <1>a
    <3> QED
      BY <2>8, <3>1, <3>2
  <2>10. ASSUME NEW x \in s, x # y
         PROVE  h[s] = op[g[x]][h[s \ {x}]]
    <3>1. PICK rest \in SUBSET S : rest = (s \ {y}) \ {x}
      OBVIOUS
    <3>2. rest = (s \ {x}) \ {y} /\ x \in s \ {y} /\ y \in s \ {x}
      BY <2>10, <3>1
    <3>3. h[s \ {y}] = op[g[x]][h[rest]]
      BY <2>6, <3>1, <3>2
    <3>4. h[s \ {x}] = op[g[y]][h[rest]]
      BY <2>6, <3>2
    <3>5. h[rest] \in A
      <4>1. Cardinality(rest) = Cardinality(s \ {y}) - 1
        <5>1. IsFiniteSet(s \ {y}) /\ x \in s \ {y}
          BY <1>1, <2>3, <3>2
        <5>2. Cardinality((s \ {y}) \ {x}) = Cardinality(s \ {y}) - 1
          BY <5>1, FS_RemoveElement, Zenon
        <5> QED
          BY <3>1, <5>2
      <4>2. Cardinality(rest) <= n
        <5> HIDE DEF N, Good
        <5> QED
          BY <1>1, <2>3, <2>4, <4>1
      <4> QED
        BY <2>5, <4>2
    <3> HIDE DEF N, Good
    <3>6. PICK a \in A, b \in A, c \in A : a = g[y] /\ b = g[x] /\ c = h[rest]
      BY <2>7, <3>5
    <3>7. op[a][op[b][c]] = op[op[a][b]][c]
      BY <1>b
    <3>8. op[b][op[a][c]] = op[op[b][a]][c]
      BY <1>b
    <3>9. op[a][b] = op[b][a]
      BY <1>a
    <3>10. h[s] = op[a][op[b][c]] /\ op[b][op[a][c]] = op[g[x]][h[s \ {x}]]
      BY <2>8, <3>3, <3>4, <3>6
    <3> QED
      BY <3>7, <3>8, <3>9, <3>10
  <2> QED
    BY <2>8, <2>9, <2>10
<1>4. \A n \in Nat : n \in N => n + 1 \in N
  <2> HIDE DEF Good
  <2> QED
    BY <1>3
<1> HIDE DEF N
<1>5. Nat \subseteq N
  BY <1>2, <1>4, Induction
<1>6. \A s \in SUBSET S : Cardinality(s) \in N
  BY <1>1, <1>5
<1>7. \A s \in SUBSET S : Good(s)
  <2>1. \A n \in Nat : n \in N => \A s \in SUBSET S : Cardinality(s) <= n => Good(s)
    BY DEF N
  <2> HIDE DEF Good
  <2> QED
    BY <1>1, <1>6, <2>1
<1> QED
  BY <1>7 DEF Splits

\* h has the sum, or the product, of g over each subset of its domain.
SumsOf(g, S, h) ==
  /\ h \in [SUBSET S -> Int] /\ h[{}] = 0
  /\ \A s \in SUBSET S : \A x \in s : h[s] = g[x] + h[s \ {x}]
ProductsOf(g, S, h) ==
  /\ h \in [SUBSET S -> Int] /\ h[{}] = 1
  /\ \A s \in SUBSET S : \A x \in s : h[s] = g[x] * h[s \ {x}]

\* SumFunction folds its argument over the set of its arguments.
LEMMA SumIsOne ==
  ASSUME NEW S, IsFiniteSet(S), NEW g \in [S -> Int]
  PROVE  \E h : SumsOf(g, S, h) /\ SumFunction(g) = h[S]
<1> DEFINE Plain(h) == h = [s \in SUBSET S |->
             IF s = {} THEN 0 ELSE LET x == CHOOSE x \in s : TRUE IN g[x] + h[s \ {x}]]
<1>1. PICK op \in [Int -> [Int -> Int]] : \A a, b \in Int : op[a][b] = a + b
  <2>1. [a \in Int |-> [b \in Int |-> a + b]] \in [Int -> [Int -> Int]]
    OBVIOUS
  <2> QED
    BY <2>1
<1>op. Operation(Int, op)
  <2>1. \A a, b \in Int : op[a][b] = op[b][a]
    BY <1>1
  <2>2. ASSUME NEW a \in Int, NEW b \in Int, NEW c \in Int
        PROVE  op[a][op[b][c]] = op[op[a][b]][c]
    <3>1. op[b][c] = b + c /\ op[a][b] = a + b
      BY <1>1
    <3>2. op[a][b + c] = a + (b + c) /\ op[a + b][c] = (a + b) + c
      BY <1>1
    <3> QED
      BY <3>1, <3>2
  <2> QED
    BY <2>1, <2>2 DEF Operation
<1>2. \A s \in SUBSET S : s # {} => Some(s) \in s
  BY DEF Some
<1>3. \E h : Plain(h)
  <2>1. PICK h \in [SUBSET S -> Int] : Unfolds(S, Int, 0, op, g, h)
    <3>1. PICK A, zero : A = Int /\ zero = 0
      OBVIOUS
    <3>2. zero \in A /\ op \in [A -> [A -> A]] /\ g \in [S -> A]
      BY <3>1
    <3>3. \E h \in [SUBSET S -> A] : Unfolds(S, A, zero, op, g, h)
      BY <3>2, FoldExists
    <3> QED
      BY <3>1, <3>3
  <2>2. \A s \in SUBSET S :
          s # {} => op[g[Some(s)]][h[s \ {Some(s)}]] = g[Some(s)] + h[s \ {Some(s)}]
    BY <1>1, <1>2
  <2>3. Plain(h)
    <3>1. \A s \in SUBSET S : h[s] = IF s = {} THEN 0 ELSE g[Some(s)] + h[s \ {Some(s)}]
      BY <1>2, <2>1, <2>2 DEF Unfolds
    <3>2. \A s \in SUBSET S :
            h[s] = IF s = {} THEN 0 ELSE LET x == CHOOSE x \in s : TRUE IN g[x] + h[s \ {x}]
      BY <3>1 DEF Some
    <3> QED
      BY <3>2
  <2> HIDE DEF Plain
  <2> QED
    BY <2>3
<1>4. SumFunction(g) = (CHOOSE h : Plain(h))[S]
  <2>1. DOMAIN g = S
    OBVIOUS
  <2> QED
    BY <2>1 DEF SumFunction, SumFunctionOnSet, FoldFunctionOnSet, MapThenFoldSet
<1>5. PICK h : Plain(h) /\ h = CHOOSE f : Plain(f)
  BY <1>3
<1>6. \A s \in SUBSET S : h[s] = IF s = {} THEN 0 ELSE g[Some(s)] + h[s \ {Some(s)}]
  BY <1>5, Zenon DEF Some
<1>7. DOMAIN h = SUBSET S
  BY <1>5
<1>8. SumFunction(g) = h[S]
  BY <1>4, <1>5
<1> HIDE DEF Plain
<1>9. h[{}] = 0
  BY <1>6
<1>10. Unfolds(S, Int, 0, op, g, h)
  <2>1. ASSUME NEW s \in SUBSET S, s # {}, h[s \ {Some(s)}] \in Int
        PROVE  h[s] = op[g[Some(s)]][h[s \ {Some(s)}]]
    <3>1. g[Some(s)] \in Int
      BY <1>2, <2>1
    <3>2. op[g[Some(s)]][h[s \ {Some(s)}]] = g[Some(s)] + h[s \ {Some(s)}]
      BY <1>1, <2>1, <3>1
    <3> QED
      BY <1>6, <2>1, <3>2
  <2> QED
    BY <1>9, <2>1 DEF Unfolds
<1>11. Splits(S, Int, op, g, h)
  <2>1. PICK A, zero : A = Int /\ zero = 0
    OBVIOUS
  <2>2. /\ zero \in A /\ Operation(A, op) /\ g \in [S -> A]
        /\ Unfolds(S, A, zero, op, g, h)
    BY <1>op, <1>10, <2>1
  <2>3. Splits(S, A, op, g, h)
    BY <2>2, FoldSplits
  <2> QED
    BY <2>1, <2>3
<1>12. \A s \in SUBSET S : \A x \in s : h[s] = g[x] + h[s \ {x}]
  BY <1>1, <1>11 DEF Splits
<1>13. h = [s \in SUBSET S |-> h[s]]
  BY <1>5 DEF Plain
<1>14. h \in [SUBSET S -> Int]
  BY <1>11, <1>13 DEF Splits
<1> QED
  BY <1>8, <1>9, <1>12, <1>14 DEF SumsOf

\* So does Product.
LEMMA ProductIsOne ==
  ASSUME NEW S, IsFiniteSet(S), NEW g \in [S -> Int]
  PROVE  \E h : ProductsOf(g, S, h) /\ Product(g) = h[S]
<1> DEFINE Plain(h) == h = [s \in SUBSET S |->
             IF s = {} THEN 1 ELSE LET x == CHOOSE x \in s : TRUE IN g[x] * h[s \ {x}]]
<1>1. PICK op \in [Int -> [Int -> Int]] : \A a, b \in Int : op[a][b] = a * b
  <2>1. [a \in Int |-> [b \in Int |-> a * b]] \in [Int -> [Int -> Int]]
    OBVIOUS
  <2> QED
    BY <2>1
<1>op. Operation(Int, op)
  <2>1. \A a, b \in Int : op[a][b] = op[b][a]
    BY <1>1
  <2>2. ASSUME NEW a \in Int, NEW b \in Int, NEW c \in Int
        PROVE  op[a][op[b][c]] = op[op[a][b]][c]
    <3>1. op[b][c] = b * c /\ op[a][b] = a * b
      BY <1>1
    <3>2. op[a][b * c] = a * (b * c) /\ op[a * b][c] = (a * b) * c
      BY <1>1
    <3> QED
      BY <3>1, <3>2
  <2> QED
    BY <2>1, <2>2 DEF Operation
<1>2. \A s \in SUBSET S : s # {} => Some(s) \in s
  BY DEF Some
<1>3. \E h : Plain(h)
  <2>1. PICK h \in [SUBSET S -> Int] : Unfolds(S, Int, 1, op, g, h)
    <3>1. PICK A, one : A = Int /\ one = 1
      OBVIOUS
    <3>2. one \in A /\ op \in [A -> [A -> A]] /\ g \in [S -> A]
      BY <3>1
    <3>3. \E h \in [SUBSET S -> A] : Unfolds(S, A, one, op, g, h)
      BY <3>2, FoldExists
    <3> QED
      BY <3>1, <3>3
  <2>2. \A s \in SUBSET S :
          s # {} => op[g[Some(s)]][h[s \ {Some(s)}]] = g[Some(s)] * h[s \ {Some(s)}]
    BY <1>1, <1>2
  <2>3. Plain(h)
    <3>1. \A s \in SUBSET S : h[s] = IF s = {} THEN 1 ELSE g[Some(s)] * h[s \ {Some(s)}]
      BY <1>2, <2>1, <2>2 DEF Unfolds
    <3>2. \A s \in SUBSET S :
            h[s] = IF s = {} THEN 1 ELSE LET x == CHOOSE x \in s : TRUE IN g[x] * h[s \ {x}]
      BY <3>1 DEF Some
    <3> QED
      BY <3>2
  <2> HIDE DEF Plain
  <2> QED
    BY <2>3
<1>4. Product(g) = (CHOOSE h : Plain(h))[S]
  <2>1. DOMAIN g = S
    OBVIOUS
  <2> QED
    BY <2>1 DEF Product, FoldFunction, FoldFunctionOnSet, MapThenFoldSet
<1>5. PICK h : Plain(h) /\ h = CHOOSE f : Plain(f)
  BY <1>3
<1>6. \A s \in SUBSET S : h[s] = IF s = {} THEN 1 ELSE g[Some(s)] * h[s \ {Some(s)}]
  BY <1>5, Zenon DEF Some
<1>7. DOMAIN h = SUBSET S
  BY <1>5
<1>8. Product(g) = h[S]
  BY <1>4, <1>5
<1> HIDE DEF Plain
<1>9. h[{}] = 1
  BY <1>6
<1>10. Unfolds(S, Int, 1, op, g, h)
  <2>1. ASSUME NEW s \in SUBSET S, s # {}, h[s \ {Some(s)}] \in Int
        PROVE  h[s] = op[g[Some(s)]][h[s \ {Some(s)}]]
    <3>1. g[Some(s)] \in Int
      BY <1>2, <2>1
    <3>2. op[g[Some(s)]][h[s \ {Some(s)}]] = g[Some(s)] * h[s \ {Some(s)}]
      BY <1>1, <2>1, <3>1
    <3> QED
      BY <1>6, <2>1, <3>2
  <2> QED
    BY <1>9, <2>1 DEF Unfolds
<1>11. Splits(S, Int, op, g, h)
  <2>1. PICK A, one : A = Int /\ one = 1
    OBVIOUS
  <2>2. /\ one \in A /\ Operation(A, op) /\ g \in [S -> A]
        /\ Unfolds(S, A, one, op, g, h)
    BY <1>op, <1>10, <2>1
  <2>3. Splits(S, A, op, g, h)
    BY <2>2, FoldSplits
  <2> QED
    BY <2>1, <2>3
<1>12. \A s \in SUBSET S : \A x \in s : h[s] = g[x] * h[s \ {x}]
  BY <1>1, <1>11 DEF Splits
<1>13. h = [s \in SUBSET S |-> h[s]]
  BY <1>5 DEF Plain
<1>14. h \in [SUBSET S -> Int]
  BY <1>11, <1>13 DEF Splits
<1> QED
  BY <1>8, <1>9, <1>12, <1>14 DEF ProductsOf


\* A sum has a table of the sums over all the subsets.
LEMMA SumTable ==
  ASSUME NEW S, IsFiniteSet(S), NEW g \in [S -> Int]
  PROVE  \E h : /\ SumsOf(g, S, h)
                /\ \A T \in SUBSET S : SumFunction([x \in T |-> g[x]]) = h[T]
<1>1. PICK h : SumsOf(g, S, h)
  BY SumIsOne
<1>2. ASSUME NEW T \in SUBSET S
      PROVE  SumFunction([x \in T |-> g[x]]) = h[T]
  <2>1. PICK f \in [T -> Int] : f = [x \in T |-> g[x]]
    OBVIOUS
  <2>2. IsFiniteSet(T)
    BY FS_Subset
  <2>3. PICK k : SumsOf(f, T, k) /\ SumFunction(f) = k[T]
    BY <2>2, SumIsOne
  <2> DEFINE P == {U \in SUBSET T : k[U] = h[U]}
  <2>4. {} \in P
    BY <1>1, <2>3 DEF SumsOf
  <2>5. ASSUME NEW U \in SUBSET T, NEW x \in T \ U, U \in P
        PROVE  U \cup {x} \in P
    <3>1. PICK V : V = U \cup {x}
      OBVIOUS
    <3>2. V \in SUBSET T /\ x \in V /\ V \ {x} = U /\ V \in SUBSET S
      BY <3>1
    <3>3. k[V] = f[x] + k[V \ {x}] /\ h[V] = g[x] + h[V \ {x}]
      BY <1>1, <2>3, <3>2 DEF SumsOf
    <3> QED
      BY <2>1, <2>5, <3>1, <3>2, <3>3
  <2> HIDE DEF P
  <2>6. \A U \in SUBSET T : \A x \in T \ U : U \in P => U \cup {x} \in P
    BY <2>5
  <2>7. \A U \in SUBSET T : U \in P
    BY <2>2, <2>4, <2>6, FiniteInduction
  <2>8. T \in SUBSET T
    OBVIOUS
  <2> QED
    BY <2>1, <2>3, <2>7, <2>8 DEF P
<1> QED
  BY <1>1, <1>2

\* What a sum is: any term may be taken first.
LEMMA SumSplits ==
  ASSUME NEW S, IsFiniteSet(S), NEW g \in [S -> Int]
  PROVE  /\ SumFunction(g) \in Int
         /\ S = {} => SumFunction(g) = 0
         /\ \A x \in S : SumFunction(g) = g[x] + SumFunction([y \in S \ {x} |-> g[y]])
<1>1. PICK h : /\ SumsOf(g, S, h)
               /\ \A T \in SUBSET S : SumFunction([x \in T |-> g[x]]) = h[T]
  BY SumTable
<1>2. g = [x \in S |-> g[x]] /\ S \in SUBSET S
  OBVIOUS
<1>3. SumFunction(g) = h[S]
  BY <1>1, <1>2
<1>4. \A x \in S : S \ {x} \in SUBSET S
  OBVIOUS
<1>5. \A x \in S : h[S \ {x}] = SumFunction([y \in S \ {x} |-> g[y]])
  BY <1>1, <1>4
<1>6. h[S] \in Int /\ h[{}] = 0 /\ \A x \in S : h[S] = g[x] + h[S \ {x}]
  BY <1>1, <1>2 DEF SumsOf
<1> QED
  BY <1>3, <1>5, <1>6

\* A product has a table of the products over all the subsets.
LEMMA ProductTable ==
  ASSUME NEW S, IsFiniteSet(S), NEW g \in [S -> Int]
  PROVE  \E h : /\ ProductsOf(g, S, h)
                /\ \A T \in SUBSET S : Product([x \in T |-> g[x]]) = h[T]
<1>1. PICK h : ProductsOf(g, S, h)
  BY ProductIsOne
<1>2. ASSUME NEW T \in SUBSET S
      PROVE  Product([x \in T |-> g[x]]) = h[T]
  <2>1. PICK f \in [T -> Int] : f = [x \in T |-> g[x]]
    OBVIOUS
  <2>2. IsFiniteSet(T)
    BY FS_Subset
  <2>3. PICK k : ProductsOf(f, T, k) /\ Product(f) = k[T]
    BY <2>2, ProductIsOne
  <2> DEFINE P == {U \in SUBSET T : k[U] = h[U]}
  <2>4. {} \in P
    BY <1>1, <2>3 DEF ProductsOf
  <2>5. ASSUME NEW U \in SUBSET T, NEW x \in T \ U, U \in P
        PROVE  U \cup {x} \in P
    <3>1. PICK V : V = U \cup {x}
      OBVIOUS
    <3>2. V \in SUBSET T /\ x \in V /\ V \ {x} = U /\ V \in SUBSET S
      BY <3>1
    <3>3. k[V] = f[x] * k[V \ {x}] /\ h[V] = g[x] * h[V \ {x}]
      BY <1>1, <2>3, <3>2 DEF ProductsOf
    <3> QED
      BY <2>1, <2>5, <3>1, <3>2, <3>3
  <2> HIDE DEF P
  <2>6. \A U \in SUBSET T : \A x \in T \ U : U \in P => U \cup {x} \in P
    BY <2>5
  <2>7. \A U \in SUBSET T : U \in P
    BY <2>2, <2>4, <2>6, FiniteInduction
  <2>8. T \in SUBSET T
    OBVIOUS
  <2> QED
    BY <2>1, <2>3, <2>7, <2>8 DEF P
<1> QED
  BY <1>1, <1>2

\* What a product is: any factor may be taken first.
LEMMA ProductSplits ==
  ASSUME NEW S, IsFiniteSet(S), NEW g \in [S -> Int]
  PROVE  /\ Product(g) \in Int
         /\ S = {} => Product(g) = 1
         /\ \A x \in S : Product(g) = g[x] * Product([y \in S \ {x} |-> g[y]])
<1>1. PICK h : /\ ProductsOf(g, S, h)
               /\ \A T \in SUBSET S : Product([x \in T |-> g[x]]) = h[T]
  BY ProductTable
<1>2. g = [x \in S |-> g[x]] /\ S \in SUBSET S
  OBVIOUS
<1>3. Product(g) = h[S]
  BY <1>1, <1>2
<1>4. \A x \in S : S \ {x} \in SUBSET S
  OBVIOUS
<1>5. \A x \in S : h[S \ {x}] = Product([y \in S \ {x} |-> g[y]])
  BY <1>1, <1>4
<1>6. h[S] \in Int /\ h[{}] = 1 /\ \A x \in S : h[S] = g[x] * h[S \ {x}]
  BY <1>1, <1>2 DEF ProductsOf
<1> QED
  BY <1>3, <1>5, <1>6

-----------------------------------------------------------------------------
(* What sums and products keep                                             *)

\* A table entry of a larger subset.
LEMMA SumGrows ==
  ASSUME NEW S, NEW g \in [S -> Int], NEW h, SumsOf(g, S, h),
         NEW T \in SUBSET S, NEW x \in S \ T
  PROVE  h[T] \in Int /\ T \cup {x} \in SUBSET S /\ h[T \cup {x}] = g[x] + h[T]
<1>1. PICK V : V = T \cup {x}
  OBVIOUS
<1>2. V \in SUBSET S /\ x \in V /\ V \ {x} = T
  BY <1>1
<1>3. h[V] = g[x] + h[V \ {x}]
  BY <1>2 DEF SumsOf
<1>4. h[T] \in Int
  BY DEF SumsOf
<1> QED
  BY <1>1, <1>2, <1>3, <1>4

LEMMA ProductGrows ==
  ASSUME NEW S, NEW g \in [S -> Int], NEW h, ProductsOf(g, S, h),
         NEW T \in SUBSET S, NEW x \in S \ T
  PROVE  h[T] \in Int /\ T \cup {x} \in SUBSET S /\ h[T \cup {x}] = g[x] * h[T]
<1>1. PICK V : V = T \cup {x}
  OBVIOUS
<1>2. V \in SUBSET S /\ x \in V /\ V \ {x} = T
  BY <1>1
<1>3. h[V] = g[x] * h[V \ {x}]
  BY <1>2 DEF ProductsOf
<1>4. h[T] \in Int
  BY DEF ProductsOf
<1> QED
  BY <1>1, <1>2, <1>3, <1>4

\* A product of positive numbers is positive.
LEMMA ProductPositive ==
  ASSUME NEW S, IsFiniteSet(S), NEW g \in [S -> Nat \ {0}]
  PROVE  Product(g) \in Nat \ {0}
<1>0. g \in [S -> Int]
  OBVIOUS
<1>1. PICK h : ProductsOf(g, S, h) /\ Product(g) = h[S]
  BY <1>0, ProductIsOne
<1> DEFINE P == {T \in SUBSET S : h[T] \in Nat \ {0}}
<1>2. {} \in P
  BY <1>1 DEF ProductsOf
<1>3. ASSUME NEW T \in SUBSET S, NEW x \in S \ T, T \in P
      PROVE  T \cup {x} \in P
  <2>1. T \cup {x} \in SUBSET S /\ h[T \cup {x}] = g[x] * h[T]
    BY <1>0, <1>1, ProductGrows
  <2>2. PICK m \in Nat \ {0}, n \in Nat \ {0} : m = g[x] /\ n = h[T]
    BY <1>3
  <2>3. m * n \in Nat \ {0}
    OBVIOUS
  <2> QED
    BY <2>1, <2>2, <2>3
<1> HIDE DEF P
<1>4. \A T \in SUBSET S : \A x \in S \ T : T \in P => T \cup {x} \in P
  BY <1>3
<1>5. \A T \in SUBSET S : T \in P
  BY <1>2, <1>4, FiniteInduction
<1>6. S \in SUBSET S
  OBVIOUS
<1> QED
  BY <1>1, <1>5, <1>6 DEF P

LEMMA PowerPositive ==
  ASSUME NEW k \in Nat
  PROVE  PowerOf2(k) \in Nat \ {0}
<1>1. IsFiniteSet(1..k)
  BY FS_Interval
<1>2. [i \in 1..k |-> 2] \in [1..k -> Nat \ {0}]
  OBVIOUS
<1> QED
  BY <1>1, <1>2, ProductPositive DEF PowerOf2

\* A sum of numbers that are not negative is not negative.
LEMMA SumNatural ==
  ASSUME NEW S, IsFiniteSet(S), NEW g \in [S -> Nat]
  PROVE  SumFunction(g) \in Nat /\ \A x \in S : g[x] <= SumFunction(g)
<1>0. g \in [S -> Int]
  OBVIOUS
<1>1. PICK h : SumsOf(g, S, h) /\ SumFunction(g) = h[S]
  BY <1>0, SumIsOne
<1> DEFINE P == {T \in SUBSET S : h[T] \in Nat}
<1>2. {} \in P
  BY <1>1 DEF SumsOf
<1>3. ASSUME NEW T \in SUBSET S, NEW x \in S \ T, T \in P
      PROVE  T \cup {x} \in P
  <2>1. T \cup {x} \in SUBSET S /\ h[T \cup {x}] = g[x] + h[T]
    BY <1>0, <1>1, SumGrows
  <2> QED
    BY <1>3, <2>1
<1> HIDE DEF P
<1>4. \A T \in SUBSET S : \A x \in S \ T : T \in P => T \cup {x} \in P
  BY <1>3
<1>5. \A T \in SUBSET S : T \in P
  BY <1>2, <1>4, FiniteInduction
<1>6. \A T \in SUBSET S : h[T] \in Nat
  BY <1>5 DEF P
<1>7. \A x \in S : S \ {x} \in SUBSET S /\ h[S] = g[x] + h[S \ {x}]
  BY <1>1 DEF SumsOf
<1>8. \A x \in S : g[x] \in Nat /\ h[S \ {x}] \in Nat
  BY <1>6, <1>7
<1>9. ASSUME NEW x \in S
      PROVE  g[x] <= h[S]
  <2>1. PICK m \in Nat, n \in Nat : m = g[x] /\ n = h[S \ {x}]
    BY <1>8
  <2>2. h[S] = m + n
    BY <1>7, <2>1
  <2> QED
    BY <2>1, <2>2
<1>10. S \in SUBSET S
  OBVIOUS
<1> QED
  BY <1>1, <1>6, <1>9, <1>10

\* A factor can be taken out of a sum.
LEMMA SumScaled ==
  ASSUME NEW S, IsFiniteSet(S), NEW g \in [S -> Int], NEW c \in Int
  PROVE  SumFunction([x \in S |-> c * g[x]]) = c * SumFunction(g)
<1>0. PICK f \in [S -> Int] : f = [x \in S |-> c * g[x]]
  <2>1. \A m \in Int : c * m \in Int
    OBVIOUS
  <2>2. \A x \in S : c * g[x] \in Int
    BY <2>1
  <2>3. [x \in S |-> c * g[x]] \in [S -> Int]
    BY <2>2
  <2> QED
    BY <2>3
<1>1. PICK h : SumsOf(g, S, h) /\ SumFunction(g) = h[S]
  BY SumIsOne
<1>2. PICK k : SumsOf(f, S, k) /\ SumFunction(f) = k[S]
  BY SumIsOne
<1> DEFINE P == {T \in SUBSET S : k[T] = c * h[T]}
<1>3. {} \in P
  BY <1>1, <1>2 DEF SumsOf
<1>4. ASSUME NEW T \in SUBSET S, NEW x \in S \ T, T \in P
      PROVE  T \cup {x} \in P
  <2>1. h[T] \in Int /\ T \cup {x} \in SUBSET S /\ h[T \cup {x}] = g[x] + h[T]
    BY <1>1, SumGrows, SMTT(30)
  <2>2. k[T \cup {x}] = f[x] + k[T]
    BY <1>2, SumGrows
  <2>3. PICK m \in Int, n \in Int : m = g[x] /\ n = h[T]
    BY <2>1
  <2>4. c * (m + n) = c * m + c * n
    OBVIOUS
  <2>5. f[x] = c * m /\ k[T] = c * n
    BY <1>0, <1>4, <2>3
  <2>6. k[T \cup {x}] = c * h[T \cup {x}]
    BY <2>1, <2>2, <2>3, <2>4, <2>5
  <2> QED
    BY <2>1, <2>6
<1> HIDE DEF P
<1>5. \A T \in SUBSET S : \A x \in S \ T : T \in P => T \cup {x} \in P
  BY <1>4
<1>6. \A T \in SUBSET S : T \in P
  BY <1>3, <1>5, FiniteInduction
<1>7. S \in SUBSET S
  OBVIOUS
<1> QED
  BY <1>0, <1>1, <1>2, <1>6, <1>7 DEF P

\* A sum does not change when its terms trade places.
LEMMA SumReindexed ==
  ASSUME NEW S, IsFiniteSet(S), NEW g \in [S -> Int], NEW f \in [S -> S],
         \A x, y \in S : f[x] = f[y] => x = y, \A y \in S : \E x \in S : f[x] = y
  PROVE  SumFunction([x \in S |-> g[f[x]]]) = SumFunction(g)
<1> DEFINE Image(T) == {f[x] : x \in T}
<1>0. PICK r \in [S -> Int] : r = [x \in S |-> g[f[x]]]
  OBVIOUS
<1>1. PICK h : SumsOf(g, S, h) /\ SumFunction(g) = h[S]
  BY SumIsOne
<1>2. PICK k : SumsOf(r, S, k) /\ SumFunction(r) = k[S]
  BY SumIsOne
<1> DEFINE P == {T \in SUBSET S : k[T] = h[Image(T)]}
<1>3. {} \in P
  <2>1. Image({}) = {}
    OBVIOUS
  <2> QED
    BY <1>1, <1>2, <2>1 DEF SumsOf
<1>4. ASSUME NEW T \in SUBSET S, NEW x \in S \ T, T \in P
      PROVE  T \cup {x} \in P
  <2>1. T \cup {x} \in SUBSET S /\ k[T \cup {x}] = r[x] + k[T]
    BY <1>2, SumGrows
  <2>2. PICK U : U = Image(T)
    OBVIOUS
  <2>3. U \in SUBSET S /\ Image(T \cup {x}) = U \cup {f[x]}
    BY <2>2
  <2>4. f[x] \in S \ U
    BY <2>2
  <2>5. h[U \cup {f[x]}] = g[f[x]] + h[U]
    BY <1>1, <2>3, <2>4, SumGrows
  <2>6. k[T] = h[U] /\ r[x] = g[f[x]]
    BY <1>0, <1>4, <2>2
  <2> QED
    BY <2>1, <2>3, <2>5, <2>6
<1>5. Image(S) = S
  OBVIOUS
<1> HIDE DEF P
<1>6. \A T \in SUBSET S : \A x \in S \ T : T \in P => T \cup {x} \in P
  BY <1>4
<1>7. \A T \in SUBSET S : T \in P
  BY <1>3, <1>6, FiniteInduction
<1>8. S \in SUBSET S
  OBVIOUS
<1> QED
  BY <1>0, <1>1, <1>2, <1>5, <1>7, <1>8 DEF P

\* The values on a finite set have a bound.
LEMMA BoundedOnFinite ==
  ASSUME NEW S, IsFiniteSet(S), NEW g \in [S -> Int]
  PROVE  \E b \in Nat : \A x \in S : g[x] <= b
<1> DEFINE P == {T \in SUBSET S : \E b \in Nat : \A x \in T : g[x] <= b}
<1>1. {} \in P
  <2>1. 0 \in Nat /\ \A x \in {} : g[x] <= 0
    OBVIOUS
  <2> QED
    BY <2>1
<1>2. ASSUME NEW T \in SUBSET S, NEW x \in S \ T, T \in P
      PROVE  T \cup {x} \in P
  <2>1. PICK b \in Nat : \A y \in T : g[y] <= b
    BY <1>2
  <2>2. PICK c \in Nat : b <= c /\ g[x] <= c
    <3>1. CASE g[x] <= b
      BY <3>1
    <3>2. CASE g[x] > b
      <4>1. g[x] \in Nat
        BY <3>2
      <4> QED
        BY <3>2, <4>1
    <3> QED
      BY <3>1, <3>2
  <2>3. \A y \in T \cup {x} : g[y] <= c
    BY <2>1, <2>2
  <2> QED
    BY <2>3
<1> HIDE DEF P
<1>3. \A T \in SUBSET S : \A x \in S \ T : T \in P => T \cup {x} \in P
  BY <1>2
<1>4. \A T \in SUBSET S : T \in P
  BY <1>1, <1>3, FiniteInduction
<1>5. S \in SUBSET S
  OBVIOUS
<1> QED
  BY <1>4, <1>5 DEF P

\* Numbers that have a bound have a greatest one among them.
LEMMA GreatestOfBounded ==
  ASSUME NEW T, T \subseteq Nat, T # {}, NEW b \in Nat, \A x \in T : x <= b
  PROVE  Max(T) \in T /\ \A y \in T : y <= Max(T)
<1> DEFINE U == {n \in Nat : b - n \in T}
<1>1. U # {}
  <2>1. PICK x \in T : TRUE
    OBVIOUS
  <2>2. b - x \in Nat /\ b - (b - x) = x
    BY <2>1
  <2> QED
    BY <2>1, <2>2
<1>2. PICK n \in U : \A m \in U : n <= m
  BY <1>1, LeastOfNat
<1>3. b - n \in T
  OBVIOUS
<1>4. ASSUME NEW y \in T
      PROVE  b - n >= y
  <2>1. b - y \in Nat /\ b - (b - y) = y
    OBVIOUS
  <2>2. b - y \in U
    BY <2>1
  <2> QED
    BY <1>2, <2>1, <2>2
<1> HIDE DEF U
<1>5. \E x \in T : \A y \in T : x >= y
  BY <1>3, <1>4
<1>6. Max(T) \in T /\ \A y \in T : Max(T) >= y
  BY <1>5, Zenon DEF Max
<1> QED
  BY <1>6

-----------------------------------------------------------------------------
(* The field                                                               *)

USE DEF Vec, Whole

LEMMA Constants ==
  /\ Half \in Nat \ {0} /\ Sub \in Nat \ {0} /\ Scale \in Nat \ {0}
  /\ V0 \in Nat \ {0} /\ NumSamples \in Nat \ {0} /\ StepSize \in Nat \ {0}
BY FieldAssumption

\* The disk is its centre and four neighbors.
LEMMA DiskIs ==
  /\ Disk = {Vec(0, 0), Vec(1, 0), Vec(-1, 0), Vec(0, 1), Vec(0, -1)}
  /\ IsFiniteSet(Disk)
<1>1. Disk = {Vec(0, 0), Vec(1, 0), Vec(-1, 0), Vec(0, 1), Vec(0, -1)}
  <2>1. ASSUME NEW w \in Disk
        PROVE  w \in {Vec(0, 0), Vec(1, 0), Vec(-1, 0), Vec(0, 1), Vec(0, -1)}
    <3>1. w \in [x : -1..1, y : -1..1] /\ w.x * w.x + w.y * w.y <= 1
      BY DEF Disk, Square
    <3>2. PICK x \in -1..1, y \in -1..1 : w = [x |-> x, y |-> y]
      BY <3>1
    <3>3. x * x + y * y <= 1
      BY <3>1, <3>2
    <3>4. x \in {-1, 0, 1} /\ y \in {-1, 0, 1}
      OBVIOUS
    <3>5. x = 0 \/ y = 0
      BY <3>3, <3>4
    <3> QED
      BY <3>2, <3>4, <3>5
  <2>2. {Vec(0, 0), Vec(1, 0), Vec(-1, 0), Vec(0, 1), Vec(0, -1)} \subseteq Disk
    BY DEF Disk, Square
  <2> QED
    BY <2>1, <2>2
<1>2. IsFiniteSet({Vec(0, 0), Vec(1, 0), Vec(-1, 0), Vec(0, 1), Vec(0, -1)})
  <2>1. \A S, x : IsFiniteSet(S) => IsFiniteSet(S \cup {x})
    BY FS_AddElement
  <2>2. IsFiniteSet({Vec(0, 0)})
    BY FS_Singleton
  <2>3. IsFiniteSet(((({Vec(0, 0)} \cup {Vec(1, 0)}) \cup {Vec(-1, 0)}) \cup {Vec(0, 1)})
                      \cup {Vec(0, -1)})
    BY <2>1, <2>2, Zenon
  <2>4. {Vec(0, 0), Vec(1, 0), Vec(-1, 0), Vec(0, 1), Vec(0, -1)}
          = ((({Vec(0, 0)} \cup {Vec(1, 0)}) \cup {Vec(-1, 0)}) \cup {Vec(0, 1)}) \cup {Vec(0, -1)}
    OBVIOUS
  <2> QED
    BY <2>3, <2>4, Zenon
<1> QED
  BY <1>1, <1>2, Zenon

\* What a point of the disk adds to a node at x, y.
Added(x, y, w) == PowerOf2(12 - Least(12, Square(x - w.x) + Square(y - w.y)))

LEMMA AddedType ==
  ASSUME NEW x \in Int, NEW y \in Int, NEW w \in Disk
  PROVE  Added(x, y, w) \in Nat \ {0}
<1>1. w.x \in Int /\ w.y \in Int
  BY DEF Disk
<1>2. PICK n \in Int : n = Square(x - w.x) + Square(y - w.y)
  <2>1. \A a \in Int : a * a \in Int
    OBVIOUS
  <2>2. Square(x - w.x) \in Int /\ Square(y - w.y) \in Int
    BY <1>1, <2>1 DEF Square
  <2> QED
    BY <2>2
<1>3. 12 - Least(12, n) \in Nat
  BY DEF Least
<1> QED
  BY <1>2, <1>3, PowerPositive DEF Added

LEMMA BlurredIs ==
  ASSUME NEW x \in Int, NEW y \in Int
  PROVE  Blurred(x, y) = SumFunction([w \in Disk |-> Added(x, y, w)])
BY Zenon DEF Blurred, Added

LEMMA BlurredType ==
  ASSUME NEW x \in Int, NEW y \in Int
  PROVE  Blurred(x, y) \in Nat \ {0}
<1>1. PICK g \in [Disk -> Nat] : g = [w \in Disk |-> Added(x, y, w)]
  BY AddedType
<1>2. SumFunction(g) \in Nat /\ \A w \in Disk : g[w] <= SumFunction(g)
  BY DiskIs, SumNatural
<1>3. Vec(0, 0) \in Disk
  BY DiskIs
<1>4. g[Vec(0, 0)] \in Nat \ {0}
  BY <1>1, <1>3, AddedType
<1> QED
  BY <1>1, <1>2, <1>3, <1>4, BlurredIs

\* The field is the same on both sides of the x axis.
LEMMA BlurredMirrored ==
  ASSUME NEW x \in Int, NEW y \in Int
  PROVE  Blurred(x, -y) = Blurred(x, y)
<1>1. PICK g \in [Disk -> Int] : g = [w \in Disk |-> Added(x, y, w)]
  <2>1. \A w \in Disk : Added(x, y, w) \in Int
    BY AddedType
  <2> QED
    BY <2>1
<1>2. PICK f \in [Disk -> Disk] : f = [w \in Disk |-> Vec(w.x, -w.y)]
  <2>1. \A w \in Disk : Vec(w.x, -w.y) \in Disk
    BY DiskIs
  <2> QED
    BY <2>1
<1>3. \A w \in Disk : w \in [x : Int, y : Int]
  BY DEF Disk
<1>4. ASSUME NEW w \in Disk
      PROVE  f[f[w]] = w
  <2>1. PICK m \in Int, n \in Int : w = [x |-> m, y |-> n]
    BY <1>3
  <2>2. PICK v \in Disk : v = f[w]
    OBVIOUS
  <2>3. v = [x |-> m, y |-> -n] /\ f[v] = [x |-> v.x, y |-> -v.y]
    BY <1>2, <2>1, <2>2
  <2>4. f[v] = [x |-> m, y |-> n]
    BY <2>3
  <2> QED
    BY <2>1, <2>2, <2>4
<1>5. \A v, w \in Disk : f[v] = f[w] => v = w
  BY <1>4
<1>6. \A w \in Disk : \E v \in Disk : f[v] = w
  BY <1>4
<1>7. SumFunction([w \in Disk |-> g[f[w]]]) = SumFunction(g)
  BY <1>5, <1>6, DiskIs, SumReindexed
<1>8. ASSUME NEW w \in Disk
      PROVE  g[f[w]] = Added(x, -y, w)
  <2>1. PICK v \in Disk : v = f[w]
    OBVIOUS
  <2>2. v.x = w.x /\ v.y = -w.y
    BY <1>2, <2>1
  <2>3. w.x \in Int /\ w.y \in Int
    BY <1>3
  <2>4. (-y - w.y) * (-y - w.y) = (y - (-w.y)) * (y - (-w.y))
    BY <2>3
  <2>5. g[v] = Added(x, y, v)
    BY <1>1
  <2> QED
    BY <2>1, <2>2, <2>4, <2>5 DEF Added, Square
<1>9. [w \in Disk |-> g[f[w]]] = [w \in Disk |-> Added(x, -y, w)]
  BY <1>8
<1>10. PICK z \in Int : z = -y
  OBVIOUS
<1>11. Blurred(x, z) = SumFunction([w \in Disk |-> Added(x, z, w)])
  BY BlurredIs
<1>12. Blurred(x, y) = SumFunction(g)
  BY <1>1, BlurredIs
<1> QED
  BY <1>7, <1>9, <1>10, <1>11, <1>12

\* A grid of numbers.
Grid == [Node -> [Node -> Int]]

LEMMA RawType ==
  /\ Raw \in [Node -> [Node -> Nat \ {0}]]
  /\ \A i, j \in Node : Raw[i][2 * Half - j] = Raw[i][j] /\ 2 * Half - j \in Node
<1>1. \A i \in Node : i \in Nat /\ i - Half \in Int
  BY Constants DEF Node
<1>2. \A i, j \in Node : Raw[i][j] = Blurred(i - Half, j - Half)
  BY DEF Raw
<1>3. \A i, j \in Node : Blurred(i - Half, j - Half) \in Nat \ {0}
  BY <1>1, BlurredType
<1>4. Raw \in [Node -> [Node -> Nat \ {0}]]
  BY <1>3 DEF Raw
<1>5. ASSUME NEW i \in Node, NEW j \in Node
      PROVE  Raw[i][2 * Half - j] = Raw[i][j] /\ 2 * Half - j \in Node
  <2>1. 2 * Half - j \in Node
    BY Constants DEF Node
  <2>2. PICK y \in Int : y = j - Half
    BY <1>1
  <2>3. (2 * Half - j) - Half = -y
    BY <1>1, <2>2, Constants
  <2>4. Blurred(i - Half, -y) = Blurred(i - Half, y)
    BY <1>1, BlurredMirrored
  <2> QED
    BY <1>2, <2>1, <2>2, <2>3, <2>4
<1> QED
  BY <1>4, <1>5

\* The field has a peak, and it is positive.
LEMMA PeakType ==
  Peak \in Nat \ {0} /\ \A i, j \in Node : Raw[i][j] <= Peak
<1>0. IsFiniteSet(Node)
  BY Constants, FS_Interval DEF Node
<1>1. \A i \in Node : \E b \in Nat : \A j \in Node : Raw[i][j] <= b
  <2> SUFFICES ASSUME NEW i \in Node
               PROVE  \E b \in Nat : \A j \in Node : Raw[i][j] <= b
    OBVIOUS
  <2>1. PICK g \in [Node -> Int] : g = Raw[i]
    BY RawType
  <2>2. \E b \in Nat : \A j \in Node : g[j] <= b
    BY <1>0, BoundedOnFinite
  <2> QED
    BY <2>1, <2>2
<1>2. PICK g \in [Node -> Int] :
        \A i \in Node : g[i] \in Nat /\ \A j \in Node : Raw[i][j] <= g[i]
  <2> DEFINE G == [i \in Node |-> CHOOSE b \in Nat : \A j \in Node : Raw[i][j] <= b]
  <2>1. \A i \in Node : G[i] \in Nat /\ \A j \in Node : Raw[i][j] <= G[i]
    BY <1>1
  <2>2. G \in [Node -> Int]
    BY <2>1
  <2> QED
    BY <2>1, <2>2
<1>3. PICK b \in Nat : \A i \in Node : g[i] <= b
  BY <1>0, BoundedOnFinite
<1>4. PICK T : T = UNION {Range(Raw[i]) : i \in Node}
  OBVIOUS
<1>t. /\ \A i, j \in Node : Raw[i][j] \in T
      /\ \A n \in T : \E i, j \in Node : n = Raw[i][j]
  <2>1. \A i \in Node : DOMAIN Raw[i] = Node
    BY RawType
  <2> QED
    BY <1>4, <2>1 DEF Range
<1>5. \A i, j \in Node : Raw[i][j] \in Nat \ {0}
  BY RawType
<1>6. \A i, j \in Node : Raw[i][j] <= b
  BY <1>2, <1>3, <1>5
<1>7. T \subseteq Nat \ {0} /\ \A n \in T : n <= b
  BY <1>t, <1>5, <1>6
<1>8. 0 \in Node
  BY Constants DEF Node
<1>9. T # {}
  BY <1>t, <1>8
<1>10. Max(T) \in T /\ \A n \in T : n <= Max(T)
  BY <1>7, <1>9, GreatestOfBounded
<1>11. Peak = Max(T)
  BY <1>4 DEF Peak
<1> QED
  BY <1>t, <1>7, <1>10, <1>11

\* No value of the field is above that of its peak.
LEMMA ValuesType ==
  /\ Values \in [Node -> [Node -> 0..Scale]]
  /\ \A i, j \in Node : Values[i][2 * Half - j] = Values[i][j]
<1>1. ASSUME NEW i \in Node, NEW j \in Node
      PROVE  (Scale * Raw[i][j]) \div Peak \in 0..Scale
  <2>1. PICK r \in Nat \ {0}, m \in Nat \ {0}, s \in Nat \ {0} :
          r = Raw[i][j] /\ m = Peak /\ s = Scale /\ r <= m
    BY RawType, PeakType, Constants
  <2>2. s * r <= s * m /\ s * r >= 0 /\ s * r \in Int
    BY <2>1
  <2>3. PICK p \in Nat : p = s * r /\ p <= s * m
    BY <2>2
  <2>4. p \div m \in Int /\ (p \div m) * m <= p /\ p < (p \div m) * m + m
    OBVIOUS
  <2>5. p \div m >= 0
    <3>1. PICK q \in Int : q = p \div m
      BY <2>4
    <3>2. q < 0 => q * m + m <= 0
      OBVIOUS
    <3> QED
      BY <2>4, <3>1, <3>2
  <2>6. p \div m <= s
    <3>1. PICK q \in Int : q = p \div m
      BY <2>4
    <3>2. q > s => q * m > s * m
      OBVIOUS
    <3> QED
      BY <2>3, <2>4, <3>1, <3>2
  <2> QED
    BY <2>1, <2>3, <2>4, <2>5, <2>6
<1>2. Values \in [Node -> [Node -> 0..Scale]]
  BY <1>1 DEF Values
<1>3. \A i, j \in Node : Values[i][j] = (Scale * Raw[i][j]) \div Peak
  BY DEF Values
<1> QED
  BY <1>2, <1>3, RawType

\* Across the x axis the gradient changes its sign.
LEMMA AlongType ==
  /\ AlongX \in Grid /\ AlongY \in Grid
  /\ \A i, j \in Node : /\ AlongX[i][2 * Half - j] = AlongX[i][j]
                        /\ AlongY[i][2 * Half - j] = -AlongY[i][j]
<1>1. \A i \in Node : /\ i \in Nat /\ 2 * Half - i \in Node
                      /\ Inner(i) => i + 1 \in Node /\ i - 1 \in Node
  BY Constants DEF Node, Inner
<1>2. \A i, j \in Node : Values[i][j] \in Int /\ Values[i][2 * Half - j] = Values[i][j]
  BY ValuesType
<1>3. /\ \A i, j \in Node :
           AlongX[i][j] = IF Inner(i) THEN Values[i + 1][j] - Values[i - 1][j] ELSE 0
      /\ \A i, j \in Node :
           AlongY[i][j] = IF Inner(j) THEN Values[i][j + 1] - Values[i][j - 1] ELSE 0
  BY DEF AlongX, AlongY
<1>4. AlongX \in Grid
  <2>1. \A i, j \in Node : (IF Inner(i) THEN Values[i + 1][j] - Values[i - 1][j] ELSE 0) \in Int
    BY <1>1, <1>2
  <2> QED
    BY <2>1 DEF AlongX, Grid
<1>5. AlongY \in Grid
  <2>1. \A i, j \in Node : (IF Inner(j) THEN Values[i][j + 1] - Values[i][j - 1] ELSE 0) \in Int
    BY <1>1, <1>2
  <2> QED
    BY <2>1 DEF AlongY, Grid
<1>6. \A i, j \in Node : AlongX[i][2 * Half - j] = AlongX[i][j]
  <2> SUFFICES ASSUME NEW i \in Node, NEW j \in Node
               PROVE  AlongX[i][2 * Half - j] = AlongX[i][j]
    OBVIOUS
  <2>1. PICK k \in Node : k = 2 * Half - j
    BY <1>1
  <2>2. Inner(i) => Values[i + 1][k] = Values[i + 1][j] /\ Values[i - 1][k] = Values[i - 1][j]
    BY <1>1, <1>2, <2>1
  <2> QED
    BY <1>3, <2>1, <2>2
<1>7. \A i, j \in Node : AlongY[i][2 * Half - j] = -AlongY[i][j]
  <2> SUFFICES ASSUME NEW i \in Node, NEW j \in Node
               PROVE  AlongY[i][2 * Half - j] = -AlongY[i][j]
    OBVIOUS
  <2>1. PICK k \in Node : k = 2 * Half - j
    BY <1>1
  <2>2. Inner(k) <=> Inner(j)
    BY <1>1, <2>1, Constants DEF Inner
  <2>3. ASSUME Inner(j)
        PROVE  Values[i][k + 1] = Values[i][j - 1] /\ Values[i][k - 1] = Values[i][j + 1]
    <3>1. PICK l \in Node, r \in Node : l = j - 1 /\ r = j + 1
      BY <1>1, <2>3
    <3>2. k + 1 = 2 * Half - l /\ k - 1 = 2 * Half - r
      BY <1>1, <2>1, <3>1, Constants
    <3>3. Values[i][2 * Half - l] = Values[i][l] /\ Values[i][2 * Half - r] = Values[i][r]
      BY <1>2
    <3> QED
      BY <3>1, <3>2, <3>3
  <2>4. CASE Inner(j)
    <3>1. PICK m \in Int, n \in Int : m = Values[i][j + 1] /\ n = Values[i][j - 1]
      BY <1>1, <1>2, <2>4
    <3>2. AlongY[i][j] = m - n /\ AlongY[i][k] = n - m
      BY <1>3, <2>2, <2>3, <2>4, <3>1
    <3> QED
      BY <2>1, <3>2
  <2>5. CASE ~Inner(j)
    <3>1. AlongY[i][j] = 0 /\ AlongY[i][k] = 0
      BY <1>3, <2>2, <2>5
    <3>2. PICK z \in Int : z = 0 /\ z = -z
      OBVIOUS
    <3> QED
      BY <2>1, <3>1, <3>2
  <2> QED
    BY <2>4, <2>5
<1> QED
  BY <1>4, <1>5, <1>6, <1>7

-----------------------------------------------------------------------------
(* Interpolation                                                           *)

\* Everything in the grid is in a cell.
LEMMA CellIs ==
  ASSUME NEW f \in Int, f >= 0, f <= 2 * Half * Sub
  PROVE  /\ CellIndex(f) \in 0..2 * Half - 1
         /\ f - CellIndex(f) * Sub \in 0..Sub
<1>1. PICK s \in Nat \ {0}, h \in Nat \ {0} : s = Sub /\ h = 2 * Half
  BY Constants
<1>2. PICK q \in Int : q = f \div s /\ q * s <= f /\ f < q * s + s
  OBVIOUS
<1>3. q >= 0
  <2>1. q < 0 => q * s + s <= 0
    OBVIOUS
  <2> QED
    BY <1>2, <2>1
<1>4. f <= h * s
  BY <1>1, Constants
<1>5. q >= h => f = h * s /\ q >= h
  <2>1. q >= h => q * s >= h * s
    OBVIOUS
  <2>2. h * s \in Int /\ q * s \in Int
    OBVIOUS
  <2> QED
    BY <1>2, <1>4, <2>1, <2>2
<1>6. CASE q < h
  <2>1. CellIndex(f) = q
    BY <1>1, <1>2, <1>3, <1>6 DEF CellIndex, Least, Largest
  <2> QED
    BY <1>1, <1>2, <1>3, <1>6, <2>1
<1>7. CASE q >= h
  <2>1. CellIndex(f) = h - 1
    BY <1>1, <1>2, <1>3, <1>7 DEF CellIndex, Least, Largest
  <2>2. h * s - (h - 1) * s = s
    OBVIOUS
  <2>3. f - (h - 1) * s = s
    BY <1>5, <1>7, <2>2
  <2>4. h - 1 \in 0..h - 1 /\ s \in 0..s
    OBVIOUS
  <2> QED
    BY <1>1, <2>1, <2>3, <2>4
<1> QED
  BY <1>6, <1>7

LEMMA CellFits ==
  ASSUME NEW i \in 0..2 * Half - 1
  PROVE  i \in Node /\ i + 1 \in Node
BY Constants DEF Node

\* On the border of two cells both give the same.
LEMMA EitherCell ==
  ASSUME NEW a \in [Node -> Int], NEW i \in 0..2 * Half - 1, NEW k \in 0..2 * Half - 1,
         NEW s \in 0..Sub, NEW t \in 0..Sub, i * Sub + s = k * Sub + t
  PROVE  Between(a[i], a[i + 1], s) = Between(a[k], a[k + 1], t)
<1>0. i \in Node /\ i + 1 \in Node /\ k \in Node /\ k + 1 \in Node
  BY CellFits
<1>1. PICK b \in Nat \ {0} : b = Sub
  BY Constants
<1>2. i \in Int /\ k \in Int /\ s \in Int /\ t \in Int /\ 0 <= s /\ s <= b /\ 0 <= t /\ t <= b
  BY <1>1, Constants
<1>3. i * b + s = k * b + t
  BY <1>1
<1>4. i < k => k = i + 1 /\ s = b /\ t = 0
  <2> SUFFICES ASSUME i < k
               PROVE  k = i + 1 /\ s = b /\ t = 0
    OBVIOUS
  <2>1. PICK d \in Nat : k = i + 1 + d
    BY <1>2
  <2>2. k * b = i * b + b + d * b
    BY <1>2, <2>1
  <2>3. d * b \in Nat /\ (d > 0 => d * b > 0)
    OBVIOUS
  <2>4. i * b \in Int /\ k * b \in Int
    BY <1>2
  <2> QED
    BY <1>2, <1>3, <2>1, <2>2, <2>3, <2>4
<1>5. k < i => i = k + 1 /\ t = b /\ s = 0
  <2> SUFFICES ASSUME k < i
               PROVE  i = k + 1 /\ t = b /\ s = 0
    OBVIOUS
  <2>1. PICK d \in Nat : i = k + 1 + d
    BY <1>2
  <2>2. i * b = k * b + b + d * b
    BY <1>2, <2>1
  <2>3. d * b \in Nat /\ (d > 0 => d * b > 0)
    OBVIOUS
  <2>4. i * b \in Int /\ k * b \in Int
    BY <1>2
  <2> QED
    BY <1>2, <1>3, <2>1, <2>2, <2>3, <2>4
<1>6. CASE i = k
  <2>1. s = t
    BY <1>2, <1>3, <1>6
  <2> QED
    BY <1>6, <2>1
<1>7. CASE i < k
  <2>1. PICK l \in Int, m \in Int, n \in Int : l = a[i] /\ m = a[k] /\ n = a[k + 1]
    BY <1>0
  <2>2. l * (b - b) + m * b = m * (b - 0) + n * 0
    OBVIOUS
  <2> QED
    BY <1>1, <1>4, <1>7, <2>1, <2>2 DEF Between
<1>8. CASE k < i
  <2>1. PICK l \in Int, m \in Int, n \in Int : l = a[k] /\ m = a[i] /\ n = a[i + 1]
    BY <1>0
  <2>2. l * (b - b) + m * b = m * (b - 0) + n * 0
    OBVIOUS
  <2> QED
    BY <1>1, <1>5, <1>8, <2>1, <2>2 DEF Between
<1> QED
  BY <1>2, <1>6, <1>7, <1>8

LEMMA BetweenType ==
  ASSUME NEW lo \in Int, NEW hi \in Int, NEW s \in 0..Sub
  PROVE  /\ Between(lo, hi, s) \in Int
         /\ Between(-lo, -hi, s) = -Between(lo, hi, s)
         /\ Between(hi, lo, Sub - s) = Between(lo, hi, s)
         /\ \A b \in Nat : lo \in 0..b /\ hi \in 0..b => Between(lo, hi, s) \in 0..b * Sub
<1>1. PICK m \in Nat, n \in Nat, w \in Nat \ {0} : m = s /\ n = Sub - s /\ w = Sub /\ m + n = w
  BY Constants
<1>2. Between(lo, hi, s) = lo * n + hi * m
  BY <1>1 DEF Between
<1>3. lo * n \in Int /\ hi * m \in Int
  BY <1>1
<1>4. Between(-lo, -hi, s) = -Between(lo, hi, s)
  <2>1. (-lo) * n = -(lo * n) /\ (-hi) * m = -(hi * m)
    OBVIOUS
  <2>2. Between(-lo, -hi, s) = (-lo) * n + (-hi) * m
    BY <1>1 DEF Between
  <2> QED
    BY <1>2, <1>3, <2>1, <2>2
<1>5. Between(hi, lo, Sub - s) = Between(lo, hi, s)
  <2>1. Sub - (Sub - s) = m /\ Sub - s = n
    BY <1>1
  <2>2. Between(hi, lo, Sub - s) = hi * m + lo * n
    BY <2>1 DEF Between
  <2> QED
    BY <1>2, <1>3, <2>2
<1>6. ASSUME NEW b \in Nat, lo \in 0..b, hi \in 0..b
      PROVE  Between(lo, hi, s) \in 0..b * Sub
  <2>1. 0 <= lo * n /\ lo * n <= b * n /\ 0 <= hi * m /\ hi * m <= b * m
    BY <1>6
  <2>2. b * n + b * m = b * w /\ b * n \in Int /\ b * m \in Int /\ b * w \in Int
    BY <1>1
  <2> QED
    BY <1>1, <1>2, <1>3, <2>1, <2>2
<1> QED
  BY <1>2, <1>3, <1>4, <1>5, <1>6

\* The row of numbers that interpolation along x makes of a grid.
Row(f, fx) ==
  [k \in Node |-> Between(f[CellIndex(fx)][k], f[CellIndex(fx) + 1][k], fx - CellIndex(fx) * Sub)]

\* A coordinate counted from the edge of the grid.
Edges == {f \in Int : f >= 0 /\ f <= 2 * Half * Sub}

\* Interpolation is along x first.
LEMMA RowIs ==
  ASSUME NEW f \in Grid, NEW fx \in Edges, NEW fy \in Edges
  PROVE  /\ Row(f, fx) \in [Node -> Int]
         /\ Interpolated(f, fx, fy)
              = Between(Row(f, fx)[CellIndex(fy)], Row(f, fx)[CellIndex(fy) + 1],
                        fy - CellIndex(fy) * Sub)
         /\ Interpolated(f, fx, fy) \in Int
<1>1. PICK i \in 0..2 * Half - 1, s \in 0..Sub : i = CellIndex(fx) /\ s = fx - i * Sub
  BY CellIs DEF Edges
<1>2. PICK j \in 0..2 * Half - 1, t \in 0..Sub : j = CellIndex(fy) /\ t = fy - j * Sub
  BY CellIs DEF Edges
<1>3. i \in Node /\ i + 1 \in Node /\ j \in Node /\ j + 1 \in Node
  BY CellFits
<1>4. \A k \in Node : Between(f[i][k], f[i + 1][k], s) \in Int
  BY <1>3, BetweenType DEF Grid
<1>5. PICK a \in [Node -> Int] : a = [k \in Node |-> Between(f[i][k], f[i + 1][k], s)]
  BY <1>4
<1>6. Row(f, fx) = a
  BY <1>1, <1>5 DEF Row
<1>7. a[j] = Between(f[i][j], f[i + 1][j], s) /\ a[j + 1] = Between(f[i][j + 1], f[i + 1][j + 1], s)
  BY <1>3, <1>5
<1>8. Interpolated(f, fx, fy) = Between(a[j], a[j + 1], t)
  BY <1>1, <1>2, <1>7 DEF Interpolated
<1>9. Between(a[j], a[j + 1], t) \in Int
  BY <1>3, BetweenType
<1> QED
  BY <1>2, <1>5, <1>6, <1>8, <1>9

\* What is interpolated lies between the values of the nodes.
LEMMA InterpolatedInRange ==
  ASSUME NEW f \in [Node -> [Node -> 0..Scale]], NEW fx \in Edges, NEW fy \in Edges
  PROVE  Interpolated(f, fx, fy) \in 0..One
<1>1. PICK i \in 0..2 * Half - 1, s \in 0..Sub : i = CellIndex(fx) /\ s = fx - i * Sub
  BY CellIs DEF Edges
<1>2. PICK j \in 0..2 * Half - 1, t \in 0..Sub : j = CellIndex(fy) /\ t = fy - j * Sub
  BY CellIs DEF Edges
<1>3. i \in Node /\ i + 1 \in Node /\ j \in Node /\ j + 1 \in Node
  BY CellFits
<1>4. PICK c \in Nat : c = Scale * Sub
  BY Constants
<1>5. \A k \in Node : Between(f[i][k], f[i + 1][k], s) \in 0..c
  <2> SUFFICES ASSUME NEW k \in Node
               PROVE  Between(f[i][k], f[i + 1][k], s) \in 0..c
    OBVIOUS
  <2>1. f[i][k] \in 0..Scale /\ f[i + 1][k] \in 0..Scale
    BY <1>3
  <2>2. PICK b \in Nat : b = Scale
    BY Constants
  <2>3. PICK lo \in Int, hi \in Int : lo = f[i][k] /\ hi = f[i + 1][k] /\ lo \in 0..b /\ hi \in 0..b
    BY <2>1, <2>2
  <2>4. Between(lo, hi, s) \in 0..b * Sub
    BY <2>3, BetweenType
  <2> QED
    BY <1>4, <2>2, <2>3, <2>4
<1>6. PICK lo \in Int, hi \in Int :
        /\ lo = Between(f[i][j], f[i + 1][j], s) /\ hi = Between(f[i][j + 1], f[i + 1][j + 1], s)
        /\ lo \in 0..c /\ hi \in 0..c
  BY <1>3, <1>5
<1>7. Between(lo, hi, t) \in 0..c * Sub
  BY <1>6, BetweenType
<1>8. Interpolated(f, fx, fy) = Between(lo, hi, t)
  BY <1>1, <1>2, <1>6 DEF Interpolated
<1>9. c * Sub = One
  BY <1>4, Constants DEF One
<1> QED
  BY <1>7, <1>8, <1>9

\* Mirrored grids are interpolated to mirrored fields.
LEMMA InterpolatedMirrored ==
  ASSUME NEW f \in Grid, NEW g \in Grid,
         \A i, j \in Node : f[i][2 * Half - j] = g[i][j],
         NEW fx \in Edges, NEW fy \in Edges
  PROVE  Interpolated(f, fx, 2 * Half * Sub - fy) = Interpolated(g, fx, fy)
<1>1. PICK i \in 0..2 * Half - 1, s \in 0..Sub : i = CellIndex(fx) /\ s = fx - i * Sub
  BY CellIs DEF Edges
<1>2. PICK j \in 0..2 * Half - 1, t \in 0..Sub : j = CellIndex(fy) /\ t = fy - j * Sub
  BY CellIs DEF Edges
<1>3. PICK fz \in Edges : fz = 2 * Half * Sub - fy
  <2>1. PICK e \in Int : e = 2 * Half * Sub
    BY Constants
  <2>2. e - fy >= 0 /\ e - fy <= e /\ e - fy \in Int
    BY <2>1 DEF Edges
  <2> QED
    BY <2>1, <2>2 DEF Edges
<1>4. PICK k \in 0..2 * Half - 1, u \in 0..Sub : k = CellIndex(fz) /\ u = fz - k * Sub
  BY CellIs DEF Edges
<1>5. PICK l \in 0..2 * Half - 1 : l = 2 * Half - 1 - j
  BY Constants
<1>6. i \in Node /\ i + 1 \in Node /\ j \in Node /\ j + 1 \in Node /\ l \in Node /\ l + 1 \in Node
  BY CellFits
<1>7. PICK a \in [Node -> Int] : a = Row(f, fx)
  BY RowIs
<1>8. PICK b \in [Node -> Int] : b = Row(g, fx)
  BY RowIs
<1>9. \A m \in Node : a[2 * Half - m] = b[m]
  <2> SUFFICES ASSUME NEW m \in Node
               PROVE  a[2 * Half - m] = b[m]
    OBVIOUS
  <2>1. PICK n \in Node : n = 2 * Half - m
    BY RawType
  <2>2. f[i][n] = g[i][m] /\ f[i + 1][n] = g[i + 1][m]
    BY <1>6, <2>1
  <2>3. a[n] = Between(f[i][n], f[i + 1][n], s)
    BY <1>1, <1>7 DEF Row
  <2>4. b[m] = Between(g[i][m], g[i + 1][m], s)
    BY <1>1, <1>8 DEF Row
  <2> QED
    BY <2>1, <2>2, <2>3, <2>4
<1>10. a[l] = b[j + 1] /\ a[l + 1] = b[j]
  <2>1. l = 2 * Half - (j + 1) /\ l + 1 = 2 * Half - j
    BY <1>5, Constants
  <2> QED
    BY <1>6, <1>9, <2>1
<1>11. PICK v \in 0..Sub : v = Sub - t
  BY Constants
<1>12. k * Sub + u = l * Sub + v
  <2>1. PICK h \in Nat, w \in Nat : h = Half /\ w = Sub
    BY Constants
  <2>2. fz = 2 * h * w - fy /\ fy = j * w + t /\ l = 2 * h - 1 - j /\ v = w - t
    <3>1. fy \in Int /\ j * w \in Int /\ j \in Int
      BY <2>1 DEF Edges
    <3> QED
      BY <1>2, <1>3, <1>5, <1>11, <2>1, <3>1
  <2>3. (2 * h - 1 - j) * w = 2 * h * w - w - j * w
    BY <2>1
  <2>4. j * w \in Int /\ 2 * h * w \in Int /\ k * w \in Int /\ fz \in Int /\ t \in Int
    BY <2>1, Constants DEF Edges
  <2>5. u = fz - k * w
    BY <1>4, <2>1
  <2>6. k * w + u = fz /\ l * w + v = 2 * h * w - j * w - t
    BY <2>2, <2>3, <2>4, <2>5
  <2>7. fz = 2 * h * w - j * w - t
    BY <2>2, <2>4
  <2> QED
    BY <2>1, <2>6, <2>7
<1>13. Between(a[k], a[k + 1], u) = Between(a[l], a[l + 1], v)
  BY <1>12, EitherCell
<1>14. Between(b[j + 1], b[j], v) = Between(b[j], b[j + 1], t)
  <2>1. b[j] \in Int /\ b[j + 1] \in Int
    BY <1>6
  <2> QED
    BY <1>11, <2>1, BetweenType
<1>15. Interpolated(f, fx, fz) = Between(a[k], a[k + 1], u)
  BY <1>4, <1>7, RowIs
<1>16. Interpolated(g, fx, fy) = Between(b[j], b[j + 1], t)
  BY <1>2, <1>8, RowIs
<1> QED
  BY <1>3, <1>10, <1>13, <1>14, <1>15, <1>16

LEMMA InterpolatedNegated ==
  ASSUME NEW f \in Grid, NEW g \in Grid, \A i, j \in Node : g[i][j] = -f[i][j],
         NEW fx \in Edges, NEW fy \in Edges
  PROVE  Interpolated(g, fx, fy) = -Interpolated(f, fx, fy)
<1>1. PICK i \in 0..2 * Half - 1, s \in 0..Sub : i = CellIndex(fx) /\ s = fx - i * Sub
  BY CellIs DEF Edges
<1>2. PICK j \in 0..2 * Half - 1, t \in 0..Sub : j = CellIndex(fy) /\ t = fy - j * Sub
  BY CellIs DEF Edges
<1>3. i \in Node /\ i + 1 \in Node /\ j \in Node /\ j + 1 \in Node
  BY CellFits
<1>4. \A k \in Node : /\ Between(f[i][k], f[i + 1][k], s) \in Int
                      /\ Between(g[i][k], g[i + 1][k], s) = -Between(f[i][k], f[i + 1][k], s)
  <2> SUFFICES ASSUME NEW k \in Node
               PROVE  /\ Between(f[i][k], f[i + 1][k], s) \in Int
                      /\ Between(g[i][k], g[i + 1][k], s) = -Between(f[i][k], f[i + 1][k], s)
    OBVIOUS
  <2>1. PICK lo \in Int, hi \in Int : lo = f[i][k] /\ hi = f[i + 1][k]
    BY <1>3 DEF Grid
  <2>2. g[i][k] = -lo /\ g[i + 1][k] = -hi
    BY <1>3, <2>1
  <2>3. Between(lo, hi, s) \in Int /\ Between(-lo, -hi, s) = -Between(lo, hi, s)
    BY BetweenType
  <2> QED
    BY <2>1, <2>2, <2>3
<1>5. PICK lo \in Int, hi \in Int :
        /\ lo = Between(f[i][j], f[i + 1][j], s) /\ hi = Between(f[i][j + 1], f[i + 1][j + 1], s)
        /\ -lo = Between(g[i][j], g[i + 1][j], s) /\ -hi = Between(g[i][j + 1], g[i + 1][j + 1], s)
  BY <1>3, <1>4
<1>6. Between(-lo, -hi, t) = -Between(lo, hi, t)
  BY BetweenType
<1>7. Interpolated(f, fx, fy) = Between(lo, hi, t) /\ Interpolated(g, fx, fy) = Between(-lo, -hi, t)
  BY <1>1, <1>2, <1>5 DEF Interpolated
<1> QED
  BY <1>6, <1>7

\* The field anywhere: a probability and a gradient, with no side preferred.
LEMMA SampleType ==
  ASSUME NEW x \in Int, NEW y \in Int
  PROVE  /\ Sample(x, y).p \in 0..One /\ Sample(x, y).g \in Whole
         /\ Sample(x, -y) = [p |-> Sample(x, y).p, g |-> Vec(Sample(x, y).g.x, -Sample(x, y).g.y)]
<1>0. PICK b \in Nat : b = Half * Sub
  BY Constants
<1>1. AbsOf(-y) = AbsOf(y)
  BY DEF AbsOf
<1>2. One \in Nat
  BY Constants DEF One
<1>3. CASE AbsOf(x) > Half * Sub \/ AbsOf(y) > Half * Sub
  <2>1. Sample(x, y) = Outside /\ Sample(x, -y) = Outside
    BY <1>1, <1>3 DEF Sample
  <2>2. PICK z \in Int : z = 0 /\ -z = z
    OBVIOUS
  <2>3. Outside.p \in 0..One /\ Outside.g \in Whole
    BY <1>2 DEF Outside
  <2>4. Outside = [p |-> Outside.p, g |-> Vec(Outside.g.x, -Outside.g.y)]
    BY <2>2 DEF Outside
  <2> QED
    BY <2>1, <2>3, <2>4
<1>4. CASE ~(AbsOf(x) > Half * Sub \/ AbsOf(y) > Half * Sub)
  <2>1. -b <= x /\ x <= b /\ -b <= y /\ y <= b
    BY <1>0, <1>4 DEF AbsOf
  <2>2. 2 * Half * Sub = 2 * b
    BY <1>0, Constants
  <2>3. PICK fx \in Edges, fy \in Edges : fx = x + b /\ fy = y + b
    BY <2>1, <2>2 DEF Edges
  <2>4. 2 * Half * Sub - fy = -y + b
    BY <2>2, <2>3
  <2>5. PICK fz \in Edges : fz = 2 * Half * Sub - fy
    BY <2>1, <2>2, <2>3, <2>4 DEF Edges
  <2>6. Sample(x, y) = [p |-> Interpolated(Values, fx, fy),
                        g |-> Vec(Interpolated(AlongX, fx, fy), Interpolated(AlongY, fx, fy))]
    BY <1>0, <1>4, <2>3 DEF Sample, Sampled
  <2>7. Sample(x, -y) = [p |-> Interpolated(Values, fx, fz),
                         g |-> Vec(Interpolated(AlongX, fx, fz), Interpolated(AlongY, fx, fz))]
    BY <1>0, <1>1, <1>4, <2>3, <2>4, <2>5 DEF Sample, Sampled
  <2>8. Values \in Grid
    BY ValuesType, Constants DEF Grid
  <2>9. Interpolated(Values, fx, fz) = Interpolated(Values, fx, fy)
    BY <2>5, <2>8, ValuesType, InterpolatedMirrored
  <2>10. Interpolated(AlongX, fx, fz) = Interpolated(AlongX, fx, fy)
    BY <2>5, AlongType, InterpolatedMirrored
  <2>11. Interpolated(AlongY, fx, fz) = -Interpolated(AlongY, fx, fy)
    <3>1. PICK g \in Grid : \A i, j \in Node : g[i][j] = -AlongY[i][j]
      <4>1. [i \in Node |-> [j \in Node |-> -AlongY[i][j]]] \in Grid
        BY AlongType DEF Grid
      <4> QED
        BY <4>1
    <3>2. \A i, j \in Node : AlongY[i][2 * Half - j] = g[i][j]
      BY <3>1, AlongType
    <3>3. Interpolated(AlongY, fx, fz) = Interpolated(g, fx, fy)
      BY <2>5, <3>2, AlongType, InterpolatedMirrored
    <3>4. Interpolated(g, fx, fy) = -Interpolated(AlongY, fx, fy)
      BY <3>1, AlongType, InterpolatedNegated
    <3> QED
      BY <3>3, <3>4
  <2>12. Interpolated(Values, fx, fy) \in 0..One
    BY ValuesType, InterpolatedInRange
  <2>13. Interpolated(AlongX, fx, fy) \in Int /\ Interpolated(AlongY, fx, fy) \in Int
    BY AlongType, RowIs
  <2> QED
    BY <2>6, <2>7, <2>9, <2>10, <2>11, <2>12, <2>13
<1> QED
  BY <1>3, <1>4

-----------------------------------------------------------------------------
(* The warps                                                               *)

LEMMA DivIs ==
  ASSUME NEW p \in Nat, NEW n \in Nat \ {0}
  PROVE  /\ p \div n \in Nat
         /\ \A b \in Nat : p <= b * n => p \div n <= b
<1>1. PICK q \in Int : q = p \div n /\ q * n <= p /\ p < q * n + n
  OBVIOUS
<1>2. q >= 0
  <2>1. q < 0 => q * n + n <= 0
    OBVIOUS
  <2> QED
    BY <1>1, <2>1
<1>3. ASSUME NEW b \in Nat, p <= b * n
      PROVE  q <= b
  <2>1. q > b => q * n > b * n
    OBVIOUS
  <2>2. q * n \in Int /\ b * n \in Int
    OBVIOUS
  <2> QED
    BY <1>1, <1>3, <2>1, <2>2
<1> QED
  BY <1>1, <1>2, <1>3

\* Division towards zero is odd, and exact where nothing remains.
LEMMA QuotType ==
  ASSUME NEW m \in Int, NEW n \in Nat \ {0}
  PROVE  /\ Quot(m, n) \in Int
         /\ Quot(-m, n) = -Quot(m, n)
         /\ Quot(m, 1) = m
         /\ Quot(n * m, n) = m
<1>1. CASE m > 0
  <2>1. m \div n \in Int /\ m \div 1 = m /\ (n * m) \div n = m /\ n * m > 0 /\ n * m \in Int
    BY <1>1
  <2>2. -(-m) = m /\ ~(-m >= 0)
    BY <1>1
  <2> QED
    BY <1>1, <2>1, <2>2 DEF Quot
<1>2. CASE m = 0
  <2>1. 0 \div n = 0 /\ 0 \div 1 = 0 /\ n * 0 = 0
    OBVIOUS
  <2>2. PICK z \in Int : z = 0 /\ -z = z
    OBVIOUS
  <2>3. Quot(z, n) = z /\ Quot(z, 1) = z
    BY <2>1, <2>2 DEF Quot
  <2> QED
    BY <1>2, <2>1, <2>2, <2>3
<1>3. CASE m < 0
  <2>1. PICK k \in Nat \ {0} : k = -m /\ m = -k
    BY <1>3
  <2>2. k \div n \in Int /\ k \div 1 = k /\ (n * k) \div n = k /\ n * k > 0 /\ n * k \in Int
    OBVIOUS
  <2>3. n * m = -(n * k)
    BY <2>1
  <2>4. ~(m >= 0) /\ ~(n * m >= 0) /\ -(n * m) = n * k
    BY <1>3, <2>2, <2>3
  <2>5. Quot(m, n) = -(k \div n) /\ Quot(-m, n) = k \div n /\ Quot(m, 1) = -k
    BY <2>1, <2>2, <2>4 DEF Quot
  <2>6. Quot(n * m, n) = -k
    BY <2>2, <2>4 DEF Quot
  <2> QED
    BY <2>1, <2>2, <2>5, <2>6
<1> QED
  BY <1>1, <1>2, <1>3

LEMMA TurnedType ==
  ASSUME NEW o \in Whole, NEW v, v.x \in Int, v.y \in Int
  PROVE  Turned(o, v) \in Whole /\ TurnedBack(o, v) \in Whole
<1>1. \A m, n \in Int : m * n \in Int
  OBVIOUS
<1>2. o.x \in Int /\ o.y \in Int
  OBVIOUS
<1>3. o.x * v.x \in Int /\ o.y * v.y \in Int /\ o.y * v.x \in Int /\ o.x * v.y \in Int
  BY <1>1, <1>2
<1> QED
  BY <1>3 DEF Turned, TurnedBack

\* A point of a trajectory.
Point == [x : Int, y : Int, t : Int]

LEMMA EncounterType ==
  ASSUME NEW e \in Encounters
  PROVE  /\ e.rel \in Whole /\ e.a \in Axes /\ e.b \in Axes
         /\ e.a \in Whole /\ e.b \in Whole
         /\ e.speed \in Nat /\ e.radius \in Nat \ {0}
<1>1. Axes \subseteq Whole
  BY DEF Axes
<1> QED
  BY <1>1, DriverAssumption

LEMMA UncertaintyType ==
  ASSUME NEW q \in Uncertainty, Accepted(q)
  PROVE  /\ q.lambda \in Nat /\ 1 + q.ux \in Nat \ {0} /\ 1 + q.uy \in Nat \ {0}
         /\ q.ux \in Nat /\ q.uy \in Nat
         /\ \A s \in Point : Spread(s, q) \in Nat \ {0}
<1>1. q.lambda \in Nat /\ q.ux \in Nat /\ q.uy \in Nat
  BY DriverAssumption DEF Accepted
<1>2. ASSUME NEW s \in Point
      PROVE  Spread(s, q) \in Nat \ {0}
  <2>1. PICK l \in Nat, m \in Nat : l = q.lambda /\ m = Largest(s.t, 0)
    BY <1>1 DEF Largest, Point
  <2>2. l * m \in Nat
    OBVIOUS
  <2> QED
    BY <2>1, <2>2 DEF Spread
<1> QED
  BY <1>1, <1>2

LEMMA LocalType ==
  ASSUME NEW s \in Point, NEW e \in Encounters
  PROVE  WarpLocal(s, e) \in Whole
<1>0. s.x \in Int /\ s.y \in Int /\ s.t \in Int
  BY DEF Point
<1>1. Turned(e.a, s) \in Whole
  <2>1. e.a \in Whole
    BY EncounterType
  <2> QED
    BY <1>0, <2>1, TurnedType
<1>2. PICK w \in Whole : w = Plus(Turned(e.a, s), Times(-1, e.rel))
  <2>1. PICK v \in Whole, r \in Whole : v = Turned(e.a, s) /\ r = e.rel
    BY <1>1, EncounterType
  <2>2. Plus(v, Times(-1, r)) \in Whole
    BY DEF Plus, Times
  <2> QED
    BY <2>1, <2>2
<1> QED
  BY <1>2, EncounterType, TurnedType DEF WarpLocal

\* A point of the trajectory is warped to a point of the field.
LEMMA ForwardType ==
  ASSUME NEW s \in Point, NEW e \in Encounters, NEW q \in Uncertainty, Accepted(q)
  PROVE  /\ WarpLocal(s, e) \in Whole /\ WarpVelocity(WarpLocal(s, e), s, e) \in Whole
         /\ BeforeUncertainty(s, e) \in Whole /\ ComposeForward(s, e, q) \in Whole
<1>0. s.x \in Int /\ s.y \in Int /\ s.t \in Int
  BY DEF Point
<1>1. WarpLocal(s, e) \in Whole
  BY LocalType
<1>2. PICK v \in Whole : v = WarpVelocity(WarpLocal(s, e), s, e)
  <2>1. PICK m \in Int : m = e.speed * s.t
    BY <1>0, EncounterType
  <2>2. PICK l \in Whole : l = WarpLocal(s, e)
    BY <1>1
  <2>3. Vec(l.x - m, l.y) \in Whole
    OBVIOUS
  <2> QED
    BY <2>1, <2>2, <2>3 DEF WarpVelocity
<1>3. PICK w \in Whole : w = BeforeUncertainty(s, e)
  <2>1. Sub * v.x \in Int /\ Sub * v.y \in Int
    BY Constants
  <2>2. Quot(Sub * v.x, e.radius) \in Int /\ Quot(Sub * v.y, e.radius) \in Int
    BY <2>1, EncounterType, QuotType
  <2> QED
    BY <1>2, <2>2 DEF BeforeUncertainty, WarpRadius
<1>4. ComposeForward(s, e, q) \in Whole
  <2>1. PICK m \in Nat \ {0}, n \in Nat \ {0}, u \in Nat \ {0} :
          m = Spread(s, q) /\ n = 1 + q.ux /\ u = 1 + q.uy
    BY UncertaintyType
  <2>2. m * n \in Nat \ {0} /\ w.y * u \in Int /\ w.x \in Int
    OBVIOUS
  <2>3. Quot(w.x, m * n) \in Int /\ Quot(w.y * u, m) \in Int
    BY <2>2, QuotType
  <2> QED
    BY <1>3, <2>1, <2>3 DEF ComposeForward
<1> QED
  BY <1>1, <1>2, <1>3, <1>4

\* A gradient of the field is warped back to one of the trajectory.
LEMMA GradientType ==
  ASSUME NEW s \in Point, NEW e \in Encounters, NEW q \in Uncertainty, Accepted(q),
         NEW grad \in Whole
  PROVE  ComposeGradientInverse(grad, s, e, q) \in Point
<1>1. PICK m \in Nat \ {0}, n \in Nat \ {0}, u \in Nat \ {0} :
        m = Spread(s, q) /\ n = 1 + q.ux /\ u = 1 + q.uy
  BY UncertaintyType
<1>2. PICK x \in Int, y \in Int : x = Quot(grad.x, n) /\ y = grad.y * u
  <2>1. grad.y * u \in Int
    OBVIOUS
  <2> QED
    BY <2>1, QuotType
<1>3. PICK at \in Whole : at = BeforeUncertainty(s, e)
  BY ForwardType
<1>4. PICK spreading \in Int : spreading = Quot(-q.lambda * (at.x * x + at.y * y), Square(m))
  <2>1. at.x * x \in Int /\ at.y * y \in Int /\ q.lambda \in Int
    BY UncertaintyType
  <2>2. -q.lambda * (at.x * x + at.y * y) \in Int
    BY <2>1
  <2>3. Square(m) \in Nat \ {0}
    BY DEF Square
  <2> QED
    BY <2>2, <2>3, QuotType
<1>5. PICK g \in Whole : g = Vec(Quot(x, m), Quot(y, m))
  BY QuotType
<1>6. PICK turned \in Whole : turned = TurnedBack(e.a, Turned(e.b, g))
  BY EncounterType, TurnedType
<1>7. spreading - e.speed * g.x \in Int
  BY EncounterType
<1>8. ComposeGradientInverse(grad, s, e, q)
        = [x |-> turned.x, y |-> turned.y, t |-> spreading - e.speed * g.x]
  BY <1>1, <1>2, <1>3, <1>4, <1>5, <1>6 DEF ComposeGradientInverse
<1> QED
  BY <1>7, <1>8 DEF Point

\* What an agent perceives of a neighbor is a probability as long as the
\* uncertainty across is not larger than the one along.
LEMMA PerceivedType ==
  ASSUME NEW s \in Point, NEW e \in Encounters, NEW q \in Uncertainty, Accepted(q)
  PROVE  /\ Perceived(s, e, q).p \in Nat
         /\ Perceived(s, e, q).g \in Point
         /\ q.uy <= q.ux => Perceived(s, e, q).p <= One
<1>1. PICK at \in Whole : at = ComposeForward(s, e, q)
  BY ForwardType
<1>2. PICK f : f = Sample(at.x, at.y)
  OBVIOUS
<1>3. f.p \in 0..One /\ f.g \in Whole
  BY <1>2, SampleType
<1>4. PICK b \in Nat : b = One
  BY Constants DEF One
<1>5. PICK m \in Nat \ {0}, n \in Nat \ {0}, u \in Nat \ {0} :
        m = Spread(s, q) /\ n = 1 + q.ux /\ u = 1 + q.uy
  BY UncertaintyType
<1>6. PICK c \in Nat, d \in Nat \ {0} : c = f.p * u /\ d = Square(m) * n
  <2>1. f.p * u \in Nat
    BY <1>3, <1>4
  <2>2. m * m \in Nat \ {0}
    OBVIOUS
  <2>3. (m * m) * n \in Nat \ {0}
    BY <2>2
  <2> QED
    BY <2>1, <2>3 DEF Square
<1>7. ProbabilityScaled(f.p, s, q) = c \div d
  BY <1>5, <1>6 DEF ProbabilityScaled
<1>8. c \div d \in Nat
  BY DivIs
<1>9. ASSUME q.uy <= q.ux
      PROVE  c \div d <= b
  <2>1. u <= n
    BY <1>5, <1>9, UncertaintyType
  <2>2. f.p * u <= b * u
    BY <1>3, <1>4
  <2>3. b * u <= b * n
    BY <2>1
  <2>4. n <= d
    <3>1. m * m >= 1 /\ m * m \in Int
      OBVIOUS
    <3>2. (m * m) * n >= n
      BY <3>1
    <3> QED
      BY <1>6, <3>2 DEF Square
  <2>5. b * n <= b * d
    BY <2>4
  <2>6. f.p * u \in Int /\ b * u \in Int /\ b * n \in Int /\ b * d \in Int
    BY <1>6
  <2>7. c <= b * d
    BY <1>6, <2>2, <2>3, <2>5, <2>6
  <2> QED
    BY <2>7, DivIs
<1>10. CASE c \div d = 0
  <2>1. Perceived(s, e, q) = [p |-> 0, g |-> [x |-> 0, y |-> 0, t |-> 0]]
    BY <1>1, <1>2, <1>7, <1>10 DEF Perceived
  <2>2. [x |-> 0, y |-> 0, t |-> 0] \in Point
    BY DEF Point
  <2> QED
    BY <1>4, <2>1, <2>2
<1>11. CASE c \div d # 0
  <2>1. Perceived(s, e, q) = [p |-> c \div d, g |-> ComposeGradientInverse(f.g, s, e, q)]
    BY <1>1, <1>2, <1>7, <1>11 DEF Perceived
  <2>2. ComposeGradientInverse(f.g, s, e, q) \in Point
    BY <1>3, GradientType
  <2> QED
    BY <1>4, <1>8, <1>9, <2>1, <2>2
<1> QED
  BY <1>10, <1>11

-----------------------------------------------------------------------------
(* The union of the neighbors                                              *)

Percept == [p : Nat, g : [Coordinates -> Int]]
Combined == [p : Int, g : [Coordinates -> Int], over : Nat \ {0}]

LEMMA TrajectoryType ==
  ASSUME NEW r \in Trajectory
  PROVE  r \in Point
<1>1. \A l \in Lateral : l \in Int
  BY DriverAssumption
<1>2. PICK i \in 1..NumSamples, l \in Lateral : r = TrajectoryPoint(i, l)
  BY DEF Trajectory
<1>3. V0 * (i - 1) \in Int
  BY Constants
<1> QED
  BY <1>1, <1>2, <1>3, Constants DEF TrajectoryPoint, Point

LEMMA PerceptsType ==
  ASSUME NEW q \in Uncertainty, Accepted(q), NEW e \in Encounters, NEW r \in Trajectory
  PROVE  /\ Percepts[q][e][r] = Perceived(r, e, q)
         /\ Percepts[q][e][r].p \in Nat
         /\ \A k \in Coordinates : Percepts[q][e][r].g[k] \in Int
         /\ q.uy <= q.ux => Percepts[q][e][r].p <= One
<1>1. r \in Point
  BY TrajectoryType
<1>2. Percepts[q][e][r] = Perceived(r, e, q)
  BY DEF Percepts
<1>3. PICK g \in Point : g = Perceived(r, e, q).g
  BY <1>1, PerceivedType
<1>4. \A k \in Coordinates : g[k] \in Int
  BY DEF Point, Coordinates
<1> QED
  BY <1>1, <1>2, <1>3, <1>4, PerceivedType

\* UnionExact for the union u of what is perceived of the encounters met
\* from the point r of the trajectory.
Exact(u, met, q, r) ==
  /\ u.over = Product([e \in met |-> One])
  /\ u.p = u.over - Product([e \in met |-> One - Percepts[q][e][r].p])
  /\ \A k \in Coordinates :
       u.g[k] = SumFunction([e \in met |->
                  Percepts[q][e][r].g[k]
                    * Product([d \in met \ {e} |-> One - Percepts[q][d][r].p])])

LEMMA OneType == One \in Nat \ {0}
<1>1. Scale * Sub \in Nat \ {0}
  BY Constants
<1>2. \A m, n \in Nat \ {0} : m * n \in Nat \ {0}
  OBVIOUS
<1>3. (Scale * Sub) * Sub \in Nat \ {0}
  BY <1>1, <1>2, Constants
<1> QED
  BY <1>3 DEF One

LEMMA UnionType ==
  ASSUME NEW u \in Combined, NEW b, b.p \in Nat, \A k \in Coordinates : b.g[k] \in Int
  PROVE  /\ Union(u, b) \in Combined
         /\ Union(u, b).over = u.over * One
         /\ Union(u, b).p = u.p * One + b.p * u.over - u.p * b.p
         /\ \A k \in Coordinates : Union(u, b).g[k]
              = u.g[k] * One + b.g[k] * u.over - u.p * b.g[k] - b.p * u.g[k]
<1>1. \A m, n \in Int : m * n \in Int
  OBVIOUS
<1>2. u.p \in Int /\ u.over \in Nat \ {0} /\ \A k \in Coordinates : u.g[k] \in Int
  BY DEF Combined
<1>3. u.over * One \in Nat \ {0}
  BY <1>2, OneType
<1>4. u.p * One \in Int /\ b.p * u.over \in Int /\ u.p * b.p \in Int
  BY <1>1, <1>2, OneType
<1>5. \A k \in Coordinates : /\ u.g[k] * One \in Int /\ b.g[k] * u.over \in Int
                             /\ u.p * b.g[k] \in Int /\ b.p * u.g[k] \in Int
  BY <1>1, <1>2, OneType
<1>6. PICK g \in [Coordinates -> Int] :
        g = [k \in Coordinates |->
               u.g[k] * One + b.g[k] * u.over - u.p * b.g[k] - b.p * u.g[k]]
  <2>1. \A k \in Coordinates :
          u.g[k] * One + b.g[k] * u.over - u.p * b.g[k] - b.p * u.g[k] \in Int
    BY <1>5
  <2> QED
    BY <2>1
<1>7. Union(u, b) = [p |-> u.p * One + b.p * u.over - u.p * b.p, g |-> g, over |-> u.over * One]
  BY <1>6 DEF Union
<1>8. PICK p \in Int : p = u.p * One + b.p * u.over - u.p * b.p
  BY <1>4
<1>9. Union(u, b) = [p |-> p, g |-> g, over |-> u.over * One]
  BY <1>7, <1>8
<1>10. Union(u, b) \in Combined
  BY <1>3, <1>9 DEF Combined
<1> QED
  BY <1>6, <1>8, <1>9, <1>10

\* A collision with one neighbor is as likely as p; with two it is no more
\* likely than certain.
LEMMA UnionInRange ==
  ASSUME NEW u \in Combined, u.p \in 0..u.over, NEW b, b.p \in Nat, b.p <= One,
         \A k \in Coordinates : b.g[k] \in Int
  PROVE  Union(u, b).p \in 0..Union(u, b).over
<1>1. PICK p \in Nat, over \in Nat, m \in Nat, n \in Nat :
        p = u.p /\ over = u.over /\ m = b.p /\ n = One - b.p /\ One = m + n /\ p <= over
  BY OneType DEF Combined
<1>2. Union(u, b).p = p * (m + n) + m * over - p * m /\ Union(u, b).over = over * (m + n)
  BY <1>1, UnionType
<1>3. /\ p * (m + n) = p * m + p * n /\ over * (m + n) = over * m + over * n
      /\ m * over = over * m
  OBVIOUS
<1>4. p * n <= over * n /\ p * n >= 0 /\ over * m >= 0
  BY <1>1
<1>5. p * m \in Int /\ p * n \in Int /\ over * m \in Int /\ over * n \in Int
  OBVIOUS
<1>6. Union(u, b).p = p * n + over * m /\ Union(u, b).over = over * m + over * n
  BY <1>2, <1>3, <1>5
<1> QED
  BY <1>4, <1>5, <1>6

\* Whoever comes next, the union stays exact: the new neighbor may be taken
\* out of the products and the sum first.
LEMMA UnionIsExact ==
  ASSUME NEW met, IsFiniteSet(met), NEW e, e \notin met, NEW q, NEW r,
         \A d \in met \cup {e} : /\ Percepts[q][d][r].p \in Nat
                                 /\ \A k \in Coordinates : Percepts[q][d][r].g[k] \in Int,
         NEW u \in Combined, Exact(u, met, q, r)
  PROVE  Exact(Union(u, Percepts[q][e][r]), met \cup {e}, q, r)
<1> DEFINE Missing(S) == [d \in S |-> One - Percepts[q][d][r].p]
           Share(S, k) == [d \in S |-> Percepts[q][d][r].g[k] * Product(Missing(S \ {d}))]
<1>1. PICK now : now = met \cup {e}
  OBVIOUS
<1>2. IsFiniteSet(now) /\ e \in now /\ now \ {e} = met /\ met \subseteq now
  BY <1>1, FS_AddElement
<1>3. \A d \in now :
        Percepts[q][d][r].p \in Nat /\ \A k \in Coordinates : Percepts[q][d][r].g[k] \in Int
  BY <1>1
<1>4. \A S \in SUBSET now :
        IsFiniteSet(S) /\ Missing(S) \in [S -> Int] /\ Product(Missing(S)) \in Int
  <2> SUFFICES ASSUME NEW S \in SUBSET now
               PROVE  IsFiniteSet(S) /\ Missing(S) \in [S -> Int] /\ Product(Missing(S)) \in Int
    OBVIOUS
  <2>1. IsFiniteSet(S)
    BY <1>2, FS_Subset
  <2>2. \A d \in S : One - Percepts[q][d][r].p \in Int
    BY <1>3, OneType
  <2>3. PICK g \in [S -> Int] : g = Missing(S)
    BY <2>2
  <2>4. Product(g) \in Int
    BY <2>1, ProductSplits
  <2> QED
    BY <2>1, <2>3, <2>4
<1>5. \A S \in SUBSET now : \A d \in S :
        Product(Missing(S)) = (One - Percepts[q][d][r].p) * Product(Missing(S \ {d}))
  <2> SUFFICES ASSUME NEW S \in SUBSET now, NEW d \in S
               PROVE  Product(Missing(S)) = (One - Percepts[q][d][r].p) * Product(Missing(S \ {d}))
    OBVIOUS
  <2>1. PICK g \in [S -> Int] : g = Missing(S)
    BY <1>4
  <2>2. Product(g) = g[d] * Product([c \in S \ {d} |-> g[c]])
    <3>1. IsFiniteSet(S)
      BY <1>4
    <3>2. \A x \in S : Product(g) = g[x] * Product([c \in S \ {x} |-> g[c]])
      BY <3>1, ProductSplits
    <3> QED
      BY <3>2
  <2>3. g[d] = One - Percepts[q][d][r].p
    BY <2>1
  <2>4. \A c \in S \ {d} : g[c] = One - Percepts[q][c][r].p
    BY <2>1
  <2>5. [c \in S \ {d} |-> g[c]] = Missing(S \ {d})
    BY <2>4
  <2> QED
    BY <2>1, <2>2, <2>3, <2>5
<1>6. PICK missed \in Int : missed = Product(Missing(met))
  BY <1>2, <1>4
<1>7. PICK over \in Int, p \in Int :
        over = u.over /\ p = u.p /\ p = over - missed /\ over = Product([d \in met |-> One])
  <2>1. u.over \in Int /\ u.p \in Int
    BY DEF Combined
  <2>2. u.over = Product([d \in met |-> One]) /\ u.p = u.over - Product(Missing(met))
    BY DEF Exact
  <2> QED
    BY <1>6, <2>1, <2>2
<1>8. PICK one \in Int, m \in Int, n \in Int : one = One /\ m = Percepts[q][e][r].p /\ n = one - m
  BY <1>2, <1>3, OneType
<1>9. PICK new : new = Union(u, Percepts[q][e][r])
  OBVIOUS
<1>10. /\ new.over = over * one
       /\ new.p = p * one + m * over - p * m
       /\ \A k \in Coordinates : new.g[k]
            = u.g[k] * one + Percepts[q][e][r].g[k] * over - p * Percepts[q][e][r].g[k] - m * u.g[k]
  <2>1. PICK b : b = Percepts[q][e][r]
    OBVIOUS
  <2>2. b.p \in Nat /\ \A k \in Coordinates : b.g[k] \in Int
    BY <1>2, <1>3, <2>1
  <2>3. /\ Union(u, b).over = u.over * One
        /\ Union(u, b).p = u.p * One + b.p * u.over - u.p * b.p
        /\ \A k \in Coordinates : Union(u, b).g[k]
             = u.g[k] * One + b.g[k] * u.over - u.p * b.g[k] - b.p * u.g[k]
    BY <2>2, UnionType
  <2> QED
    BY <1>7, <1>8, <1>9, <2>1, <2>3
<1>11. new.over = Product([d \in now |-> One])
  <2>1. PICK g \in [now -> Int] : g = [d \in now |-> One]
    <3>1. One \in Int
      BY OneType
    <3>2. [d \in now |-> One] \in [now -> Int]
      BY <3>1
    <3> QED
      BY <3>2
  <2>2. Product(g) = g[e] * Product([c \in now \ {e} |-> g[c]])
    <3>1. IsFiniteSet(now)
      BY <1>2
    <3>2. \A x \in now : Product(g) = g[x] * Product([c \in now \ {x} |-> g[c]])
      BY <3>1, ProductSplits
    <3> QED
      BY <1>2, <3>2
  <2>3. g[e] = one
    BY <1>2, <1>8, <2>1
  <2>4. \A c \in now \ {e} : g[c] = One
    BY <2>1
  <2>5. [c \in now \ {e} |-> g[c]] = [d \in met |-> One]
    BY <1>2, <2>4
  <2>6. Product(g) = one * over
    BY <1>7, <2>2, <2>3, <2>5
  <2>7. one * over = over * one
    OBVIOUS
  <2> QED
    BY <1>10, <2>1, <2>6, <2>7
<1>12. Product(Missing(now)) = n * missed
  BY <1>2, <1>5, <1>6, <1>8
<1>13. new.p = new.over - Product(Missing(now))
  <2>1. (over - missed) * one + m * over - (over - missed) * m = over * one - (one - m) * missed
    OBVIOUS
  <2> QED
    BY <1>7, <1>8, <1>10, <1>12, <2>1
<1>14. ASSUME NEW k \in Coordinates
       PROVE  new.g[k] = SumFunction(Share(now, k))
  <2>1. PICK share \in [met -> Int] : share = Share(met, k)
    <3>1. \A d \in met : Percepts[q][d][r].g[k] \in Int /\ Product(Missing(met \ {d})) \in Int
      BY <1>2, <1>3, <1>4
    <3>2. \A i, j \in Int : i * j \in Int
      OBVIOUS
    <3>3. \A d \in met : Percepts[q][d][r].g[k] * Product(Missing(met \ {d})) \in Int
      BY <3>1, <3>2
    <3> QED
      BY <3>3
  <2>2. PICK all \in [now -> Int] : all = Share(now, k)
    <3>1. \A d \in now : Percepts[q][d][r].g[k] \in Int /\ Product(Missing(now \ {d})) \in Int
      BY <1>3, <1>4
    <3>2. \A i, j \in Int : i * j \in Int
      OBVIOUS
    <3>3. \A d \in now : Percepts[q][d][r].g[k] * Product(Missing(now \ {d})) \in Int
      BY <3>1, <3>2
    <3> QED
      BY <3>3
  <2>3. SumFunction(all) = all[e] + SumFunction([d \in met |-> all[d]])
    <3>1. IsFiniteSet(now)
      BY <1>2
    <3>2. \A x \in now : SumFunction(all) = all[x] + SumFunction([c \in now \ {x} |-> all[c]])
      BY <3>1, SumSplits
    <3> QED
      BY <1>2, <3>2
  <2>4. PICK g \in Int : g = Percepts[q][e][r].g[k]
    BY <1>2, <1>3
  <2>5. all[e] = g * missed
    BY <1>2, <1>6, <2>2, <2>4
  <2>6. ASSUME NEW d \in met
        PROVE  all[d] = n * share[d]
    <3>1. PICK S : S = now \ {d}
      OBVIOUS
    <3>2. S \in SUBSET now /\ e \in S /\ S \ {e} = met \ {d}
      BY <1>1, <1>2, <3>1
    <3>3. PICK others \in Int : others = Product(Missing(met \ {d}))
      BY <1>2, <1>4
    <3>4. Product(Missing(S)) = n * others
      <4>1. Product(Missing(S)) = (One - Percepts[q][e][r].p) * Product(Missing(S \ {e}))
        BY <1>5, <3>2
      <4>2. Missing(S \ {e}) = Missing(met \ {d})
        BY <3>2
      <4> QED
        BY <1>8, <3>3, <4>1, <4>2
    <3>5. PICK c \in Int : c = Percepts[q][d][r].g[k]
      BY <1>2, <1>3
    <3>6. all[d] = c * (n * others) /\ share[d] = c * others
      BY <1>2, <2>1, <2>2, <3>1, <3>3, <3>4, <3>5
    <3>7. c * (n * others) = n * (c * others)
      OBVIOUS
    <3> QED
      BY <3>6, <3>7
  <2>7. [d \in met |-> all[d]] = [d \in met |-> n * share[d]]
    BY <2>6
  <2>8. SumFunction([d \in met |-> n * share[d]]) = n * SumFunction(share)
    BY SumScaled
  <2>9. PICK old \in Int : old = SumFunction(share) /\ old = u.g[k]
    BY <2>1, SumSplits DEF Exact
  <2>10. SumFunction(all) = g * missed + n * old
    BY <2>3, <2>5, <2>7, <2>8, <2>9
  <2>11. new.g[k] = old * one + g * over - (over - missed) * g - m * old
    BY <1>7, <1>10, <2>4, <2>9
  <2>12. old * one + g * over - (over - missed) * g - m * old = g * missed + (one - m) * old
    OBVIOUS
  <2> QED
    BY <1>8, <2>2, <2>10, <2>11, <2>12
<1> QED
  BY <1>1, <1>9, <1>11, <1>13, <1>14 DEF Exact

-----------------------------------------------------------------------------
(* The invariant                                                           *)

\* A sample of the trajectory and what has been perceived of it.
Taken == [r : Trajectory, u : Combined]

\* What a step knows: all that it has perceived is of its own neighbors.
SeenOK ==
  /\ Accepted(quest.q)
  /\ seen \in [around : SUBSET Encounters, left : SUBSET Encounters,
               samples : {<< >>} \cup [1..NumSamples -> Taken],
               velocity : {<< >>} \cup Whole]
  /\ IsFiniteSet(seen.around)
  /\ seen = Idle \/ seen.samples \in [1..NumSamples -> Taken]

IInv == TypeOK /\ SeenOK /\ ProgressMeasured /\ UnionExact /\ ProbabilityInRange

-----------------------------------------------------------------------------
(* Velocities                                                              *)

LEMMA NormType ==
  ASSUME NEW v \in Whole
  PROVE  Norm(v) \in Nat
BY DEF Norm, Largest, AbsOf

LEMMA ScaledToType ==
  ASSUME NEW v \in Whole, NEW n \in Int
  PROVE  ScaledTo(v, n) \in Whole
<1>1. CASE Norm(v) = 0
  BY <1>1 DEF ScaledTo
<1>2. CASE Norm(v) # 0
  <2>1. PICK m \in Nat \ {0} : m = Norm(v)
    BY <1>2, NormType
  <2>2. v.x * n \in Int /\ v.y * n \in Int
    OBVIOUS
  <2>3. Quot(v.x * n, m) \in Int /\ Quot(v.y * n, m) \in Int
    BY <2>2, QuotType
  <2>4. ScaledTo(v, n) = [x |-> Quot(v.x * n, m), y |-> Quot(v.y * n, m)]
    BY <1>2, <2>1 DEF ScaledTo
  <2> QED
    BY <2>3, <2>4
<1> QED
  BY <1>1, <1>2

LEMMA ClampedType ==
  ASSUME NEW v \in Whole
  PROVE  Clamped(v) \in Whole
BY ScaledToType, Constants DEF Clamped

LEMMA PlusType ==
  ASSUME NEW v \in Whole, NEW w \in Whole
  PROVE  Plus(v, w) \in Whole
BY DEF Plus

LEMMA TimesType ==
  ASSUME NEW n \in Int, NEW v \in Whole
  PROVE  Times(n, v) \in Whole
<1>1. n * v.x \in Int /\ n * v.y \in Int
  OBVIOUS
<1> QED
  BY <1>1 DEF Times

LEMMA VectorSumType ==
  ASSUME NEW S, IsFiniteSet(S), NEW f \in [S -> Whole]
  PROVE  VectorSum(f) \in Whole
<1>1. PICK fx \in [S -> Int], fy \in [S -> Int] :
        fx = [e \in S |-> f[e].x] /\ fy = [e \in S |-> f[e].y]
  <2>1. \A e \in S : f[e].x \in Int /\ f[e].y \in Int
    OBVIOUS
  <2>2. [e \in S |-> f[e].x] \in [S -> Int] /\ [e \in S |-> f[e].y] \in [S -> Int]
    BY <2>1
  <2> QED
    BY <2>2
<1>2. SumFunction(fx) \in Int /\ SumFunction(fy) \in Int
  BY SumSplits
<1>3. DOMAIN f = S
  OBVIOUS
<1> QED
  BY <1>1, <1>2, <1>3 DEF VectorSum

\* Whatever the samples, the velocity solved for is one.
LEMMA SolveType ==
  ASSUME NEW samples \in [1..NumSamples -> Taken]
  PROVE  Solve(samples) \in Whole
<1> DEFINE I == 1..NumSamples
           Weighted(f) == SumFunction([i \in I |-> samples[i].u.p * f[i]])
           n == SumFunction([i \in I |-> samples[i].u.p])
           over == samples[1].u.over
           P == Quot(Weighted([i \in I |-> samples[i].u.p]), n)
           G(k) == Quot(Weighted([i \in I |-> samples[i].u.g[k]]), n)
           S(k) == Quot(Weighted([i \in I |-> samples[i].r[k]]), n)
           Q(k) == S(k) - Quot(Quot(P * G(k), over), over * StepSize)
<1>1. DOMAIN samples = I /\ IsFiniteSet(I) /\ 1 \in I
  BY Constants, FS_Interval
<1>2. Solve(samples) = IF n <= 0 \/ Q("t") <= 0 THEN Vec(V0, 0)
                       ELSE Vec(Quot(Q("x"), Q("t")), Quot(Q("y"), Q("t")))
  BY <1>1 DEF Solve
<1>3. \A m, l \in Int : m * l \in Int
  OBVIOUS
<1>4. \A i \in I : samples[i].r \in Trajectory /\ samples[i].u \in Combined
  BY DEF Taken
<1>5. \A i \in I : samples[i].u.p \in Int /\ \A k \in Coordinates : samples[i].u.g[k] \in Int
  BY <1>4 DEF Combined
<1>6. \A i \in I : \A k \in Coordinates : samples[i].r[k] \in Int
  <2>1. \A l \in Lateral : l \in Int
    BY DriverAssumption
  <2>2. \A i \in Int : V0 * (i - 1) \in Int
    BY Constants
  <2>3. \A r \in Trajectory : r \in Point
    BY <2>1, <2>2, Constants DEF Trajectory, TrajectoryPoint, Point
  <2>4. \A r \in Point : \A k \in Coordinates : r[k] \in Int
    BY DEF Point, Coordinates
  <2> QED
    BY <1>4, <2>3, <2>4
<1>7. \A f \in [I -> Int] : Weighted(f) \in Int
  <2> SUFFICES ASSUME NEW f \in [I -> Int]
               PROVE  Weighted(f) \in Int
    OBVIOUS
  <2>1. \A i \in I : samples[i].u.p * f[i] \in Int
    BY <1>3, <1>5
  <2>2. PICK g \in [I -> Int] : g = [i \in I |-> samples[i].u.p * f[i]]
    BY <2>1
  <2>3. SumFunction(g) \in Int
    BY <1>1, SumSplits
  <2> QED
    BY <2>2, <2>3
<1>8. n \in Int
  <2>1. PICK g \in [I -> Int] : g = [i \in I |-> samples[i].u.p]
    BY <1>5
  <2>2. SumFunction(g) \in Int
    BY <1>1, SumSplits
  <2> QED
    BY <2>1, <2>2
<1>9. over \in Nat \ {0} /\ over * StepSize \in Nat \ {0}
  <2>1. over \in Nat \ {0}
    BY <1>1, <1>4 DEF Combined
  <2>2. \A m, l \in Nat \ {0} : m * l \in Nat \ {0}
    OBVIOUS
  <2> QED
    BY <2>1, <2>2, Constants
<1>10. ASSUME n > 0, NEW k \in Coordinates
       PROVE  Q(k) \in Int
  <2>1. /\ [i \in I |-> samples[i].u.p] \in [I -> Int]
        /\ [i \in I |-> samples[i].u.g[k]] \in [I -> Int]
        /\ [i \in I |-> samples[i].r[k]] \in [I -> Int]
    BY <1>5, <1>6
  <2>2. /\ Weighted([i \in I |-> samples[i].u.p]) \in Int
        /\ Weighted([i \in I |-> samples[i].u.g[k]]) \in Int
        /\ Weighted([i \in I |-> samples[i].r[k]]) \in Int
    <3> HIDE DEF Weighted
    <3> QED
      BY <1>7, <2>1
  <2>3. n \in Nat \ {0}
    <3> HIDE DEF n
    <3> QED
      BY <1>8, <1>10
  <2> HIDE DEF n, Weighted, over
  <2>4. P \in Int /\ G(k) \in Int /\ S(k) \in Int
    BY <2>2, <2>3, QuotType
  <2> HIDE DEF P, G, S
  <2>5. P * G(k) \in Int
    BY <1>3, <2>4
  <2>6. Quot(P * G(k), over) \in Int
    BY <1>9, <2>5, QuotType
  <2>7. Quot(Quot(P * G(k), over), over * StepSize) \in Int
    BY <1>9, <2>6, QuotType
  <2> QED
    BY <2>4, <2>7
<1>11. "x" \in Coordinates /\ "y" \in Coordinates /\ "t" \in Coordinates
  BY DEF Coordinates
<1> HIDE DEF n, Q
<1>12. CASE n <= 0 \/ Q("t") <= 0
  BY <1>2, <1>12, Constants
<1>13. CASE ~(n <= 0 \/ Q("t") <= 0)
  <2>1. n > 0
    BY <1>8, <1>13
  <2>2. Q("x") \in Int /\ Q("y") \in Int /\ Q("t") \in Int
    BY <1>10, <1>11, <2>1
  <2>3. Q("t") \in Nat \ {0}
    BY <1>13, <2>2
  <2>4. Quot(Q("x"), Q("t")) \in Int /\ Quot(Q("y"), Q("t")) \in Int
    BY <2>2, <2>3, QuotType
  <2> QED
    BY <1>2, <1>13, <2>4
<1> QED
  BY <1>12, <1>13

LEMMA DriverConstants ==
  /\ Ways \subseteq Axes /\ Ways \subseteq Whole /\ Axes \subseteq Whole /\ Area \subseteq Whole
  /\ Radius \in Nat \ {0} /\ Dt \in Nat \ {0} /\ Threshold \in Nat \ {0} /\ Duration \in Nat \ {0}
  /\ Creep \in Nat /\ Detour \in Whole
<1>1. Axes \subseteq Whole
  BY DEF Axes
<1>2. \A p \in Area : p \in Whole
  BY DriverAssumption
<1> QED
  BY <1>1, <1>2, DriverAssumption

LEMMA SteeringType ==
  ASSUME NEW n \in Axes
  PROVE  Steering(n) \in Whole
<1>1. Reach \in Nat \ {0}
  BY DriverConstants DEF Reach
<1>2. PICK T : T = {k \in 1..Reach : ~Free(pos, Times(-k, n))} \cup {Reach}
  OBVIOUS
<1>3. T \subseteq Nat \ {0} /\ T # {}
  BY <1>1, <1>2
<1>4. PICK d \in Nat \ {0} : d = WallDistance(n)
  <2>1. T \subseteq Nat
    BY <1>3
  <2>2. Min(T) \in T
    BY <1>3, <2>1, LeastOfNat
  <2>3. Min(T) \in Nat \ {0}
    BY <1>3, <2>2
  <2> QED
    BY <1>2, <2>3 DEF WallDistance
<1>5. PICK m \in Int : m = V0 * (Reach - d)
  BY <1>1, Constants
<1>6. m \div d \in Int
  OBVIOUS
<1>7. n \in Whole
  BY DriverConstants
<1> QED
  BY <1>4, <1>5, <1>6, <1>7, TimesType DEF Steering

LEMMA RepulsionType ==
  ASSUME Desired \in Whole, NEW e \in Encounters
  PROVE  Repulsion(e) \in Whole
<1>1. PICK d \in Nat : d = Norm(e.rel)
  BY EncounterType, NormType
<1>2. CASE d = 0
  <2>1. Vec(-Desired.y, Desired.x) \in Whole
    OBVIOUS
  <2> QED
    BY <1>1, <1>2, <2>1, Constants, TimesType DEF Repulsion
<1>3. CASE d # 0
  <2>1. PICK l \in Int : l = Largest(0, 3 * e.radius - d)
    BY EncounterType DEF Largest
  <2>2. PICK m \in Int : m = V0 * l
    BY Constants
  <2>3. PICK q \in Int : q = m \div d
    BY <1>3
  <2>4. PICK r \in Whole : r = Times(-1, e.rel)
    BY EncounterType, TimesType
  <2> QED
    BY <1>1, <1>3, <2>1, <2>2, <2>3, <2>4, ScaledToType DEF Repulsion
<1> QED
  BY <1>2, <1>3

LEMMA AxesFinite == IsFiniteSet(Axes)
<1>1. \A S, x : IsFiniteSet(S) => IsFiniteSet(S \cup {x})
  BY FS_AddElement
<1>2. IsFiniteSet({Vec(1, 0)})
  BY FS_Singleton
<1>3. IsFiniteSet((({Vec(1, 0)} \cup {Vec(0, 1)}) \cup {Vec(-1, 0)}) \cup {Vec(0, -1)})
  BY <1>1, <1>2, Zenon
<1>4. Axes = (({Vec(1, 0)} \cup {Vec(0, 1)}) \cup {Vec(-1, 0)}) \cup {Vec(0, -1)}
  BY DEF Axes
<1> QED
  BY <1>3, <1>4, Zenon

LEMMA VelocityType ==
  ASSUME TypeOK, SeenOK, seen # Idle
  PROVE  Clamped(Pushed(Solved(Solve(seen.samples)))) \in Whole
<1>1. Desired \in Whole
  BY DriverConstants DEF TypeOK, Desired
<1>2. seen.samples \in [1..NumSamples -> Taken] /\ IsFiniteSet(seen.around)
      /\ seen.around \subseteq Encounters
  BY DEF SeenOK, TypeOK
<1>3. PICK v \in Whole : v = Solve(seen.samples)
  BY <1>2, SolveType
<1>4. PICK w \in Whole : w = Solved(v)
  <2>1. Least(Norm(v), V0) \in Int
    BY NormType, Constants DEF Least
  <2>2. PICK s \in Whole : s = ScaledTo(v, Least(Norm(v), V0))
    BY <2>1, ScaledToType
  <2>3. Turned(Desired, s) \in Whole
    BY <1>1, TurnedType
  <2> QED
    BY <2>2, <2>3 DEF Solved
<1>5. PICK a \in Whole : a = VectorSum([e \in seen.around |-> Repulsion(e)])
  <2>1. \A e \in seen.around : Repulsion(e) \in Whole
    BY <1>1, <1>2, RepulsionType
  <2>2. [e \in seen.around |-> Repulsion(e)] \in [seen.around -> Whole]
    BY <2>1
  <2> QED
    BY <1>2, <2>2, VectorSumType
<1>6. PICK b \in Whole : b = VectorSum([n \in Axes |-> Steering(n)])
  <2>1. [n \in Axes |-> Steering(n)] \in [Axes -> Whole]
    BY SteeringType
  <2> QED
    BY <2>1, AxesFinite, VectorSumType
<1>7. Pushed(w) = Plus(Plus(w, a), b)
  BY <1>5, <1>6 DEF Pushed
<1>8. Plus(Plus(w, a), b) \in Whole
  BY PlusType
<1> QED
  BY <1>3, <1>4, <1>7, <1>8, ClampedType

-----------------------------------------------------------------------------
(* The steps                                                               *)

LEMMA UnionExactIs ==
  UnionExact <=> \A i \in DOMAIN seen.samples :
                   Exact(seen.samples[i].u, seen.around \ seen.left, quest.q, seen.samples[i].r)
BY DEF UnionExact, Exact

LEMMA NothingMet ==
  ASSUME NEW q, NEW r
  PROVE  Exact(Unperceived, {}, q, r) /\ Unperceived \in Combined
<1>1. IsFiniteSet({})
  BY FS_EmptySet
<1>3. \A g \in [{} -> Int] : Product(g) = 1 /\ SumFunction(g) = 0
  BY <1>1, ProductSplits, SumSplits
<1>4. Product([e \in {} |-> One]) = 1 /\ Product([e \in {} |-> One - Percepts[q][e][r].p]) = 1
  <2>1. /\ [e \in {} |-> One] \in [{} -> Int]
        /\ [e \in {} |-> One - Percepts[q][e][r].p] \in [{} -> Int]
    OBVIOUS
  <2> QED
    BY <1>3, <2>1
<1>5. \A k \in Coordinates :
        SumFunction([e \in {} |-> Percepts[q][e][r].g[k]
                                    * Product([d \in {} \ {e} |-> One - Percepts[q][d][r].p])]) = 0
  <2> SUFFICES ASSUME NEW k \in Coordinates
               PROVE  SumFunction([e \in {} |-> Percepts[q][e][r].g[k]
                        * Product([d \in {} \ {e} |-> One - Percepts[q][d][r].p])]) = 0
    OBVIOUS
  <2>1. [e \in {} |-> Percepts[q][e][r].g[k]
           * Product([d \in {} \ {e} |-> One - Percepts[q][d][r].p])] \in [{} -> Int]
    OBVIOUS
  <2> QED
    BY <1>3, <2>1
<1>6. Unperceived \in Combined /\ Unperceived.p = 0 /\ Unperceived.over = 1
      /\ \A k \in Coordinates : Unperceived.g[k] = 0
  BY DEF Unperceived, Combined, Coordinates
<1> QED
  BY <1>4, <1>5, <1>6 DEF Exact

LEMMA IdleIs ==
  /\ Idle.around = {} /\ Idle.left = {} /\ Idle.samples = << >> /\ Idle.velocity = << >>
  /\ DOMAIN Idle.samples = {}
  /\ Idle \in [around : SUBSET Encounters, left : SUBSET Encounters,
               samples : {<< >>} \cup [1..NumSamples -> Taken],
               velocity : {<< >>} \cup Whole]
BY DEF Idle

\* A step that ends leaves nothing that could be wrong.
LEMMA EndOfStep ==
  ASSUME SeenOK, seen' = Idle, quest' = quest
  PROVE  SeenOK' /\ UnionExact' /\ ProbabilityInRange'
<1>1. DOMAIN seen'.samples = {}
  BY IdleIs
<1>2. Accepted(quest'.q)
  BY DEF SeenOK
<1>3. IsFiniteSet(seen'.around)
  BY IdleIs, FS_EmptySet
<1>4. SeenOK'
  BY <1>2, <1>3, IdleIs DEF SeenOK
<1>5. UnionExact' /\ ProbabilityInRange'
  BY <1>1 DEF UnionExact, ProbabilityInRange
<1> QED
  BY <1>4, <1>5

\* A step begins: nobody has been perceived, all samples are clear.
LEMMA StartStepKeeps ==
  ASSUME IInv, StartStep
  PROVE  IInv'
<1> USE DEF IInv
<1>1. PICK around \in SUBSET MayMeet, lateral \in [1..NumSamples -> Lateral] :
        /\ IsFiniteSet(around)
        /\ seen' = [around |-> around, left |-> around,
                    samples |-> [i \in 1..NumSamples |->
                                   [r |-> TrajectoryPoint(i, lateral[i]), u |-> Unperceived]],
                    velocity |-> << >>]
  BY DEF StartStep
<1>2. around \subseteq Encounters
  BY DEF MayMeet
<1>3. UNCHANGED <<agent, pos, quest, anchor>>
  BY DEF StartStep
<1>4. PICK samples : samples = [i \in 1..NumSamples |->
                                  [r |-> TrajectoryPoint(i, lateral[i]), u |-> Unperceived]]
  OBVIOUS
<1>5. \A i \in 1..NumSamples : TrajectoryPoint(i, lateral[i]) \in Trajectory
  BY DEF Trajectory
<1>6. Unperceived \in Combined
  BY NothingMet
<1>7. samples \in [1..NumSamples -> Taken]
  BY <1>4, <1>5, <1>6 DEF Taken
<1>8. seen' = [around |-> around, left |-> around, samples |-> samples, velocity |-> << >>]
  BY <1>1, <1>4
<1>9. SeenOK'
  BY <1>1, <1>2, <1>3, <1>7, <1>8 DEF SeenOK
<1>10. TypeOK'
  BY <1>2, <1>3, <1>8 DEF TypeOK
<1>11. ProgressMeasured'
  BY <1>3 DEF ProgressMeasured
<1>12. seen'.around \ seen'.left = {} /\ DOMAIN seen'.samples = 1..NumSamples
       /\ \A i \in 1..NumSamples : seen'.samples[i].u = Unperceived
  BY <1>4, <1>7, <1>8
<1>13. UnionExact'
  <2>1. \A i \in DOMAIN seen'.samples :
          Exact(seen'.samples[i].u, seen'.around \ seen'.left, quest'.q, seen'.samples[i].r)
    BY <1>12, NothingMet
  <2>2. UnionExact' <=> \A i \in DOMAIN seen'.samples :
          Exact(seen'.samples[i].u, seen'.around \ seen'.left, quest'.q, seen'.samples[i].r)
    BY DEF UnionExact, Exact
  <2> QED
    BY <2>1, <2>2
<1>14. ProbabilityInRange'
  <2>1. Unperceived.p \in 0..Unperceived.over
    BY DEF Unperceived
  <2> QED
    BY <1>12, <2>1 DEF ProbabilityInRange
<1> QED
  BY <1>9, <1>10, <1>11, <1>13, <1>14

\* Another neighbor is perceived: the union is exact for one more.
LEMMA PerceiveKeeps ==
  ASSUME IInv, NEW e \in Encounters, Perceive(e)
  PROVE  IInv'
<1> USE DEF IInv
<1>1. e \in seen.left /\ UNCHANGED <<agent, pos, quest, anchor>>
  BY DEF Perceive
<1>2. PICK s \in [1..NumSamples -> Taken] : s = seen.samples
  <2>1. seen # Idle
    BY <1>1, IdleIs
  <2> QED
    BY <2>1 DEF SeenOK
<1>3. PICK q \in Uncertainty : q = quest.q /\ Accepted(q)
  BY DEF SeenOK, TypeOK
<1>4. /\ DOMAIN s = 1..NumSamples
      /\ \A i \in 1..NumSamples : s[i].r \in Trajectory /\ s[i].u \in Combined
  BY DEF Taken
<1>5. PICK t : t = [i \in 1..NumSamples |->
                      [r |-> s[i].r, u |-> Union(s[i].u, Percepts[q][e][s[i].r])]]
  OBVIOUS
<1>6. seen' = [seen EXCEPT !.left = seen.left \ {e}, !.samples = t]
  <2>1. seen' = [seen EXCEPT !.left = seen.left \ {e},
                             !.samples = [i \in DOMAIN seen.samples |->
                               [r |-> seen.samples[i].r,
                                u |-> Union(seen.samples[i].u,
                                            Percepts[quest.q][e][seen.samples[i].r])]]]
    BY DEF Perceive
  <2> QED
    BY <1>2, <1>3, <1>4, <1>5, <2>1
<1>7. \A i \in 1..NumSamples :
        /\ t[i].r = s[i].r /\ t[i].u = Union(s[i].u, Percepts[q][e][s[i].r])
        /\ t[i] \in Taken
  <2> SUFFICES ASSUME NEW i \in 1..NumSamples
               PROVE  /\ t[i].r = s[i].r /\ t[i].u = Union(s[i].u, Percepts[q][e][s[i].r])
                      /\ t[i] \in Taken
    OBVIOUS
  <2>1. PICK b : b = Percepts[q][e][s[i].r]
    OBVIOUS
  <2>2. b.p \in Nat /\ \A k \in Coordinates : b.g[k] \in Int
    BY <1>3, <1>4, <2>1, PerceptsType
  <2>3. PICK u \in Combined : u = Union(s[i].u, b)
    BY <1>4, <2>2, UnionType
  <2>4. t[i] = [r |-> s[i].r, u |-> u]
    BY <1>5, <2>1, <2>3
  <2> QED
    BY <1>4, <2>1, <2>3, <2>4 DEF Taken
<1>8. t \in [1..NumSamples -> Taken]
  BY <1>5, <1>7
<1>9. /\ seen \in [around : SUBSET Encounters, left : SUBSET Encounters,
                   samples : {<< >>} \cup [1..NumSamples -> Taken],
                   velocity : {<< >>} \cup Whole]
      /\ IsFiniteSet(seen.around) /\ seen.left \subseteq seen.around
  BY DEF SeenOK, TypeOK
<1>10. /\ seen'.around = seen.around /\ seen'.left = seen.left \ {e}
       /\ seen'.samples = t /\ seen'.velocity = seen.velocity
       /\ seen' \in [around : SUBSET Encounters, left : SUBSET Encounters,
                     samples : {<< >>} \cup [1..NumSamples -> Taken],
                     velocity : {<< >>} \cup Whole]
  BY <1>6, <1>8, <1>9
<1>11. SeenOK'
  BY <1>1, <1>3, <1>8, <1>9, <1>10 DEF SeenOK
<1>12. TypeOK'
  BY <1>1, <1>9, <1>10 DEF TypeOK
<1>13. ProgressMeasured'
  BY <1>1 DEF ProgressMeasured
<1>14. PICK met : met = seen.around \ seen.left
  OBVIOUS
<1>15. /\ met \subseteq Encounters /\ IsFiniteSet(met) /\ e \notin met
       /\ seen'.around \ seen'.left = met \cup {e}
  <2>1. met \in SUBSET seen.around
    BY <1>14
  <2>2. IsFiniteSet(met)
    BY <1>9, <2>1, FS_Subset
  <2> QED
    BY <1>1, <1>9, <1>10, <1>14, <2>2
<1>16. DOMAIN t = 1..NumSamples
  BY <1>5
<1>17. UnionExact'
  <2>1. ASSUME NEW i \in 1..NumSamples
        PROVE  Exact(t[i].u, met \cup {e}, q, t[i].r)
    <3>1. PICK r \in Trajectory, u \in Combined : r = s[i].r /\ u = s[i].u
      BY <1>4
    <3>2. \A d \in met \cup {e} :
            Percepts[q][d][r].p \in Nat /\ \A k \in Coordinates : Percepts[q][d][r].g[k] \in Int
      BY <1>3, <1>15, PerceptsType
    <3>3. Exact(u, met, q, r)
      BY <1>2, <1>3, <1>4, <1>14, <3>1, UnionExactIs
    <3>4. Exact(Union(u, Percepts[q][e][r]), met \cup {e}, q, r)
      BY <1>15, <3>2, <3>3, UnionIsExact
    <3> QED
      BY <1>7, <3>1, <3>4
  <2>2. \A i \in DOMAIN seen'.samples :
          Exact(seen'.samples[i].u, seen'.around \ seen'.left, quest'.q, seen'.samples[i].r)
    <3> SUFFICES ASSUME NEW i \in DOMAIN seen'.samples
                 PROVE  Exact(seen'.samples[i].u, seen'.around \ seen'.left, quest'.q,
                              seen'.samples[i].r)
      OBVIOUS
    <3>1. i \in 1..NumSamples /\ seen'.samples[i] = t[i]
      BY <1>10, <1>16
    <3>2. quest'.q = q
      BY <1>1, <1>3
    <3> QED
      BY <1>15, <2>1, <3>1, <3>2
  <2>3. UnionExact' <=> \A i \in DOMAIN seen'.samples :
          Exact(seen'.samples[i].u, seen'.around \ seen'.left, quest'.q, seen'.samples[i].r)
    BY DEF UnionExact, Exact
  <2> QED
    BY <2>2, <2>3
<1>18. ProbabilityInRange'
  <2>1. ASSUME q.uy <= q.ux, NEW i \in 1..NumSamples
        PROVE  t[i].u.p \in 0..t[i].u.over
    <3>1. PICK u \in Combined : u = s[i].u /\ u.p \in 0..u.over
      BY <1>2, <1>3, <1>4, <2>1 DEF ProbabilityInRange
    <3>2. PICK b : b = Percepts[q][e][s[i].r]
      OBVIOUS
    <3>3. b.p \in Nat /\ b.p <= One /\ \A k \in Coordinates : b.g[k] \in Int
      BY <1>3, <1>4, <2>1, <3>2, PerceptsType
    <3>4. Union(u, b).p \in 0..Union(u, b).over
      BY <3>1, <3>3, UnionInRange
    <3> QED
      BY <1>7, <3>1, <3>2, <3>4
  <2> QED
    BY <1>1, <1>3, <1>10, <1>16, <2>1 DEF ProbabilityInRange
<1> QED
  BY <1>11, <1>12, <1>13, <1>17, <1>18

\* The samples stay as they are while a velocity is solved for.
LEMMA SteerKeeps ==
  ASSUME IInv, Steer
  PROVE  IInv'
<1> USE DEF IInv
<1>1. seen # Idle /\ UNCHANGED <<agent, pos, quest, anchor>>
  BY DEF Steer
<1>2. PICK v \in Whole : seen' = [seen EXCEPT !.velocity = v]
  <2>1. PICK local \in {Solve(seen.samples)} : \E pushed \in {Pushed(Solved(local))} :
          seen' = [seen EXCEPT !.velocity = Clamped(pushed)]
    BY DEF Steer
  <2>2. PICK pushed \in {Pushed(Solved(local))} : seen' = [seen EXCEPT !.velocity = Clamped(pushed)]
    BY <2>1
  <2>3. pushed = Pushed(Solved(Solve(seen.samples)))
    OBVIOUS
  <2>4. Clamped(pushed) \in Whole
    BY <1>1, <2>3, VelocityType
  <2> QED
    BY <2>2, <2>4
<1>3. /\ seen \in [around : SUBSET Encounters, left : SUBSET Encounters,
                   samples : {<< >>} \cup [1..NumSamples -> Taken],
                   velocity : {<< >>} \cup Whole]
      /\ seen.samples \in [1..NumSamples -> Taken]
  BY <1>1 DEF SeenOK
<1>4. /\ seen'.around = seen.around /\ seen'.left = seen.left /\ seen'.samples = seen.samples
      /\ seen' \in [around : SUBSET Encounters, left : SUBSET Encounters,
                    samples : {<< >>} \cup [1..NumSamples -> Taken],
                    velocity : {<< >>} \cup Whole]
  BY <1>2, <1>3
<1>5. SeenOK'
  BY <1>1, <1>3, <1>4 DEF SeenOK
<1>6. TypeOK'
  BY <1>1, <1>4 DEF TypeOK
<1>7. ProgressMeasured'
  BY <1>1 DEF ProgressMeasured
<1>8. UnionExact'
  <2>1. UnionExact' <=> \A i \in DOMAIN seen'.samples :
          Exact(seen'.samples[i].u, seen'.around \ seen'.left, quest'.q, seen'.samples[i].r)
    BY DEF UnionExact, Exact
  <2> QED
    BY <1>1, <1>4, <2>1, UnionExactIs
<1>9. ProbabilityInRange'
  BY <1>1, <1>4 DEF ProbabilityInRange
<1> QED
  BY <1>5, <1>6, <1>7, <1>8, <1>9

\* What TypeOK says of the state of the agent.
AgentOK(a) ==
  a \in [orientation : [x : -1..1, y : -1..1], stuck : 0..Threshold - 1,
         displacement : [x : Int, y : Int], detour : 0..Duration, side : Sides]

LEMMA SgnType ==
  ASSUME NEW v \in Whole
  PROVE  Vec(Sgn(v.x), Sgn(v.y)) \in [x : -1..1, y : -1..1]
BY DEF Sgn

\* The end of a step: the way gone is measured from the new anchor as well.
LEMMA AdvanceKeeps ==
  ASSUME IInv, NEW next, NEW movement \in Whole, NEW from, Advance(next, movement, from),
         AgentOK(next), Free(pos, movement) => from \in Area,
         next.displacement = Plus(Plus(pos, movement), Times(-1, from))
  PROVE  IInv'
<1> USE DEF IInv
<1>1. seen' = Idle /\ quest' = quest
  BY DEF Advance
<1>2. SeenOK' /\ UnionExact' /\ ProbabilityInRange'
  BY <1>1, EndOfStep
<1>3. seen'.left \subseteq seen'.around /\ seen'.around \subseteq Encounters
  BY <1>1, IdleIs
<1>4. CASE Free(pos, movement)
  <2>1. agent' = next /\ pos' = Plus(pos, movement) /\ anchor' = from
    BY <1>4 DEF Advance
  <2>2. pos' \in Area /\ anchor' \in Area
    BY <1>4, <2>1 DEF Free
  <2>3. TypeOK'
    BY <1>1, <1>3, <2>1, <2>2 DEF TypeOK, AgentOK
  <2>4. ProgressMeasured'
    BY <2>1 DEF ProgressMeasured
  <2> QED
    BY <1>2, <2>3, <2>4
<1>5. CASE ~Free(pos, movement)
  <2>1. UNCHANGED <<agent, pos, anchor>>
    BY <1>5 DEF Advance
  <2>2. TypeOK'
    BY <1>1, <1>3, <2>1 DEF TypeOK
  <2>3. ProgressMeasured'
    BY <2>1 DEF ProgressMeasured
  <2> QED
    BY <1>2, <2>2, <2>3
<1> QED
  BY <1>4, <1>5

\* Adding a movement to the displacement, or beginning a new window.
LEMMA WindowGoesOn ==
  ASSUME NEW p \in Whole, NEW a \in Whole, NEW m \in Whole
  PROVE  /\ Plus(Plus(p, Times(-1, a)), m) = Plus(Plus(p, m), Times(-1, a))
         /\ Plus(Zero, m) = Plus(Plus(p, m), Times(-1, p))
         /\ Zero = Plus(Plus(p, m), Times(-1, Plus(p, m)))
         /\ Plus(Zero, m) \in Whole
BY DEF Plus, Times, Zero

LEMMA WhereItIs ==
  ASSUME TypeOK
  PROVE  /\ pos \in Whole /\ anchor \in Whole /\ Desired \in Whole
         /\ agent.displacement \in Whole /\ agent.orientation \in Whole
         /\ agent.stuck \in 0..Threshold - 1 /\ agent.detour \in 0..Duration
         /\ agent.side \in Sides /\ agent.orientation \in [x : -1..1, y : -1..1]
         /\ AgentOK(agent)
<1>1. AgentOK(agent)
  BY DEF TypeOK, AgentOK
<1>2. pos \in Whole /\ anchor \in Whole /\ Desired \in Whole
  BY DriverConstants DEF TypeOK, Desired
<1>3. agent.orientation \in Whole
  BY <1>1 DEF AgentOK
<1> QED
  BY <1>1, <1>2, <1>3 DEF AgentOK

LEMMA DetourType ==
  ASSUME TypeOK
  PROVE  DetourMovement(agent.side) \in Whole /\ DetourSide \in Sides
<1>1. agent.side \in Sides /\ -agent.side \in Sides
  BY WhereItIs DEF Sides
<1>2. Vec(-Desired.y, Desired.x) \in Whole /\ Desired \in Whole
  BY WhereItIs
<1>3. ASSUME NEW side \in Sides
      PROVE  DetourTo(side) \in Whole
  <2>1. side * Detour.y \in Int /\ Detour.x \in Int
    BY DriverConstants DEF Sides
  <2>2. Times(Detour.x, Desired) \in Whole
    BY <1>2, <2>1, TimesType
  <2>3. Times(side * Detour.y, Vec(-Desired.y, Desired.x)) \in Whole
    BY <1>2, <2>1, TimesType
  <2> QED
    BY <2>2, <2>3, PlusType DEF DetourTo
<1>4. Times(Creep, Desired) \in Whole
  BY <1>2, DriverConstants, TimesType
<1> QED
  BY <1>1, <1>3, <1>4 DEF DetourMovement, DetourSide

\* A step of a detour counts as movement, its end begins a new window.
LEMMA OnDetourKeeps ==
  ASSUME IInv, OnDetour
  PROVE  IInv'
<1>0. TypeOK /\ ProgressMeasured
  BY DEF IInv
<1>1. PICK movement \in Whole : movement = DetourMovement(agent.side)
  BY <1>0, DetourType
<1> DEFINE over == DetourOver(TimeLeft)
<1>3. PICK from : from = IF over THEN Plus(pos, movement) ELSE anchor
  OBVIOUS
<1>4. PICK next : next = [orientation |-> Vec(Sgn(movement.x), Sgn(movement.y)),
                          stuck |-> IF over THEN 0 ELSE agent.stuck,
                          displacement |-> Covered(over, movement),
                          detour |-> IF over THEN 0 ELSE TimeLeft,
                          side |-> DetourSide]
  OBVIOUS
<1>5. Advance(next, movement, from)
  BY <1>1, <1>3, <1>4 DEF OnDetour
<1>6. next.displacement = Plus(Plus(pos, movement), Times(-1, from)) /\ next.displacement \in Whole
  <2>1. next.displacement = Covered(over, movement)
    BY <1>4
  <2>2. CASE over
    <3>1. Covered(over, movement) = Zero /\ from = Plus(pos, movement)
      BY <1>3, <2>2 DEF Covered
    <3>2. Zero \in Whole
      BY DEF Zero
    <3> QED
      BY <1>0, <2>1, <3>1, <3>2, WhereItIs, WindowGoesOn
  <2>3. CASE ~over
    <3>1. Covered(over, movement) = Plus(agent.displacement, movement) /\ from = anchor
      BY <1>3, <2>3 DEF Covered
    <3>2. agent.displacement = Plus(pos, Times(-1, anchor))
      BY <1>0 DEF ProgressMeasured
    <3> QED
      BY <1>0, <2>1, <3>1, <3>2, WhereItIs, WindowGoesOn, PlusType
  <2> QED
    BY <2>2, <2>3
<1>7. Free(pos, movement) => from \in Area
  BY <1>0, <1>3 DEF Free, TypeOK
<1>8. AgentOK(next)
  <2>1. (IF over THEN 0 ELSE agent.stuck) \in 0..Threshold - 1
    BY <1>0, WhereItIs, DriverConstants
  <2>2. (IF over THEN 0 ELSE TimeLeft) \in 0..Duration
    <3>1. ~over => TimeLeft > 0
      BY <1>0, WhereItIs, DriverConstants DEF DetourOver, TimeLeft
    <3>2. TimeLeft \in Int /\ TimeLeft <= Duration
      BY <1>0, WhereItIs, DriverConstants DEF TimeLeft
    <3> QED
      BY <3>1, <3>2, DriverConstants
  <2>3. DetourSide \in Sides
    BY <1>0, DetourType
  <2>4. Covered(over, movement) \in Whole
    BY <1>4, <1>6
  <2> QED
    BY <1>4, <2>1, <2>2, <2>3, <2>4, SgnType DEF AgentOK
<1> QED
  BY <1>5, <1>6, <1>7, <1>8, AdvanceKeeps

LEMMA OrientationType ==
  ASSUME TypeOK
  PROVE  Orientation \in [x : -1..1, y : -1..1] /\ Orientation \in Whole
<1>1. Orientation \in [x : -1..1, y : -1..1]
  BY WhereItIs DEF Orientation
<1> QED
  BY <1>1

LEMMA SmoothedType ==
  ASSUME TypeOK, NEW v \in Whole
  PROVE  Smoothed(v) \in Whole
<1>1. PICK o \in Whole : o = Orientation
  BY OrientationType
<1>2. PICK w \in Whole : w = Plus(v, Times(Norm(v), Orientation))
  <2>1. Times(Norm(v), o) \in Whole
    BY NormType, TimesType
  <2> QED
    BY <1>1, <2>1, PlusType
<1>3. Quot(w.x, 2) \in Int /\ Quot(w.y, 2) \in Int
  BY QuotType
<1>4. Smoothed(v) = Clamped(Vec(Quot(w.x, 2), Quot(w.y, 2)))
  BY <1>2 DEF Smoothed
<1> QED
  BY <1>3, <1>4, ClampedType

\* A step on foot counts as movement, progress begins a new window.
LEMMA DriveKeeps ==
  ASSUME IInv, Drive
  PROVE  IInv'
<1>0. TypeOK /\ ProgressMeasured /\ SeenOK
  BY DEF IInv
<1>1. seen.velocity \in Whole
  BY <1>0 DEF Drive, SeenOK
<1>2. PICK movement \in Whole : movement = Smoothed(seen.velocity)
  BY <1>0, <1>1, SmoothedType
<1> DEFINE progressed == Progressed
<1>4. PICK time \in Int : time = agent.stuck + Dt /\ time >= 0
  BY <1>0, WhereItIs, DriverConstants
<1> DEFINE stuck == ~progressed /\ time >= Threshold
<1>6. PICK from : from = IF progressed THEN pos ELSE anchor
  OBVIOUS
<1>7. PICK side \in (IF stuck THEN Sides ELSE {agent.side}) :
        Advance([orientation |-> IF movement = Zero THEN Orientation
                                 ELSE Vec(Sgn(movement.x), Sgn(movement.y)),
                 stuck |-> IF progressed \/ stuck THEN 0 ELSE time,
                 displacement |-> Plus(IF progressed THEN Zero ELSE agent.displacement, movement),
                 detour |-> IF stuck THEN Duration ELSE agent.detour,
                 side |-> side], movement, from)
  BY <1>2, <1>4, <1>6 DEF Drive
<1>8. PICK next : next = [orientation |-> IF movement = Zero THEN Orientation
                                          ELSE Vec(Sgn(movement.x), Sgn(movement.y)),
                 stuck |-> IF progressed \/ stuck THEN 0 ELSE time,
                 displacement |-> Plus(IF progressed THEN Zero ELSE agent.displacement, movement),
                 detour |-> IF stuck THEN Duration ELSE agent.detour,
                 side |-> side]
  OBVIOUS
<1>9. Advance(next, movement, from)
  BY <1>7, <1>8
<1>10. next.displacement = Plus(Plus(pos, movement), Times(-1, from)) /\ next.displacement \in Whole
  <2>1. CASE progressed
    <3>1. next.displacement = Plus(Zero, movement) /\ from = pos
      BY <1>6, <1>8, <2>1
    <3> QED
      BY <1>0, <3>1, WhereItIs, WindowGoesOn
  <2>2. CASE ~progressed
    <3>1. next.displacement = Plus(agent.displacement, movement) /\ from = anchor
      BY <1>6, <1>8, <2>2
    <3>2. agent.displacement = Plus(pos, Times(-1, anchor))
      BY <1>0 DEF ProgressMeasured
    <3> QED
      BY <1>0, <3>1, <3>2, WhereItIs, WindowGoesOn, PlusType
  <2> QED
    BY <2>1, <2>2
<1>11. from \in Area
  BY <1>0, <1>6 DEF TypeOK
<1>12. AgentOK(next)
  <2>1. next.orientation \in [x : -1..1, y : -1..1]
    <3>1. Orientation \in [x : -1..1, y : -1..1]
      BY <1>0, WhereItIs DEF Orientation
    <3> QED
      BY <1>8, <3>1, SgnType
  <2>2. next.stuck \in 0..Threshold - 1
    <3>1. 0 \in 0..Threshold - 1
      BY DriverConstants
    <3>2. ~(progressed \/ stuck) => time \in 0..Threshold - 1
      BY <1>4, DriverConstants
    <3> QED
      BY <1>8, <3>1, <3>2
  <2>3. next.detour \in 0..Duration
    <3>1. Duration \in 0..Duration
      BY DriverConstants
    <3> QED
      BY <1>0, <1>8, <3>1, WhereItIs
  <2>4. next.side \in Sides
    BY <1>0, <1>7, <1>8, WhereItIs
  <2>5. next = [orientation |-> next.orientation, stuck |-> next.stuck,
                displacement |-> next.displacement, detour |-> next.detour, side |-> next.side]
    BY <1>8
  <2> QED
    BY <1>10, <2>1, <2>2, <2>3, <2>4, <2>5 DEF AgentOK
<1> QED
  BY <1>9, <1>10, <1>11, <1>12, AdvanceKeeps

LEMMA NoRouteKeeps ==
  ASSUME IInv, NoRoute
  PROVE  IInv'
<1> USE DEF IInv
<1>1. /\ seen' = Idle /\ quest' = quest /\ pos' = pos /\ anchor' = pos
      /\ agent' = [orientation |-> Orientation, stuck |-> 0, displacement |-> Zero,
                   detour |-> 0, side |-> 1]
  BY DEF NoRoute
<1>2. SeenOK' /\ UnionExact' /\ ProbabilityInRange'
  BY <1>1, EndOfStep
<1>3. AgentOK(agent')
  <2>1. Orientation \in [x : -1..1, y : -1..1]
    BY WhereItIs DEF Orientation
  <2>2. Zero \in [x : Int, y : Int] /\ 0 \in 0..Threshold - 1 /\ 0 \in 0..Duration /\ 1 \in Sides
    BY DriverConstants DEF Zero, Sides
  <2> QED
    BY <1>1, <2>1, <2>2 DEF AgentOK
<1>4. TypeOK'
  BY <1>1, <1>3, IdleIs DEF TypeOK, AgentOK
<1>5. ProgressMeasured'
  <2>1. Zero = Plus(pos, Times(-1, pos))
    BY WhereItIs DEF Plus, Times, Zero
  <2>2. agent'.displacement = Zero
    BY <1>1
  <2> QED
    BY <1>1, <2>1, <2>2 DEF ProgressMeasured
<1> QED
  BY <1>2, <1>4, <1>5

LEMMA RerouteKeeps ==
  ASSUME IInv, Reroute
  PROVE  IInv'
<1> USE DEF IInv
<1>1. seen = Idle /\ UNCHANGED <<agent, pos, seen, anchor>>
  BY DEF Reroute
<1>2. PICK d \in Ways, r \in BOOLEAN : quest' = [quest EXCEPT !.desired = d, !.routed = r]
  BY DEF Reroute
<1>3. quest \in [q : Uncertainty, desired : Ways, routed : BOOLEAN] /\ Accepted(quest.q)
  BY DEF TypeOK, SeenOK
<1>4. quest' \in [q : Uncertainty, desired : Ways, routed : BOOLEAN] /\ quest'.q = quest.q
  BY <1>2, <1>3
<1>5. TypeOK'
  BY <1>1, <1>4 DEF TypeOK
<1>6. SeenOK'
  BY <1>1, <1>3, <1>4 DEF SeenOK
<1>7. ProgressMeasured'
  BY <1>1 DEF ProgressMeasured
<1>8. DOMAIN seen'.samples = {}
  BY <1>1, IdleIs
<1>9. UnionExact' /\ ProbabilityInRange'
  BY <1>8 DEF UnionExact, ProbabilityInRange
<1> QED
  BY <1>5, <1>6, <1>7, <1>9

LEMMA InitOK ==
  ASSUME Init
  PROVE  IInv
<1>1. /\ agent = [orientation |-> Zero, stuck |-> 0, displacement |-> Zero,
                  detour |-> 0, side |-> 1]
      /\ pos \in Area /\ anchor = pos /\ seen = Idle
      /\ quest \in [q : {q \in Uncertainty : Accepted(q)}, desired : Ways, routed : BOOLEAN]
  BY DEF Init
<1>2. AgentOK(agent)
  <2>1. Zero \in [x : -1..1, y : -1..1] /\ Zero \in [x : Int, y : Int] /\ 1 \in Sides
        /\ 0 \in 0..Threshold - 1 /\ 0 \in 0..Duration
    BY DriverConstants DEF Zero, Sides
  <2> QED
    BY <1>1, <2>1 DEF AgentOK
<1>3. quest \in [q : Uncertainty, desired : Ways, routed : BOOLEAN] /\ Accepted(quest.q)
  BY <1>1
<1>4. TypeOK
  BY <1>1, <1>2, <1>3, IdleIs DEF TypeOK, AgentOK
<1>5. SeenOK
  BY <1>1, <1>3, IdleIs, FS_EmptySet DEF SeenOK
<1>6. ProgressMeasured
  <2>1. pos \in Whole
    BY <1>1, DriverConstants
  <2>2. Zero = Plus(pos, Times(-1, pos))
    BY <2>1 DEF Plus, Times, Zero
  <2> QED
    BY <1>1, <2>2 DEF ProgressMeasured
<1>7. DOMAIN seen.samples = {}
  BY <1>1, IdleIs
<1>8. UnionExact /\ ProbabilityInRange
  BY <1>7 DEF UnionExact, ProbabilityInRange
<1> QED
  BY <1>4, <1>5, <1>6, <1>8 DEF IInv

LEMMA StutterKeeps ==
  ASSUME IInv, UNCHANGED vars
  PROVE  IInv'
<1>1. agent' = agent /\ pos' = pos /\ seen' = seen /\ quest' = quest /\ anchor' = anchor
  BY DEF vars
<1> QED
  <2>1. TypeOK' /\ ProgressMeasured'
    BY <1>1 DEF IInv, TypeOK, ProgressMeasured
  <2>2. SeenOK'
    BY <1>1 DEF IInv, SeenOK
  <2>3. UnionExact'
    <3>1. UnionExact' <=> \A i \in DOMAIN seen'.samples :
            Exact(seen'.samples[i].u, seen'.around \ seen'.left, quest'.q, seen'.samples[i].r)
      BY DEF UnionExact, Exact
    <3> QED
      BY <1>1, <3>1, UnionExactIs DEF IInv
  <2>4. ProbabilityInRange'
    BY <1>1 DEF IInv, ProbabilityInRange
  <2> QED
    BY <2>1, <2>2, <2>3, <2>4 DEF IInv

\* Every step keeps the invariant.
LEMMA NextKeeps ==
  ASSUME IInv, [Next]_vars
  PROVE  IInv'
<1>1. CASE StartStep
  BY <1>1, StartStepKeeps
<1>2. CASE NoRoute
  BY <1>2, NoRouteKeeps
<1>3. ASSUME NEW e \in Encounters, Perceive(e)
      PROVE  IInv'
  BY <1>3, PerceiveKeeps
<1>4. CASE Steer
  BY <1>4, SteerKeeps
<1>5. CASE OnDetour
  BY <1>5, OnDetourKeeps
<1>6. CASE Drive
  BY <1>6, DriveKeeps
<1>7. CASE Reroute
  BY <1>7, RerouteKeeps
<1>8. CASE UNCHANGED vars
  BY <1>8, StutterKeeps
<1> QED
  BY <1>1, <1>2, <1>3, <1>4, <1>5, <1>6, <1>7, <1>8 DEF Next, Begin, Act

\* The inductive invariant holds in every state: types, what has been seen of
\* the neighbors, the exact unions and the window of the displacement.
THEOREM Invariance == Spec => []IInv
<1>1. Init => IInv
  BY InitOK
<1>2. IInv /\ [Next]_vars => IInv'
  BY NextKeeps
<1> QED
  BY <1>1, <1>2, PTL DEF Spec

\* What an agent remembers of its way is true: the displacement by which the
\* model tells whether it is stuck is the way it has come since the window
\* began, over steps that failed and detours that ended.
THEOREM MemoryIsSound == Spec => []MemorySound
<1>1. IInv => MemorySound
  BY DEF IInv, MemorySound
<1> QED
  BY <1>1, Invariance, PTL

\* Whatever neighbors an agent meets and in whatever order, each sample holds
\* the probability that not all of them are missed, and its gradient.
THEOREM ProbabilityIsSound == Spec => []ProbabilitySound
<1>1. IInv => ProbabilitySound
  BY DEF IInv, ProbabilitySound
<1> QED
  BY <1>1, Invariance, PTL

-----------------------------------------------------------------------------
(* An encounter and its mirror image                                       *)

Flipped(v) == Vec(v.x, -v.y)
MirroredPoint(s) == [x |-> s.x, y |-> -s.y, t |-> s.t]

LEMMA AxisIs ==
  ASSUME NEW o \in Axes
  PROVE  /\ o \in Whole
         /\ \/ (o.x = 1 \/ o.x = -1) /\ o.y = 0
            \/ o.x = 0 /\ (o.y = 1 \/ o.y = -1)
BY DEF Axes

LEMMA OtherSideIs ==
  ASSUME NEW o \in Axes, NEW v \in Whole
  PROVE  OtherSide(o, v) = IF o.y = 0 THEN Vec(v.x, -v.y) ELSE Vec(-v.x, v.y)
<1>1. PICK x \in Int, y \in Int : x = v.x /\ y = v.y
  OBVIOUS
<1>2. PICK w \in Whole : w = TurnedBack(o, v)
  BY AxisIs, TurnedType
<1>3. OtherSide(o, v) = Vec(o.x * w.x - o.y * (-w.y), o.y * w.x + o.x * (-w.y))
  BY <1>2 DEF OtherSide, Turned
<1>4. w.x = o.x * x + o.y * y /\ w.y = o.x * y - o.y * x
  BY <1>1, <1>2 DEF TurnedBack
<1>5. CASE o.x = 1 /\ o.y = 0
  <2>1. w.x = x /\ w.y = y
    BY <1>4, <1>5
  <2> QED
    BY <1>1, <1>3, <1>5, <2>1
<1>6. CASE o.x = -1 /\ o.y = 0
  <2>1. w.x = -x /\ w.y = -y
    BY <1>4, <1>6
  <2> QED
    BY <1>1, <1>3, <1>6, <2>1
<1>7. CASE o.x = 0 /\ o.y = 1
  <2>1. w.x = y /\ w.y = -x
    BY <1>4, <1>7
  <2> QED
    BY <1>1, <1>3, <1>7, <2>1
<1>8. CASE o.x = 0 /\ o.y = -1
  <2>1. w.x = -y /\ w.y = x
    BY <1>4, <1>8
  <2> QED
    BY <1>1, <1>3, <1>8, <2>1
<1> QED
  BY <1>5, <1>6, <1>7, <1>8, AxisIs

\* Turning back along an axis and its mirror image.
LEMMA TurnsMirrored ==
  ASSUME NEW a \in Axes, NEW b \in Axes, NEW v \in Whole
  PROVE  /\ OtherSide(a, b) \in Axes
         /\ TurnedBack(OtherSide(a, b), OtherSide(a, v)) = Flipped(TurnedBack(b, v))
         /\ TurnedBack(a, Turned(OtherSide(a, b), Flipped(v)))
              = Flipped(TurnedBack(a, Turned(b, v)))
<1>1. PICK x \in Int, y \in Int : x = v.x /\ y = v.y
  OBVIOUS
<1>2. PICK p \in {-1, 0, 1}, q \in {-1, 0, 1} : p = b.x /\ q = b.y /\ b = Vec(p, q)
                                              /\ (p = 0 <=> q # 0)
  BY DEF Axes
<1>3. \A m \in {-1, 0, 1}, n \in {-1, 0, 1} : (m = 0 <=> n # 0) => Vec(m, n) \in Axes
  BY DEF Axes
<1>4. PICK w \in Whole : w = Turned(b, v) /\ w = Vec(p * x - q * y, q * x + p * y)
  <2>1. Turned(b, v) = Vec(p * x - q * y, q * x + p * y)
    BY <1>1, <1>2 DEF Turned
  <2>2. Turned(b, v) \in Whole
    BY AxisIs, TurnedType
  <2> QED
    BY <2>1, <2>2
<1>5. TurnedBack(b, v) = Vec(p * x + q * y, p * y - q * x)
  BY <1>1, <1>2 DEF TurnedBack
<1>6. CASE a.y = 0 /\ (a.x = 1 \/ a.x = -1)
  <2>1. OtherSide(a, b) = Vec(p, -q) /\ OtherSide(a, v) = Vec(x, -y)
    BY <1>1, <1>2, <1>6, AxisIs, OtherSideIs
  <2>2. OtherSide(a, b) \in Axes
    BY <1>2, <1>3, <2>1
  <2>3. TurnedBack(OtherSide(a, b), OtherSide(a, v)) = Vec(p * x + (-q) * (-y), p * (-y) - (-q) * x)
    BY <2>1 DEF TurnedBack
  <2>4. Turned(OtherSide(a, b), Flipped(v)) = Vec(p * x - (-q) * (-y), (-q) * x + p * (-y))
    BY <1>1, <2>1 DEF Turned, Flipped
  <2>5. /\ p * x + (-q) * (-y) = p * x + q * y /\ p * (-y) - (-q) * x = -(p * y - q * x)
        /\ p * x - (-q) * (-y) = w.x /\ (-q) * x + p * (-y) = -w.y
    BY <1>4
  <2>6. TurnedBack(a, Vec(w.x, -w.y)) = Flipped(TurnedBack(a, w))
    BY <1>6 DEF TurnedBack, Flipped
  <2> QED
    BY <1>4, <1>5, <2>2, <2>3, <2>4, <2>5, <2>6 DEF Flipped
<1>7. CASE a.x = 0 /\ (a.y = 1 \/ a.y = -1)
  <2>1. OtherSide(a, b) = Vec(-p, q) /\ OtherSide(a, v) = Vec(-x, y)
    BY <1>1, <1>2, <1>7, AxisIs, OtherSideIs
  <2>2. OtherSide(a, b) \in Axes
    BY <1>2, <1>3, <2>1
  <2>3. TurnedBack(OtherSide(a, b), OtherSide(a, v)) = Vec((-p) * (-x) + q * y, (-p) * y - q * (-x))
    BY <2>1 DEF TurnedBack
  <2>4. Turned(OtherSide(a, b), Flipped(v)) = Vec((-p) * x - q * (-y), q * x + (-p) * (-y))
    BY <1>1, <2>1 DEF Turned, Flipped
  <2>5. /\ (-p) * (-x) + q * y = p * x + q * y /\ (-p) * y - q * (-x) = -(p * y - q * x)
        /\ (-p) * x - q * (-y) = -w.x /\ q * x + (-p) * (-y) = w.y
    BY <1>4
  <2>6. TurnedBack(a, Vec(-w.x, w.y)) = Flipped(TurnedBack(a, w))
    BY <1>7 DEF TurnedBack, Flipped
  <2> QED
    BY <1>4, <1>5, <2>2, <2>3, <2>4, <2>5, <2>6 DEF Flipped
<1> QED
  BY <1>6, <1>7, AxisIs

LEMMA MirroredIs ==
  ASSUME NEW e \in Encounters
  PROVE  /\ Mirrored(e).a = e.a /\ Mirrored(e).rel = OtherSide(e.a, e.rel)
         /\ Mirrored(e).b = OtherSide(e.a, e.b) /\ Mirrored(e).speed = e.speed
         /\ Mirrored(e).radius = e.radius
BY DEF Mirrored

\* Seen from the neighbor the agent is on the other side.
LEMMA LocalMirrored ==
  ASSUME NEW s \in Point, NEW e \in Encounters
  PROVE  WarpLocal(MirroredPoint(s), Mirrored(e)) = Flipped(WarpLocal(s, e))
<1>1. PICK a \in Axes, b \in Axes, r \in Whole : a = e.a /\ b = e.b /\ r = e.rel
  BY EncounterType
<1>2. PICK v \in Whole : v = Vec(s.x, s.y)
  BY DEF Point
<1>3. Turned(a, s) = Turned(a, v) /\ Turned(a, MirroredPoint(s)) = Turned(a, Flipped(v))
  BY <1>2 DEF Turned, MirroredPoint, Flipped
<1>4. PICK w \in Whole : w = Turned(a, v)
  BY AxisIs, TurnedType
<1>5. Turned(a, Flipped(v)) = OtherSide(a, w)
  <2>1. CASE a.y = 0 /\ (a.x = 1 \/ a.x = -1)
    <3>1. OtherSide(a, w) = Vec(w.x, -w.y)
      BY <2>1, OtherSideIs
    <3> QED
      BY <1>4, <2>1, <3>1 DEF Turned, Flipped
  <2>2. CASE a.x = 0 /\ (a.y = 1 \/ a.y = -1)
    <3>1. OtherSide(a, w) = Vec(-w.x, w.y)
      BY <2>2, OtherSideIs
    <3> QED
      BY <1>4, <2>2, <3>1 DEF Turned, Flipped
  <2> QED
    BY <2>1, <2>2, AxisIs
<1>6. PICK z \in Whole : z = Plus(w, Times(-1, r))
  <2>1. Plus(w, Times(-1, r)) \in Whole
    BY DEF Plus, Times
  <2> QED
    BY <2>1
<1>7. Plus(OtherSide(a, w), Times(-1, OtherSide(a, r))) = OtherSide(a, z)
  <2>1. CASE a.y = 0
    <3>1. OtherSide(a, w) = Vec(w.x, -w.y) /\ OtherSide(a, r) = Vec(r.x, -r.y)
          /\ OtherSide(a, z) = Vec(z.x, -z.y)
      BY <2>1, OtherSideIs
    <3> QED
      BY <1>6, <3>1 DEF Plus, Times
  <2>2. CASE a.y # 0
    <3>1. OtherSide(a, w) = Vec(-w.x, w.y) /\ OtherSide(a, r) = Vec(-r.x, r.y)
          /\ OtherSide(a, z) = Vec(-z.x, z.y)
      BY <2>2, OtherSideIs
    <3> QED
      BY <1>6, <3>1 DEF Plus, Times
  <2> QED
    BY <2>1, <2>2
<1>8. WarpLocal(s, e) = TurnedBack(b, z)
  BY <1>1, <1>3, <1>4, <1>6 DEF WarpLocal
<1>9. WarpLocal(MirroredPoint(s), Mirrored(e)) = TurnedBack(OtherSide(a, b), OtherSide(a, z))
  <2>1. Mirrored(e).a = a /\ Mirrored(e).b = OtherSide(a, b) /\ Mirrored(e).rel = OtherSide(a, r)
    BY <1>1, MirroredIs
  <2> QED
    BY <1>3, <1>5, <1>7, <2>1 DEF WarpLocal
<1> QED
  BY <1>8, <1>9, TurnsMirrored

LEMMA FlippedType ==
  ASSUME NEW v \in Whole
  PROVE  Flipped(v) \in Whole /\ Flipped(v).x = v.x /\ Flipped(v).y = -v.y
BY DEF Flipped

\* The point of the field is the mirror image.
LEMMA ForwardMirrored ==
  ASSUME NEW s \in Point, NEW e \in Encounters, NEW q \in Uncertainty, Accepted(q)
  PROVE  /\ BeforeUncertainty(MirroredPoint(s), Mirrored(e)) = Flipped(BeforeUncertainty(s, e))
         /\ ComposeForward(MirroredPoint(s), Mirrored(e), q) = Flipped(ComposeForward(s, e, q))
         /\ Spread(MirroredPoint(s), q) = Spread(s, q)
<1>1. PICK l \in Whole : l = WarpLocal(s, e)
  BY ForwardType
<1>2. PICK c \in Int : c = e.speed * s.t
  BY EncounterType DEF Point
<1>3. PICK v \in Whole : v = Vec(l.x - c, l.y)
  <2>1. l.x \in Int /\ l.y \in Int
    OBVIOUS
  <2>2. PICK i \in Int, j \in Int : i = l.x - c /\ j = l.y
    BY <2>1
  <2>3. Vec(i, j) \in Whole
    OBVIOUS
  <2> QED
    BY <2>2, <2>3
<1>4. /\ WarpVelocity(l, s, e) = v
      /\ WarpVelocity(Flipped(l), MirroredPoint(s), Mirrored(e)) = Flipped(v)
  <2>1. MirroredPoint(s).t = s.t /\ Mirrored(e).speed = e.speed
    BY MirroredIs DEF MirroredPoint
  <2> QED
    BY <1>2, <1>3, <2>1 DEF WarpVelocity, Flipped
<1>5. PICK n \in Nat \ {0} : n = e.radius /\ n = Mirrored(e).radius
  BY EncounterType, MirroredIs
<1>6. PICK i \in Int, j \in Int : i = Sub * v.x /\ j = Sub * v.y /\ -j = Sub * (-v.y)
  <2>1. PICK k \in Nat, y \in Int : k = Sub /\ y = v.y
    BY Constants
  <2>2. k * (-y) = -(k * y) /\ k * v.x \in Int /\ k * y \in Int
    BY <2>1
  <2> QED
    BY <2>1, <2>2
<1>7. PICK w \in Whole : w = Vec(Quot(i, n), Quot(j, n))
  BY QuotType
<1>8. Quot(-j, n) = -Quot(j, n)
  BY QuotType
<1>9. BeforeUncertainty(s, e) = w
  BY <1>1, <1>4, <1>5, <1>6, <1>7 DEF BeforeUncertainty, WarpRadius
<1>10. BeforeUncertainty(MirroredPoint(s), Mirrored(e)) = Flipped(w)
  <2>1. WarpLocal(MirroredPoint(s), Mirrored(e)) = Flipped(l)
    BY <1>1, LocalMirrored
  <2>2. BeforeUncertainty(MirroredPoint(s), Mirrored(e)) = WarpRadius(Flipped(v), Mirrored(e))
    BY <1>4, <2>1 DEF BeforeUncertainty
  <2>3. WarpRadius(Flipped(v), Mirrored(e)) = Vec(Quot(i, n), Quot(-j, n))
    BY <1>5, <1>6 DEF WarpRadius, Flipped
  <2> QED
    BY <1>7, <1>8, <2>2, <2>3 DEF Flipped
<1>11. Spread(MirroredPoint(s), q) = Spread(s, q)
  BY DEF Spread, MirroredPoint
<1>12. PICK m \in Nat \ {0}, u \in Nat \ {0} : m = Spread(s, q) /\ u = 1 + q.uy
  BY UncertaintyType
<1>13. PICK h \in Int : h = w.y * u /\ -h = (-w.y) * u
  <2>1. PICK y \in Int : y = w.y
    OBVIOUS
  <2>2. (-y) * u = -(y * u) /\ y * u \in Int
    OBVIOUS
  <2> QED
    BY <2>1, <2>2
<1>14. Quot(-h, m) = -Quot(h, m)
  BY QuotType
<1>15. ComposeForward(s, e, q) = Vec(Quot(w.x, m * (1 + q.ux)), Quot(h, m))
  BY <1>9, <1>12, <1>13 DEF ComposeForward
<1>16. ComposeForward(MirroredPoint(s), Mirrored(e), q)
         = Vec(Quot(w.x, m * (1 + q.ux)), Quot(-h, m))
  BY <1>10, <1>11, <1>12, <1>13, FlippedType DEF ComposeForward
<1> QED
  BY <1>9, <1>10, <1>11, <1>14, <1>15, <1>16 DEF Flipped

\* The gradient handed back is the mirror image.
LEMMA GradientMirrored ==
  ASSUME NEW s \in Point, NEW e \in Encounters, NEW q \in Uncertainty, Accepted(q),
         NEW grad \in Whole
  PROVE  ComposeGradientInverse(Flipped(grad), MirroredPoint(s), Mirrored(e), q)
           = MirroredPoint(ComposeGradientInverse(grad, s, e, q))
<1>1. PICK m \in Nat \ {0}, n \in Nat \ {0}, u \in Nat \ {0} :
        m = Spread(s, q) /\ n = 1 + q.ux /\ u = 1 + q.uy
  BY UncertaintyType
<1>2. PICK x \in Int : x = Quot(grad.x, n)
  BY QuotType
<1>3. PICK y \in Int : y = grad.y * u /\ -y = (-grad.y) * u
  <2>1. PICK k \in Int : k = grad.y
    OBVIOUS
  <2>2. (-k) * u = -(k * u) /\ k * u \in Int
    OBVIOUS
  <2> QED
    BY <2>1, <2>2
<1>4. PICK at \in Whole : at = BeforeUncertainty(s, e)
  BY ForwardType
<1>5. PICK c : c = at.x * x + at.y * y /\ c = at.x * x + (-at.y) * (-y)
  <2>1. PICK k \in Int : k = at.y
    OBVIOUS
  <2>2. (-k) * (-y) = k * y
    OBVIOUS
  <2> QED
    BY <2>1, <2>2
<1>6. PICK spreading : spreading = Quot(-q.lambda * c, Square(m))
  OBVIOUS
<1>7. PICK g \in Whole : g = Vec(Quot(x, m), Quot(y, m))
  BY QuotType
<1>8. Quot(-y, m) = -Quot(y, m)
  BY QuotType
<1>9. PICK a \in Axes, b \in Axes : a = e.a /\ b = e.b
  BY EncounterType
<1>10. PICK turned \in Whole : turned = TurnedBack(a, Turned(b, g))
  BY AxisIs, TurnedType
<1>11. TurnedBack(a, Turned(OtherSide(a, b), Flipped(g))) = Flipped(turned)
  BY <1>10, TurnsMirrored
<1>12. ComposeGradientInverse(grad, s, e, q)
         = [x |-> turned.x, y |-> turned.y, t |-> spreading - e.speed * g.x]
  BY <1>1, <1>2, <1>3, <1>4, <1>5, <1>6, <1>7, <1>9, <1>10 DEF ComposeGradientInverse
<1>13. ComposeGradientInverse(Flipped(grad), MirroredPoint(s), Mirrored(e), q)
         = [x |-> Flipped(turned).x, y |-> Flipped(turned).y, t |-> spreading - e.speed * g.x]
  <2>1. Flipped(grad).x = grad.x /\ Flipped(grad).y = -grad.y
    BY FlippedType
  <2>2. BeforeUncertainty(MirroredPoint(s), Mirrored(e)) = Flipped(at)
        /\ Spread(MirroredPoint(s), q) = m
    BY <1>1, <1>4, ForwardMirrored
  <2>3. Flipped(at).x = at.x /\ Flipped(at).y = -at.y
    BY FlippedType
  <2>4. Flipped(g) = Vec(Quot(x, m), Quot(-y, m)) /\ Flipped(g).x = g.x
    BY <1>7, <1>8 DEF Flipped
  <2>5. Mirrored(e).a = a /\ Mirrored(e).b = OtherSide(a, b) /\ Mirrored(e).speed = e.speed
    BY <1>9, MirroredIs
  <2>6. Vec(Quot(x, m), Quot(-y, m)).x = Flipped(g).x
    BY <2>4
  <2> QED
    BY <1>1, <1>2, <1>3, <1>5, <1>6, <1>7, <1>11, <2>1, <2>2, <2>3, <2>4, <2>5
       DEF ComposeGradientInverse
<1> QED
  BY <1>12, <1>13, FlippedType DEF MirroredPoint

\* An encounter and its mirror image are perceived alike.
LEMMA PerceivedMirrored ==
  ASSUME NEW s \in Point, NEW e \in Encounters, NEW q \in Uncertainty, Accepted(q)
  PROVE  Perceived(MirroredPoint(s), Mirrored(e), q)
           = [p |-> Perceived(s, e, q).p, g |-> MirroredPoint(Perceived(s, e, q).g)]
<1>1. PICK at \in Whole : at = ComposeForward(s, e, q)
  BY ForwardType
<1>2. PICK f : f = Sample(at.x, at.y)
  OBVIOUS
<1>3. PICK h : h = Sample(at.x, -at.y)
  OBVIOUS
<1>4. h.p = f.p /\ h.g = Flipped(f.g) /\ f.g \in Whole
  <2>1. at.x \in Int /\ at.y \in Int
    OBVIOUS
  <2>2. f.g \in Whole /\ h = [p |-> f.p, g |-> Vec(f.g.x, -f.g.y)]
    BY <1>2, <1>3, <2>1, SampleType
  <2> QED
    BY <2>2 DEF Flipped
<1>5. PICK p : p = ProbabilityScaled(f.p, s, q)
  OBVIOUS
<1>6. ProbabilityScaled(h.p, MirroredPoint(s), q) = p
  BY <1>4, <1>5, ForwardMirrored DEF ProbabilityScaled
<1>7. ComposeForward(MirroredPoint(s), Mirrored(e), q) = Vec(at.x, -at.y)
  BY <1>1, ForwardMirrored DEF Flipped
<1>8. Perceived(s, e, q) = IF p = 0 THEN [p |-> 0, g |-> [x |-> 0, y |-> 0, t |-> 0]]
                           ELSE [p |-> p, g |-> ComposeGradientInverse(f.g, s, e, q)]
  BY <1>1, <1>2, <1>5 DEF Perceived
<1>9. Perceived(MirroredPoint(s), Mirrored(e), q)
        = IF p = 0 THEN [p |-> 0, g |-> [x |-> 0, y |-> 0, t |-> 0]]
          ELSE [p |-> p, g |-> ComposeGradientInverse(h.g, MirroredPoint(s), Mirrored(e), q)]
  <2>1. Vec(at.x, -at.y).x = at.x /\ Vec(at.x, -at.y).y = -at.y
    BY DEF Vec
  <2> QED
    BY <1>3, <1>6, <1>7, <2>1 DEF Perceived
<1>10. MirroredPoint([x |-> 0, y |-> 0, t |-> 0]) = [x |-> 0, y |-> 0, t |-> 0]
  <2>1. PICK z \in Int : z = 0 /\ -z = z
    OBVIOUS
  <2> QED
    BY <2>1 DEF MirroredPoint
<1>11. ComposeGradientInverse(h.g, MirroredPoint(s), Mirrored(e), q)
         = MirroredPoint(ComposeGradientInverse(f.g, s, e, q))
  BY <1>4, GradientMirrored
<1> QED
  BY <1>8, <1>9, <1>10, <1>11

LEMMA HasNoSideIs ==
  ASSUME NEW q \in Uncertainty, Accepted(q), NEW e \in Encounters
  PROVE  HasNoSide[q][e]
<1>1. ASSUME NEW s \in Trajectory
      PROVE  /\ Perceived([s EXCEPT !.y = -@], Mirrored(e), q).p = Perceived(s, e, q).p
             /\ Perceived([s EXCEPT !.y = -@], Mirrored(e), q).g
                  = [Perceived(s, e, q).g EXCEPT !.y = -@]
  <2>1. s \in Point
    BY TrajectoryType
  <2>2. [s EXCEPT !.y = -@] = MirroredPoint(s)
    BY <2>1 DEF MirroredPoint, Point
  <2>3. PICK g \in Point : g = Perceived(s, e, q).g
    BY <2>1, PerceivedType
  <2>4. [g EXCEPT !.y = -@] = MirroredPoint(g)
    BY DEF MirroredPoint, Point
  <2> QED
    BY <2>1, <2>2, <2>3, <2>4, PerceivedMirrored
<1>2. \A s \in Trajectory :
        LET one == Perceived(s, e, q)
            other == Perceived([s EXCEPT !.y = -@], Mirrored(e), q)
        IN  other.p = one.p /\ other.g = [one.g EXCEPT !.y = -@]
  BY <1>1
<1> QED
  BY <1>2 DEF HasNoSide

-----------------------------------------------------------------------------
(* The gradient of a plane                                                 *)

\* Nothing is rounded for an encounter of the radius of the disk, when the
\* field neither spreads nor stretches along the way.
Unrounded(e, q) == q.lambda = 0 /\ q.ux = 0 /\ e.radius = Sub

\* The forward warp is then linear.
LEMMA ForwardUnrounded ==
  ASSUME NEW s \in Point, NEW e \in Encounters, NEW q \in Uncertainty, Accepted(q),
         Unrounded(e, q)
  PROVE  ComposeForward(s, e, q)
           = Vec(WarpLocal(s, e).x - e.speed * s.t, WarpLocal(s, e).y * (1 + q.uy))
<1>1. PICK l \in Whole : l = WarpLocal(s, e)
  BY ForwardType
<1>2. PICK c \in Int : c = e.speed * s.t
  BY EncounterType DEF Point
<1>3. PICK i \in Int, j \in Int : i = l.x - c /\ j = l.y
  <2>1. l.x \in Int /\ l.y \in Int
    OBVIOUS
  <2> QED
    BY <2>1
<1>4. WarpVelocity(l, s, e) = Vec(i, j)
  BY <1>2, <1>3 DEF WarpVelocity
<1>5. Quot(Sub * i, Sub) = i /\ Quot(Sub * j, Sub) = j
  BY QuotType, Constants
<1>6. BeforeUncertainty(s, e) = Vec(i, j)
  BY <1>1, <1>4, <1>5 DEF BeforeUncertainty, WarpRadius, Unrounded
<1>7. Spread(s, q) = 1
  <2>1. PICK m \in Int : m = Largest(s.t, 0)
    BY DEF Largest, Point
  <2> QED
    BY <2>1 DEF Spread, Unrounded
<1>8. PICK h \in Int : h = j * (1 + q.uy)
  BY UncertaintyType
<1>9. Quot(i, 1) = i /\ Quot(h, 1) = h
  <2>1. 1 \in Nat \ {0}
    OBVIOUS
  <2> QED
    BY <2>1, QuotType
<1>10. ComposeForward(s, e, q) = Vec(Quot(i, 1 * (1 + q.ux)), Quot(h, 1))
  BY <1>6, <1>7, <1>8 DEF ComposeForward
<1>11. 1 * (1 + q.ux) = 1
  BY DEF Unrounded
<1> QED
  BY <1>1, <1>2, <1>3, <1>8, <1>9, <1>10, <1>11

\* The gradient is then turned back, and moves with the neighbor in time.
LEMMA BackUnrounded ==
  ASSUME NEW s \in Point, NEW e \in Encounters, NEW q \in Uncertainty, Accepted(q),
         Unrounded(e, q), NEW grad \in Axes, NEW g \in Whole,
         g = Vec(grad.x, grad.y * (1 + q.uy))
  PROVE  ComposeGradientInverse(grad, s, e, q)
           = [x |-> TurnedBack(e.a, Turned(e.b, g)).x, y |-> TurnedBack(e.a, Turned(e.b, g)).y,
              t |-> -(e.speed * g.x)]
<1>1. Spread(s, q) = 1 /\ 1 + q.ux = 1
  <2>1. PICK m \in Int : m = Largest(s.t, 0)
    BY DEF Largest, Point
  <2> QED
    BY <2>1 DEF Spread, Unrounded
<1>2. PICK x \in Int, y \in Int : x = g.x /\ y = g.y
  OBVIOUS
<1>3. Quot(x, 1) = x /\ Quot(y, 1) = y
  <2>1. 1 \in Nat \ {0}
    OBVIOUS
  <2> QED
    BY <2>1, QuotType
<1>4. PICK at \in Whole : at = BeforeUncertainty(s, e)
  BY ForwardType
<1>5. PICK c \in Int : c = at.x * x + at.y * y
  <2>1. PICK k \in Int, l \in Int : k = at.x /\ l = at.y
    OBVIOUS
  <2>2. k * x + l * y \in Int
    OBVIOUS
  <2> QED
    BY <2>1, <2>2
<1>6. Quot(-q.lambda * c, Square(1)) = 0
  <2>1. -q.lambda * c = 0
    BY DEF Unrounded
  <2>2. Square(1) = 1
    BY DEF Square
  <2>3. Quot(0, 1) = 0
    <3>1. 1 \in Nat \ {0} /\ 0 \in Int
      OBVIOUS
    <3> QED
      BY <3>1, QuotType
  <2> QED
    BY <2>1, <2>2, <2>3
<1>7. grad.x = x /\ grad.y * (1 + q.uy) = y /\ Vec(x, y) = g
  BY <1>2
<1>8. ComposeGradientInverse(grad, s, e, q)
        = [x |-> TurnedBack(e.a, Turned(e.b, g)).x, y |-> TurnedBack(e.a, Turned(e.b, g)).y,
           t |-> 0 - e.speed * x]
  BY <1>1, <1>3, <1>4, <1>5, <1>6, <1>7 DEF ComposeGradientInverse
<1>9. 0 - e.speed * x = -(e.speed * x)
  BY EncounterType
<1> QED
  BY <1>2, <1>8, <1>9

\* What a step along each axis of the agent is for the neighbor.
LEMMA LocalShifted ==
  ASSUME NEW s \in Point, NEW e \in Encounters
  PROVE  /\ WarpLocal(Shifted(s, "x"), e) = Plus(WarpLocal(s, e), TurnedBack(e.b, e.a))
         /\ WarpLocal(Shifted(s, "y"), e)
              = Plus(WarpLocal(s, e), TurnedBack(e.b, Vec(-e.a.y, e.a.x)))
         /\ WarpLocal(Shifted(s, "t"), e) = WarpLocal(s, e)
<1>0. PICK l \in Whole : l = WarpLocal(s, e)
  BY LocalType
<1>1. PICK a \in Whole, b \in Whole, r \in Whole : a = e.a /\ b = e.b /\ r = e.rel
  BY EncounterType
<1>2. PICK x \in Int, y \in Int, t \in Int : x = s.x /\ y = s.y /\ t = s.t
  BY DEF Point
<1>3. /\ Shifted(s, "x") = [x |-> x + 1, y |-> y, t |-> t]
      /\ Shifted(s, "y") = [x |-> x, y |-> y + 1, t |-> t]
      /\ Shifted(s, "t") = [x |-> x, y |-> y, t |-> t + 1]
  BY <1>2 DEF Shifted
<1>4. PICK ax \in Int, ay \in Int : ax = a.x /\ ay = a.y
  OBVIOUS
<1>5. PICK m \in Int, n \in Int : m = ax * x - ay * y /\ n = ay * x + ax * y
  <2>1. ax * x \in Int /\ ay * y \in Int /\ ay * x \in Int /\ ax * y \in Int
    OBVIOUS
  <2> QED
    BY <2>1
<1>6. /\ Turned(a, s) = Vec(m, n)
      /\ Turned(a, Shifted(s, "x")) = Vec(m + ax, n + ay)
      /\ Turned(a, Shifted(s, "y")) = Vec(m - ay, n + ax)
      /\ Turned(a, Shifted(s, "t")) = Vec(m, n)
  <2>1. /\ ax * (x + 1) - ay * y = m + ax /\ ay * (x + 1) + ax * y = n + ay
        /\ ax * x - ay * (y + 1) = m - ay /\ ay * x + ax * (y + 1) = n + ax
    BY <1>5
  <2> QED
    BY <1>2, <1>3, <1>4, <1>5, <2>1 DEF Turned
<1>7. PICK i \in Int, j \in Int : i = m - r.x /\ j = n - r.y
  <2>1. r.x \in Int /\ r.y \in Int
    OBVIOUS
  <2> QED
    BY <2>1
<1>8. \A d, c \in Int : Plus(Vec(m + d, n + c), Times(-1, r)) = Vec(i + d, j + c)
  <2>1. PICK v \in Int, w \in Int : v = r.x /\ w = r.y
    OBVIOUS
  <2> QED
    BY <1>7, <2>1 DEF Plus, Times
<1>9. l = TurnedBack(b, Vec(i, j))
  <2>1. Vec(m + 0, n + 0) = Vec(m, n) /\ Vec(i + 0, j + 0) = Vec(i, j)
    OBVIOUS
  <2>2. Plus(Vec(m, n), Times(-1, r)) = Vec(i, j)
    BY <1>8, <2>1
  <2>3. l = TurnedBack(b, Plus(Turned(a, s), Times(-1, r)))
    BY <1>0, <1>1 DEF WarpLocal
  <2> QED
    BY <1>6, <2>2, <2>3
<1>10. \A d, c \in Int : TurnedBack(b, Vec(i + d, j + c)) = Plus(l, TurnedBack(b, Vec(d, c)))
  <2>1. PICK bx \in Int, by \in Int : bx = b.x /\ by = b.y
    OBVIOUS
  <2>2. l = Vec(bx * i + by * j, bx * j - by * i)
    BY <1>9, <2>1 DEF TurnedBack
  <2> SUFFICES ASSUME NEW d \in Int, NEW c \in Int
               PROVE  TurnedBack(b, Vec(i + d, j + c)) = Plus(l, TurnedBack(b, Vec(d, c)))
    OBVIOUS
  <2>3. TurnedBack(b, Vec(i + d, j + c))
          = Vec(bx * (i + d) + by * (j + c), bx * (j + c) - by * (i + d))
    BY <2>1 DEF TurnedBack
  <2>4. TurnedBack(b, Vec(d, c)) = Vec(bx * d + by * c, bx * c - by * d)
    BY <2>1 DEF TurnedBack
  <2>5. /\ bx * (i + d) + by * (j + c) = (bx * i + by * j) + (bx * d + by * c)
        /\ bx * (j + c) - by * (i + d) = (bx * j - by * i) + (bx * c - by * d)
    OBVIOUS
  <2> QED
    BY <2>2, <2>3, <2>4, <2>5 DEF Plus
<1>11. WarpLocal(Shifted(s, "x"), e) = Plus(l, TurnedBack(e.b, e.a))
  <2>1. WarpLocal(Shifted(s, "x"), e) = TurnedBack(b, Vec(i + ax, j + ay))
    BY <1>1, <1>6, <1>8 DEF WarpLocal
  <2>2. a = Vec(ax, ay)
    BY <1>4
  <2> QED
    BY <1>1, <1>10, <2>1, <2>2
<1>12. WarpLocal(Shifted(s, "y"), e) = Plus(l, TurnedBack(e.b, Vec(-e.a.y, e.a.x)))
  <2>1. PICK k \in Int : k = -ay
    OBVIOUS
  <2>2. Turned(a, Shifted(s, "y")) = Vec(m + k, n + ax)
    BY <1>6, <2>1
  <2>3. WarpLocal(Shifted(s, "y"), e) = TurnedBack(b, Vec(i + k, j + ax))
    BY <1>1, <1>8, <2>2 DEF WarpLocal
  <2>4. Vec(-e.a.y, e.a.x) = Vec(k, ax)
    BY <1>1, <1>4, <2>1
  <2> QED
    BY <1>1, <1>10, <2>3, <2>4
<1>13. WarpLocal(Shifted(s, "t"), e) = l
  BY <1>0, <1>1, <1>6 DEF WarpLocal
<1> QED
  BY <1>0, <1>11, <1>12, <1>13

\* Turning there and back is the transpose of turning along the axes.
LEMMA TurnsTransposed ==
  ASSUME NEW a \in Axes, NEW b \in Axes, NEW g \in Whole
  PROVE  LET v == TurnedBack(a, Turned(b, g))
             d == TurnedBack(b, a)
             c == TurnedBack(b, Vec(-a.y, a.x))
         IN  /\ v.x = g.x * d.x + g.y * d.y /\ v.y = g.x * c.x + g.y * c.y
             /\ {v.x, v.y, d.x, d.y, c.x, c.y} \subseteq Int
<1>1. PICK x \in Int, y \in Int : x = g.x /\ y = g.y
  OBVIOUS
<1>2. PICK i \in Int, j \in Int : i = a.x /\ j = a.y
  BY AxisIs
<1>3. ASSUME NEW w, NEW d, NEW c, Turned(b, g) = w, TurnedBack(b, a) = d,
             TurnedBack(b, Vec(-a.y, a.x)) = c,
             \/ w = Vec(x, y) /\ d = Vec(i, j) /\ c = Vec(-j, i)
             \/ w = Vec(-x, -y) /\ d = Vec(-i, -j) /\ c = Vec(j, -i)
             \/ w = Vec(-y, x) /\ d = Vec(j, -i) /\ c = Vec(i, j)
             \/ w = Vec(y, -x) /\ d = Vec(-j, i) /\ c = Vec(-i, -j)
      PROVE  /\ TurnedBack(a, w) = Vec(x * d.x + y * d.y, x * c.x + y * c.y)
             /\ {d.x, d.y, c.x, c.y} \subseteq Int
  <2>1. TurnedBack(a, w) = Vec(i * w.x + j * w.y, i * w.y - j * w.x)
    BY <1>2 DEF TurnedBack
  <2>2. CASE w = Vec(x, y) /\ d = Vec(i, j) /\ c = Vec(-j, i)
    <3>1. i * x + j * y = x * i + y * j /\ i * y - j * x = x * (-j) + y * i
      OBVIOUS
    <3> QED
      BY <2>1, <2>2, <3>1
  <2>3. CASE w = Vec(-x, -y) /\ d = Vec(-i, -j) /\ c = Vec(j, -i)
    <3>1. i * (-x) + j * (-y) = x * (-i) + y * (-j) /\ i * (-y) - j * (-x) = x * j + y * (-i)
      OBVIOUS
    <3> QED
      BY <2>1, <2>3, <3>1
  <2>4. CASE w = Vec(-y, x) /\ d = Vec(j, -i) /\ c = Vec(i, j)
    <3>1. i * (-y) + j * x = x * j + y * (-i) /\ i * x - j * (-y) = x * i + y * j
      OBVIOUS
    <3> QED
      BY <2>1, <2>4, <3>1
  <2>5. CASE w = Vec(y, -x) /\ d = Vec(-j, i) /\ c = Vec(-i, -j)
    <3>1. i * y + j * (-x) = x * (-j) + y * i /\ i * (-x) - j * y = x * (-i) + y * (-j)
      OBVIOUS
    <3> QED
      BY <2>1, <2>5, <3>1
  <2> QED
    BY <1>3, <2>2, <2>3, <2>4, <2>5
<1>4. \/ Turned(b, g) = Vec(x, y) /\ TurnedBack(b, a) = Vec(i, j)
         /\ TurnedBack(b, Vec(-a.y, a.x)) = Vec(-j, i)
      \/ Turned(b, g) = Vec(-x, -y) /\ TurnedBack(b, a) = Vec(-i, -j)
         /\ TurnedBack(b, Vec(-a.y, a.x)) = Vec(j, -i)
      \/ Turned(b, g) = Vec(-y, x) /\ TurnedBack(b, a) = Vec(j, -i)
         /\ TurnedBack(b, Vec(-a.y, a.x)) = Vec(i, j)
      \/ Turned(b, g) = Vec(y, -x) /\ TurnedBack(b, a) = Vec(-j, i)
         /\ TurnedBack(b, Vec(-a.y, a.x)) = Vec(-i, -j)
  <2>0. PICK k \in Int : k = -j /\ k = -a.y /\ -k = j
    BY <1>2
  <2>1. CASE b.x = 1 /\ b.y = 0
    BY <1>1, <1>2, <2>0, <2>1 DEF Turned, TurnedBack
  <2>2. CASE b.x = -1 /\ b.y = 0
    BY <1>1, <1>2, <2>0, <2>2 DEF Turned, TurnedBack
  <2>3. CASE b.x = 0 /\ b.y = 1
    BY <1>1, <1>2, <2>0, <2>3 DEF Turned, TurnedBack
  <2>4. CASE b.x = 0 /\ b.y = -1
    BY <1>1, <1>2, <2>0, <2>4 DEF Turned, TurnedBack
  <2> QED
    BY <2>1, <2>2, <2>3, <2>4, AxisIs
<1>5. /\ TurnedBack(a, Turned(b, g))
           = Vec(x * TurnedBack(b, a).x + y * TurnedBack(b, a).y,
                 x * TurnedBack(b, Vec(-a.y, a.x)).x + y * TurnedBack(b, Vec(-a.y, a.x)).y)
      /\ {TurnedBack(b, a).x, TurnedBack(b, a).y, TurnedBack(b, Vec(-a.y, a.x)).x,
          TurnedBack(b, Vec(-a.y, a.x)).y} \subseteq Int
  BY <1>3, <1>4
<1>6. TurnedBack(a, Turned(b, g)).x \in Int /\ TurnedBack(a, Turned(b, g)).y \in Int
  <2>1. Turned(b, g) \in Whole
    BY AxisIs, TurnedType
  <2>2. TurnedBack(a, Turned(b, g)) \in Whole
    BY <2>1, AxisIs, TurnedType
  <2> QED
    BY <2>2
<1> QED
  BY <1>1, <1>5, <1>6

LEMMA ShiftedType ==
  ASSUME NEW s \in Point, NEW k \in Coordinates
  PROVE  Shifted(s, k) \in Point /\ Shifted(s, k).t = IF k = "t" THEN s.t + 1 ELSE s.t
BY DEF Shifted, Point, Coordinates

LEMMA HasExactGradientIs ==
  ASSUME NEW q \in Uncertainty, Accepted(q), NEW e \in Encounters
  PROVE  HasExactGradient[q][e]
<1>1. ASSUME Unrounded(e, q), NEW s \in Trajectory, NEW grad \in Axes, NEW k \in Coordinates
      PROVE  ComposeGradientInverse(grad, s, e, q)[k]
               = (grad.x * ComposeForward(Shifted(s, k), e, q).x
                    + grad.y * ComposeForward(Shifted(s, k), e, q).y)
                 - (grad.x * ComposeForward(s, e, q).x + grad.y * ComposeForward(s, e, q).y)
  <2>1. s \in Point /\ Shifted(s, k) \in Point
    BY TrajectoryType, ShiftedType
  <2>2. PICK u \in Int, x \in Int, y \in Int, v \in Int, t \in Int :
          u = 1 + q.uy /\ x = grad.x /\ y = grad.y /\ v = e.speed /\ t = s.t
    <3>1. 1 + q.uy \in Int /\ e.speed \in Int /\ s.t \in Int
      BY <2>1, UncertaintyType, EncounterType DEF Point
    <3> QED
      BY <3>1, AxisIs
  <2>3. PICK g \in Whole : g = Vec(x, y * u)
    <3>1. y * u \in Int
      OBVIOUS
    <3> QED
      BY <3>1
  <2>4. PICK a \in Axes, b \in Axes : a = e.a /\ b = e.b
    BY EncounterType
  <2>5. ComposeGradientInverse(grad, s, e, q)
          = [x |-> TurnedBack(a, Turned(b, g)).x, y |-> TurnedBack(a, Turned(b, g)).y,
             t |-> -(v * x)]
    BY <1>1, <2>1, <2>2, <2>3, <2>4, BackUnrounded
  <2>6. PICK l \in Whole : l = WarpLocal(s, e)
    BY <2>1, ForwardType
  <2>7. PICK i \in Int, j \in Int : i = l.x /\ j = l.y
    OBVIOUS
  <2>8. ComposeForward(s, e, q) = Vec(i - v * t, j * u)
    BY <1>1, <2>1, <2>2, <2>6, <2>7, ForwardUnrounded
  <2>9. CASE k = "x"
    <3>1. PICK m \in Int, n \in Int : /\ m = TurnedBack(b, a).x /\ n = TurnedBack(b, a).y
                                      /\ TurnedBack(a, Turned(b, g)).x = g.x * m + g.y * n
      <4>1. /\ TurnedBack(b, a).x \in Int /\ TurnedBack(b, a).y \in Int
            /\ TurnedBack(a, Turned(b, g)).x
                 = g.x * TurnedBack(b, a).x + g.y * TurnedBack(b, a).y
        BY TurnsTransposed
      <4> QED
        BY <4>1
    <3>2. WarpLocal(Shifted(s, k), e) = Vec(i + m, j + n)
      BY <2>1, <2>4, <2>6, <2>7, <2>9, <3>1, LocalShifted DEF Plus
    <3>3. Shifted(s, k).t = t
      BY <2>1, <2>2, <2>9, ShiftedType
    <3>4. ComposeForward(Shifted(s, k), e, q) = Vec(i + m - v * t, (j + n) * u)
      BY <1>1, <2>1, <2>2, <3>2, <3>3, ForwardUnrounded
    <3>5. x * m + (y * u) * n
            = (x * (i + m - v * t) + y * ((j + n) * u)) - (x * (i - v * t) + y * (j * u))
      OBVIOUS
    <3> QED
      BY <2>2, <2>3, <2>5, <2>8, <2>9, <3>1, <3>4, <3>5
  <2>10. CASE k = "y"
    <3>1. PICK m \in Int, n \in Int :
            /\ m = TurnedBack(b, Vec(-a.y, a.x)).x /\ n = TurnedBack(b, Vec(-a.y, a.x)).y
            /\ TurnedBack(a, Turned(b, g)).y = g.x * m + g.y * n
      BY TurnsTransposed
    <3>2. WarpLocal(Shifted(s, k), e) = Vec(i + m, j + n)
      BY <2>1, <2>4, <2>6, <2>7, <2>10, <3>1, LocalShifted DEF Plus
    <3>3. Shifted(s, k).t = t
      BY <2>1, <2>2, <2>10, ShiftedType
    <3>4. ComposeForward(Shifted(s, k), e, q) = Vec(i + m - v * t, (j + n) * u)
      BY <1>1, <2>1, <2>2, <3>2, <3>3, ForwardUnrounded
    <3>5. x * m + (y * u) * n
            = (x * (i + m - v * t) + y * ((j + n) * u)) - (x * (i - v * t) + y * (j * u))
      OBVIOUS
    <3> QED
      BY <2>2, <2>3, <2>5, <2>8, <2>10, <3>1, <3>4, <3>5
  <2>11. CASE k = "t"
    <3>1. WarpLocal(Shifted(s, k), e) = Vec(i, j)
      <4>1. WarpLocal(Shifted(s, "t"), e) = WarpLocal(s, e)
        BY <2>1, LocalShifted
      <4> QED
        BY <2>6, <2>7, <2>11, <4>1
    <3>2. Shifted(s, k).t = t + 1
      BY <2>1, <2>2, <2>11, ShiftedType
    <3>3. ComposeForward(Shifted(s, k), e, q) = Vec(i - v * (t + 1), j * u)
      BY <1>1, <2>1, <2>2, <3>1, <3>2, ForwardUnrounded
    <3>4. -(v * x) = (x * (i - v * (t + 1)) + y * (j * u)) - (x * (i - v * t) + y * (j * u))
      OBVIOUS
    <3> QED
      BY <2>2, <2>5, <2>8, <2>11, <3>3, <3>4
  <2> QED
    BY <2>9, <2>10, <2>11 DEF Coordinates
<1>2. q.lambda = 0 /\ q.ux = 0 /\ e.radius = Sub =>
        \A s \in Trajectory, grad \in Axes, k \in Coordinates :
          LET Plane(r) == LET v == ComposeForward(r, e, q) IN grad.x * v.x + grad.y * v.y
          IN  ComposeGradientInverse(grad, s, e, q)[k] = Plane(Shifted(s, k)) - Plane(s)
  BY <1>1 DEF Unrounded
<1> QED
  BY <1>2 DEF HasExactGradient

\* The gradient an agent steers by is the gradient of the field as it is
\* warped, and an encounter and its mirror image pull it to opposite sides
\* with the same force.
THEOREM GradientIsSound == Spec => []GradientSound
<1>1. IInv => GradientSound
  <2> SUFFICES ASSUME IInv
               PROVE  GradientSound
    OBVIOUS
  <2>1. quest.q \in Uncertainty /\ Accepted(quest.q) /\ seen.around \subseteq Encounters
    BY DEF IInv, TypeOK, SeenOK
  <2>2. GradientExact
    BY <2>1, HasExactGradientIs DEF GradientExact
  <2>3. NoSideAttracts
    BY <2>1, HasNoSideIs DEF NoSideAttracts
  <2> QED
    BY <2>2, <2>3 DEF GradientSound
<1> QED
  BY <1>1, Invariance, PTL
=============================================================================
