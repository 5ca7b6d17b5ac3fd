-------------------------- MODULE RoundRobinProofs --------------------------
(***************************************************************************)
(* What holds of RoundRobin for every list of weights: each call has an    *)
(* answer, and as long as no sum of weights wraps the answers follow the   *)
(* documented cycle.                                                       *)
(***************************************************************************)
EXTENDS RoundRobin, SequenceTheorems, WellFoundedInduction, TLAPS

-----------------------------------------------------------------------------
(* Natural numbers                                                         *)

LEMMA LeastNumber ==
  ASSUME NEW T, T \subseteq Nat, T # {}
  PROVE  \E x \in T : \A y \in T : x <= y
<1>1. PICK x \in T : \A y \in T : ~(<<y, x>> \in OpToRel(<, Nat))
  BY NatLessThanWellFounded, WFMin
<1>2. \A y \in Nat : y < x => <<y, x>> \in OpToRel(<, Nat)
  BY Zenon DEF OpToRel
<1>3. \A y \in T : ~(y < x)
  BY <1>1, <1>2, Zenon
<1>4. \A y \in T : x <= y
  BY <1>3
<1> QED
  BY <1>4

\* Induction, with the set of the numbers that have the property.
LEMMA Induction ==
  ASSUME NEW S, 0 \in S, \A n \in Nat : n \in S => n + 1 \in S
  PROVE  Nat \subseteq S
<1>1. SUFFICES ASSUME Nat \ S # {} PROVE FALSE
  BY Zenon
<1>2. PICK x \in Nat \ S : \A y \in Nat \ S : x <= y
  <2>1. Nat \ S \subseteq Nat
    OBVIOUS
  <2> QED
    BY <1>1, <2>1, LeastNumber, Zenon
<1>3. x # 0 /\ x - 1 \in Nat /\ x - 1 + 1 = x
  BY <1>2
<1>4. x - 1 \notin Nat \ S
  BY <1>2, <1>3
<1> QED
  BY <1>2, <1>3, <1>4

\* What is left of a number by whole cycles.
LEMMA Quotient ==
  ASSUME NEW n \in Nat, NEW c \in Nat \ {0}, NEW r \in 0 .. c - 1
  PROVE  (n * c + r) \div c = n
<1> DEFINE q == (n * c + r) \div c
<1>1. n * c \in Nat
  OBVIOUS
<1>2. q \in Int /\ q * c <= n * c + r /\ n * c + r < q * c + c
  BY <1>1
<1> HIDE DEF q
<1>3. ~(q >= n + 1)
  <2> SUFFICES ASSUME q >= n + 1 PROVE FALSE
    OBVIOUS
  <2>1. PICK d \in Nat : q = n + 1 + d
    <3>1. q - n - 1 \in Nat /\ q = n + 1 + (q - n - 1)
      BY <1>2
    <3> QED
      BY <3>1
  <2>2. q * c = n * c + c + d * c /\ d * c \in Nat
    BY <2>1
  <2> QED
    BY <1>1, <1>2, <2>2
<1>4. ~(q + 1 <= n)
  <2> SUFFICES ASSUME q + 1 <= n PROVE FALSE
    OBVIOUS
  <2>1. PICK d \in Nat : n = q + 1 + d
    <3>1. n - q - 1 \in Nat /\ n = q + 1 + (n - q - 1)
      BY <1>2
    <3> QED
      BY <3>1
  <2>2. n * c = q * c + c + d * c /\ d * c \in Nat
    BY <1>2, <2>1
  <2> QED
    BY <1>1, <1>2, <2>2
<1> QED
  BY <1>2, <1>3, <1>4 DEF q

LEMMA Remainder ==
  ASSUME NEW n \in Nat, NEW c \in Nat \ {0}, NEW r \in 0 .. c - 1
  PROVE  (n * c + r) % c = r
<1> DEFINE x == n * c + r
           q == x \div c
           m == x % c
<1>1. x \in Nat /\ n * c \in Nat
  OBVIOUS
<1>2. q = n
  BY Quotient
<1>3. x = q * c + m /\ m \in Int
  <2> HIDE DEF x
  <2> QED
    BY <1>1
<1>4. x = n * c + m
  <2> HIDE DEF x, m, q
  <2> QED
    BY <1>2, <1>3
<1>5. PICK p \in Nat : p = n * c
  BY <1>1
<1>6. x = p + r /\ x = p + m
  <2> HIDE DEF m
  <2> QED
    BY <1>4, <1>5
<1> HIDE DEF x, q, m
<1>7. m = r
  BY <1>3, <1>6
<1> QED
  BY <1>7 DEF m, x

\* A counter is reset or moves on.
LEMMA NextRemainder ==
  ASSUME NEW x \in Nat, NEW c \in Nat \ {0}
  PROVE  (x + 1) % c = ((x % c) + 1) % c
<1> DEFINE q == x \div c
           r == x % c
<1>1. q \in Int /\ r \in 0 .. c - 1 /\ x = q * c + r
  OBVIOUS
<1> HIDE DEF q, r
<1>2. q \in Nat
  <2> SUFFICES ASSUME q <= -1 PROVE FALSE
    BY <1>1
  <2>1. PICK d \in Nat : q = -1 - d
    <3>1. -1 - q \in Nat /\ q = -1 - (-1 - q)
      BY <1>1
    <3> QED
      BY <3>1
  <2>2. q * c = -c - d * c /\ d * c \in Nat
    BY <2>1
  <2> QED
    BY <1>1, <2>2
<1>3. 0 * c = 0
  OBVIOUS
<1>4. CASE r + 1 < c
  <2>1. r + 1 \in 0 .. c - 1 /\ q * c \in Nat
    BY <1>1, <1>2, <1>4
  <2>2. (q * c + (r + 1)) % c = r + 1
    BY <1>2, <2>1, Remainder
  <2>3. (0 * c + (r + 1)) % c = r + 1
    BY <2>1, Remainder
  <2>4. x + 1 = q * c + (r + 1) /\ 0 * c + (r + 1) = r + 1
    BY <1>1, <1>3, <2>1
  <2> QED
    BY <2>2, <2>3, <2>4 DEF r
<1>5. CASE r + 1 = c
  <2>1. (q + 1) * c = q * c + c /\ q * c \in Nat /\ 1 * c = c
    BY <1>2
  <2>2. ((q + 1) * c + 0) % c = 0
    <3>1. q + 1 \in Nat /\ 0 \in 0 .. c - 1
      BY <1>2
    <3> QED
      BY <3>1, Remainder
  <2>3. (1 * c + 0) % c = 0
    <3>1. 1 \in Nat /\ 0 \in 0 .. c - 1
      OBVIOUS
    <3> QED
      BY <3>1, Remainder
  <2>4. x + 1 = (q + 1) * c + 0 /\ 1 * c + 0 = r + 1
    BY <1>1, <1>5, <2>1
  <2> QED
    BY <2>2, <2>3, <2>4 DEF r
<1> QED
  BY <1>1, <1>4, <1>5

LEMMA SmallRemainder ==
  ASSUME NEW x \in Nat, NEW c \in Nat \ {0}, x < c
  PROVE  x % c = x
<1>1. x \in 0 .. c - 1 /\ 0 * c = 0 /\ 0 * c + x = x
  OBVIOUS
<1>2. (0 * c + x) % c = x
  BY <1>1, Remainder
<1> QED
  BY <1>1, <1>2

Steps(N, A) == [A \X (1 .. N) -> A]

\* f is defined by recursion over 0 .. N, each value from the one before.
Recursive(f, N, A, first, step) ==
  /\ f \in [0 .. N -> A]
  /\ f[0] = first
  /\ \A i \in 1 .. N : f[i] = step[<<f[i - 1], i>>]

LEMMA Recursion ==
  ASSUME NEW N \in Nat, NEW A, NEW first \in A, NEW step \in Steps(N, A)
  PROVE  \E f : Recursive(f, N, A, first, step)
<1> USE DEF Steps
<1> DEFINE UpTo(n, f) == /\ f \in [0 .. n -> A]
                         /\ f[0] = first
                         /\ \A i \in 1 .. n : f[i] = step[<<f[i - 1], i>>]
           S == {n \in Nat : n <= N => \E f : UpTo(n, f)}
<1>1. 0 \in S
  <2>1. UpTo(0, [i \in 0 .. 0 |-> first])
    OBVIOUS
  <2> QED
    BY <2>1
<1>2. \A n \in Nat : n \in S => n + 1 \in S
  <2> SUFFICES ASSUME NEW n \in Nat, n \in S, n + 1 <= N
               PROVE  \E f : UpTo(n + 1, f)
    OBVIOUS
  <2>1. PICK f : UpTo(n, f)
    OBVIOUS
  <2> DEFINE g == [i \in 0 .. n + 1 |-> IF i = n + 1 THEN step[<<f[n], n + 1>>] ELSE f[i]]
  <2>2. f[n] \in A /\ n + 1 \in 1 .. N
    BY <2>1
  <2>3. <<f[n], n + 1>> \in A \X (1 .. N)
    BY <2>2
  <2>4. step[<<f[n], n + 1>>] \in A
    BY <2>3
  <2>5. g \in [0 .. n + 1 -> A]
    BY <2>1, <2>4
  <2>6. g[0] = first
    BY <2>1
  <2>7. \A i \in 1 .. n + 1 : g[i] = step[<<g[i - 1], i>>]
    <3> SUFFICES ASSUME NEW i \in 1 .. n + 1
                 PROVE  g[i] = step[<<g[i - 1], i>>]
      OBVIOUS
    <3>1. g[i - 1] = f[i - 1]
      OBVIOUS
    <3>2. CASE i = n + 1
      <4>1. i - 1 = n /\ g[i] = step[<<f[n], n + 1>>]
        BY <3>2
      <4> QED
        BY <3>1, <3>2, <4>1
    <3>3. CASE i # n + 1
      <4>1. i \in 1 .. n /\ g[i] = f[i]
        BY <3>3
      <4> QED
        BY <2>1, <3>1, <4>1
    <3> QED
      BY <3>2, <3>3
  <2> HIDE DEF g
  <2> QED
    BY <2>5, <2>6, <2>7
<1>3. Nat \subseteq S
  <2> HIDE DEF S
  <2> QED
    BY <1>1, <1>2, Induction, Zenon
<1>4. N \in S
  <2> HIDE DEF S
  <2> QED
    BY <1>3
<1>5. \E f : UpTo(N, f)
  <2> HIDE DEF UpTo
  <2> QED
    BY <1>4 DEF S
<1> QED
  BY <1>5 DEF Recursive

-----------------------------------------------------------------------------
(* Sums of weights                                                         *)

SummedUp(w, s) ==
  s = [k \in 0 .. Len(w) |-> IF k = 0 THEN 0 ELSE (s[k - 1] + w[k]) % WeightModulus]

LEMMA SumsExist ==
  ASSUME NEW w \in Seq(Nat)
  PROVE  \E s : SummedUp(w, s)
<1> DEFINE N == Len(w)
           A == 0 .. WeightModulus - 1
           step == [p \in A \X (1 .. N) |-> (p[1] + w[p[2]]) % WeightModulus]
<1>1. N \in Nat /\ 0 \in A /\ WeightModulus \in Nat \ {0} /\ A \subseteq Nat
  BY ModulusAssumption
<1>2. ASSUME NEW p \in A \X (1 .. N) PROVE (p[1] + w[p[2]]) % WeightModulus \in A
  <2>1. p[1] + w[p[2]] \in Nat
    BY <1>1
  <2> QED
    BY <1>1, <2>1
<1>3. step \in Steps(N, A)
  BY <1>2 DEF Steps
<1> HIDE DEF N, A, step
<1>4. PICK f : Recursive(f, N, A, 0, step)
  BY <1>1, <1>3, Recursion
<1>5. f \in [0 .. N -> A] /\ f[0] = 0 /\ \A i \in 1 .. N : f[i] = step[<<f[i - 1], i>>]
  BY <1>4 DEF Recursive
<1>6. ASSUME NEW k \in 0 .. N, k # 0 PROVE f[k] = (f[k - 1] + w[k]) % WeightModulus
  <2>1. k \in 1 .. N /\ k - 1 \in 0 .. N
    BY <1>1, <1>6
  <2>2. <<f[k - 1], k>> \in A \X (1 .. N)
    BY <1>5, <2>1
  <2>3. step[<<f[k - 1], k>>] = (f[k - 1] + w[k]) % WeightModulus
    BY <2>2 DEF step
  <2> QED
    BY <1>5, <2>1, <2>3
<1>7. f = [k \in 0 .. N |-> IF k = 0 THEN 0 ELSE (f[k - 1] + w[k]) % WeightModulus]
  BY <1>5, <1>6
<1> QED
  BY <1>7 DEF SummedUp, N

\* WeightBefore adds up the weights, wrapping at the modulus.
LEMMA Sums ==
  ASSUME NEW w \in Seq(Nat)
  PROVE  /\ WeightBefore(w, 1) = 0
         /\ \A i \in 1 .. Len(w) + 1 : WeightBefore(w, i) \in 0 .. WeightModulus - 1
         /\ \A i \in 1 .. Len(w) :
              WeightBefore(w, i + 1) = (WeightBefore(w, i) + w[i]) % WeightModulus
<1> DEFINE s == CHOOSE t : SummedUp(w, t)
<1>1. SummedUp(w, s)
  BY SumsExist
<1>2. \A i : WeightBefore(w, i) = s[i - 1]
  BY DEF WeightBefore, SummedUp
<1> HIDE DEF s
<1>3. Len(w) \in Nat /\ WeightModulus \in Nat \ {0} /\ \A k \in 1 .. Len(w) : w[k] \in Nat
  BY ModulusAssumption
<1>4. s[0] = 0 /\ \A k \in 1 .. Len(w) : s[k] = (s[k - 1] + w[k]) % WeightModulus
  <2>1. s = [k \in 0 .. Len(w) |-> IF k = 0 THEN 0 ELSE (s[k - 1] + w[k]) % WeightModulus]
    BY <1>1 DEF SummedUp
  <2>2. 0 \in 0 .. Len(w) /\ \A k \in 1 .. Len(w) : k \in 0 .. Len(w) /\ k # 0
    BY <1>3
  <2>3. \A k \in 0 .. Len(w) : s[k] = IF k = 0 THEN 0 ELSE (s[k - 1] + w[k]) % WeightModulus
    BY <2>1, Zenon
  <2> QED
    BY <2>2, <2>3
<1> DEFINE Typed == {k \in Nat : k <= Len(w) => s[k] \in 0 .. WeightModulus - 1}
<1>5. 0 \in Typed
  BY <1>3, <1>4
<1>6. \A k \in Nat : k \in Typed => k + 1 \in Typed
  <2> SUFFICES ASSUME NEW k \in Nat, k \in Typed, k + 1 <= Len(w)
               PROVE  s[k + 1] \in 0 .. WeightModulus - 1
    OBVIOUS
  <2>1. s[k] \in Nat /\ k + 1 \in 1 .. Len(w) /\ (k + 1) - 1 = k
    BY <1>3
  <2>2. s[k + 1] = (s[(k + 1) - 1] + w[k + 1]) % WeightModulus
    BY <1>4, <2>1
  <2>3. s[k] + w[k + 1] \in Nat
    BY <1>3, <2>1
  <2>4. s[k + 1] = (s[k] + w[k + 1]) % WeightModulus
    BY <2>1, <2>2
  <2> QED
    BY <1>3, <2>3, <2>4, SMTT(30)
<1>7. \A k \in 0 .. Len(w) : s[k] \in 0 .. WeightModulus - 1
  <2>1. Nat \subseteq Typed
    <3> HIDE DEF Typed
    <3> QED
      BY <1>5, <1>6, Induction
  <2> QED
    BY <1>3, <2>1
<1>8. WeightBefore(w, 1) = 0
  BY <1>2, <1>4
<1>9. ASSUME NEW i \in 1 .. Len(w) + 1
      PROVE  WeightBefore(w, i) \in 0 .. WeightModulus - 1
  <2>1. i - 1 \in 0 .. Len(w)
    BY <1>3
  <2> QED
    BY <1>2, <1>7, <2>1
<1>10. ASSUME NEW i \in 1 .. Len(w)
       PROVE  WeightBefore(w, i + 1) = (WeightBefore(w, i) + w[i]) % WeightModulus
  <2>1. WeightBefore(w, i + 1) = s[i]
    BY <1>2, <1>3
  <2>2. s[i] = (s[i - 1] + w[i]) % WeightModulus
    BY <1>4
  <2> QED
    BY <1>2, <2>1, <2>2
<1> QED
  BY <1>8, <1>9, <1>10

\* No sum of the weights reaches the modulus.
NoWrap(w) == \A i \in DOMAIN w : WeightBefore(w, i) + w[i] < WeightModulus

LEMMA WeightsRise ==
  ASSUME NEW w \in Seq(Nat), Constructed(w), NoWrap(w)
  PROVE  \A i \in 1 .. Len(w) : /\ WeightBefore(w, i + 1) = WeightBefore(w, i) + w[i]
                               /\ WeightBefore(w, i) < WeightBefore(w, i + 1)
<1> SUFFICES ASSUME NEW i \in 1 .. Len(w)
             PROVE  /\ WeightBefore(w, i + 1) = WeightBefore(w, i) + w[i]
                    /\ WeightBefore(w, i) < WeightBefore(w, i + 1)
  OBVIOUS
<1>1. i \in DOMAIN w /\ i \in 1 .. Len(w) + 1 /\ w[i] \in Nat
  OBVIOUS
<1>2. PICK b \in Nat : b = WeightBefore(w, i)
  BY <1>1, Sums, ModulusAssumption
<1>3. w[i] # 0 /\ b + w[i] < WeightModulus
  BY <1>1, <1>2 DEF Constructed, NoWrap
<1>4. WeightBefore(w, i + 1) = (b + w[i]) % WeightModulus
  BY <1>2, Sums
<1>5. (b + w[i]) % WeightModulus = b + w[i]
  <2>1. PICK x \in Nat : x = b + w[i]
    BY <1>1
  <2> QED
    BY <1>3, <2>1, ModulusAssumption, SmallRemainder
<1> QED
  BY <1>1, <1>2, <1>3, <1>4, <1>5

LEMMA WeightsMonotone ==
  ASSUME NEW w \in Seq(Nat), Constructed(w), NoWrap(w)
  PROVE  \A i, k \in 1 .. Len(w) + 1 : i <= k => WeightBefore(w, i) <= WeightBefore(w, k)
<1> SUFFICES ASSUME NEW i \in 1 .. Len(w) + 1
             PROVE  \A k \in 1 .. Len(w) + 1 : i <= k => WeightBefore(w, i) <= WeightBefore(w, k)
  OBVIOUS
<1> DEFINE before(k) == WeightBefore(w, k)
           S == {d \in Nat : i + d <= Len(w) + 1 => before(i) <= before(i + d)}
<1>1. Len(w) \in Nat /\ \A k \in 1 .. Len(w) + 1 : before(k) \in Nat
  BY Sums, ModulusAssumption
<1>2. \A k \in 1 .. Len(w) : before(k) < before(k + 1)
  BY WeightsRise
<1> HIDE DEF before
<1>3. 0 \in S
  BY <1>1
<1>4. \A d \in Nat : d \in S => d + 1 \in S
  <2> SUFFICES ASSUME NEW d \in Nat, d \in S, i + (d + 1) <= Len(w) + 1
               PROVE  before(i) <= before(i + (d + 1))
    OBVIOUS
  <2>1. i + d \in 1 .. Len(w) /\ (i + d) + 1 = i + (d + 1) /\ i + d <= Len(w) + 1
    BY <1>1
  <2>2. before(i) <= before(i + d)
    BY <2>1
  <2>3. before(i + d) < before(i + (d + 1))
    BY <1>2, <2>1
  <2>4. before(i + d) \in Nat /\ before(i + (d + 1)) \in Nat
    BY <1>1, <2>1
  <2> QED
    BY <1>1, <2>2, <2>3, <2>4
<1>5. Nat \subseteq S
  <2> HIDE DEF S
  <2> QED
    BY <1>3, <1>4, Induction
<1>6. ASSUME NEW k \in 1 .. Len(w) + 1, i <= k PROVE before(i) <= before(k)
  <2>1. k - i \in Nat /\ i + (k - i) = k
    BY <1>1, <1>6
  <2>2. k - i \in S
    BY <1>5, <2>1
  <2>3. i + (k - i) <= Len(w) + 1
    BY <1>1, <2>1
  <2> QED
    BY <2>1, <2>2, <2>3
<1> QED
  BY <1>6 DEF before

-----------------------------------------------------------------------------
(* The cycle                                                               *)

\* The entries of the first m weights, each at the places of its weight.
Laid(w, c, m) ==
  /\ c \in Seq(1 .. Len(w))
  /\ Len(c) = WeightBefore(w, m + 1)
  /\ \A i \in 1 .. m : \A j \in WeightBefore(w, i) + 1 .. WeightBefore(w, i + 1) : c[j] = i

LEMMA ConcatEntries ==
  ASSUME NEW S, NEW c \in Seq(S), NEW e \in Seq(S)
  PROVE  /\ Len(c) \in Nat /\ Len(e) \in Nat /\ Len(c \o e) = Len(c) + Len(e)
         /\ c \o e \in Seq(S) /\ \A j \in 1 .. Len(c) : (c \o e)[j] = c[j]
         /\ \A j \in Len(c) + 1 .. Len(c) + Len(e) : (c \o e)[j] = e[j - Len(c)]
OBVIOUS

LEMMA LaidNext ==
  ASSUME NEW w \in Seq(Nat), Constructed(w), NoWrap(w),
         NEW m \in Nat, m < Len(w), NEW c, Laid(w, c, m)
  PROVE  Laid(w, c \o [k \in 1 .. w[m + 1] |-> m + 1], m + 1)
<1> DEFINE e == [k \in 1 .. w[m + 1] |-> m + 1]
           before(i) == WeightBefore(w, i)
<1>1. Len(w) \in Nat /\ m + 1 \in 1 .. Len(w) /\ w[m + 1] \in Nat
  OBVIOUS
<1>2. e \in Seq(1 .. Len(w)) /\ Len(e) = w[m + 1] /\ \A k \in 1 .. w[m + 1] : e[k] = m + 1
  BY <1>1
<1>3. /\ c \in Seq(1 .. Len(w)) /\ Len(c) = before(m + 1)
      /\ \A i \in 1 .. m : \A j \in before(i) + 1 .. before(i + 1) : c[j] = i
  BY DEF Laid
<1>4. \A i \in 1 .. Len(w) + 1 : before(i) \in Nat
  BY Sums, ModulusAssumption
<1>5. before((m + 1) + 1) = before(m + 1) + w[m + 1]
  BY <1>1, WeightsRise
<1>6. \A i \in 1 .. m : before(i + 1) <= before(m + 1)
  <2> SUFFICES ASSUME NEW i \in 1 .. m PROVE before(i + 1) <= before(m + 1)
    OBVIOUS
  <2>1. i + 1 \in 1 .. Len(w) + 1 /\ m + 1 \in 1 .. Len(w) + 1 /\ i + 1 <= m + 1
    BY <1>1
  <2> QED
    BY <2>1, WeightsMonotone
<1> DEFINE new == c \o e
<1> HIDE DEF e, before
<1>7. /\ new \in Seq(1 .. Len(w)) /\ Len(new) = before((m + 1) + 1)
      /\ \A j \in 1 .. Len(c) : new[j] = c[j]
      /\ \A j \in Len(c) + 1 .. Len(c) + w[m + 1] : new[j] = e[j - Len(c)]
  <2>1. /\ Len(c) \in Nat /\ Len(e) \in Nat /\ Len(new) = Len(c) + Len(e)
        /\ new \in Seq(1 .. Len(w)) /\ \A j \in 1 .. Len(c) : new[j] = c[j]
        /\ \A j \in Len(c) + 1 .. Len(c) + Len(e) : new[j] = e[j - Len(c)]
    BY <1>2, <1>3, ConcatEntries
  <2> HIDE DEF new
  <2> QED
    BY <1>2, <1>3, <1>5, <2>1
<1> HIDE DEF new
<1>8. ASSUME NEW i \in 1 .. m + 1, NEW j \in before(i) + 1 .. before(i + 1)
      PROVE  new[j] = i
  <2>1. CASE i \in 1 .. m
    <3>1. before(i) \in Nat /\ before(i + 1) \in Nat /\ before(m + 1) \in Nat
      <4>1. i \in 1 .. Len(w) + 1 /\ i + 1 \in 1 .. Len(w) + 1 /\ m + 1 \in 1 .. Len(w) + 1
        BY <1>1, <2>1
      <4> QED
        BY <1>4, <4>1
    <3>2. j \in 1 .. Len(c)
      <4>1. before(i + 1) <= before(m + 1)
        BY <1>6, <2>1
      <4> QED
        BY <1>3, <3>1, <4>1
    <3>3. c[j] = i
      BY <1>3, <1>8, <2>1
    <3>4. new[j] = c[j]
      BY <1>7, <3>2
    <3> QED
      BY <3>3, <3>4
  <2>2. CASE i = m + 1
    <3>1. before(m + 1) \in Nat
      BY <1>1, <1>4
    <3>2. j \in Len(c) + 1 .. Len(c) + w[m + 1] /\ j - Len(c) \in 1 .. w[m + 1]
      BY <1>1, <1>3, <1>5, <2>2, <3>1
    <3>3. new[j] = e[j - Len(c)]
      BY <1>7, <3>2
    <3> QED
      BY <1>2, <2>2, <3>2, <3>3
  <2> QED
    BY <1>1, <2>1, <2>2
<1> QED
  BY <1>7, <1>8 DEF Laid, before, e, new

Flattening(seqs, f) ==
  f = [i \in 1 .. Len(seqs) |-> IF i = 1 THEN seqs[i] ELSE f[i - 1] \o seqs[i]]

LEMMA FlatteningExists ==
  ASSUME NEW S, NEW seqs \in Seq(Seq(S))
  PROVE  \E f : Flattening(seqs, f)
<1> DEFINE N == Len(seqs)
           A == Seq(S)
           step == [p \in A \X (1 .. N) |-> p[1] \o seqs[p[2]]]
<1>1. N \in Nat /\ <<>> \in A /\ \A i \in 1 .. N : seqs[i] \in A
  OBVIOUS
<1>2. ASSUME NEW p \in A \X (1 .. N) PROVE p[1] \o seqs[p[2]] \in A
  <2>1. p[1] \in A /\ seqs[p[2]] \in A
    BY <1>1
  <2> QED
    BY <2>1
<1>3. step \in Steps(N, A)
  BY <1>2 DEF Steps
<1>e. \A x \in A : <<>> \o x = x
  OBVIOUS
<1> HIDE DEF N, A, step
<1>4. PICK g : Recursive(g, N, A, <<>>, step)
  BY <1>1, <1>3, Recursion
<1>5. g \in [0 .. N -> A] /\ g[0] = <<>> /\ \A i \in 1 .. N : g[i] = step[<<g[i - 1], i>>]
  BY <1>4 DEF Recursive
<1>6. ASSUME NEW k \in 1 .. N PROVE g[k] = g[k - 1] \o seqs[k]
  <2>1. k - 1 \in 0 .. N
    BY <1>1
  <2>2. <<g[k - 1], k>> \in A \X (1 .. N)
    BY <1>5, <2>1
  <2>3. step[<<g[k - 1], k>>] = g[k - 1] \o seqs[k]
    BY <2>2 DEF step
  <2> QED
    BY <1>5, <2>3
<1> DEFINE f == [i \in 1 .. N |-> g[i]]
<1>7. ASSUME NEW i \in 1 .. N PROVE f[i] = IF i = 1 THEN seqs[i] ELSE f[i - 1] \o seqs[i]
  <2>1. CASE i = 1
    <3>0. 1 \in 1 .. N /\ 1 - 1 = 0
      BY <1>1, <2>1
    <3>1. g[1] = g[1 - 1] \o seqs[1]
      BY <1>6, <3>0
    <3>2. f[1] = g[1]
      BY <2>1
    <3> QED
      BY <1>1, <1>5, <1>e, <2>1, <3>0, <3>1, <3>2
  <2>2. CASE i # 1
    <3>1. i - 1 \in 1 .. N
      BY <1>1, <2>2
    <3>2. f[i - 1] = g[i - 1] /\ f[i] = g[i]
      BY <3>1
    <3> QED
      BY <1>6, <2>2, <3>2
  <2> QED
    BY <2>1, <2>2
<1>8. f = [i \in 1 .. N |-> IF i = 1 THEN seqs[i] ELSE f[i - 1] \o seqs[i]]
  <2> DEFINE h == [i \in 1 .. N |-> IF i = 1 THEN seqs[i] ELSE f[i - 1] \o seqs[i]]
  <2>1. \A i \in 1 .. N : h[i] = IF i = 1 THEN seqs[i] ELSE f[i - 1] \o seqs[i]
    OBVIOUS
  <2>2. \A i \in 1 .. N : f[i] = h[i]
    BY <1>7, <2>1, Zenon
  <2>3. f = [i \in 1 .. N |-> f[i]] /\ h = [i \in 1 .. N |-> h[i]]
    OBVIOUS
  <2> HIDE DEF f, h
  <2>4. f = h
    BY <2>2, <2>3
  <2> QED
    BY <2>4 DEF h
<1> QED
  BY <1>8 DEF Flattening, N

\* The list whose concatenation is the cycle.
Entries(w) == [i \in DOMAIN w |-> [k \in 1 .. w[i] |-> i]]

LEMMA EntriesTyped ==
  ASSUME NEW w \in Seq(Nat)
  PROVE  /\ Entries(w) \in Seq(Seq(1 .. Len(w))) /\ Len(Entries(w)) = Len(w)
         /\ \A i \in 1 .. Len(w) : Entries(w)[i] = [k \in 1 .. w[i] |-> i]
<1>1. Len(w) \in Nat /\ DOMAIN w = 1 .. Len(w)
  OBVIOUS
<1>2. ASSUME NEW i \in 1 .. Len(w) PROVE [k \in 1 .. w[i] |-> i] \in Seq(1 .. Len(w))
  <2>1. w[i] \in Nat
    OBVIOUS
  <2> QED
    BY <2>1
<1>3. Entries(w) = [i \in 1 .. Len(w) |-> [k \in 1 .. w[i] |-> i]]
  BY <1>1 DEF Entries
<1> DEFINE T == Seq(1 .. Len(w))
           n == Len(w)
<1>4. Entries(w) \in [1 .. n -> T]
  BY <1>2, <1>3
<1>5. n \in Nat
  BY <1>1
<1> HIDE DEF T, n
<1>6. Entries(w) \in Seq(T) /\ Len(Entries(w)) = n
  BY <1>4, <1>5
<1> QED
  BY <1>3, <1>6 DEF T, n

\* Each entry has the places of its weight in the cycle.
LEMMA CycleLaid ==
  ASSUME NEW w \in Seq(Nat), Constructed(w), NoWrap(w), Len(w) # 0
  PROVE  Laid(w, Cycle(w), Len(w))
<1> DEFINE seqs == Entries(w)
           f == CHOOSE g : Flattening(seqs, g)
           N == Len(w)
<1>1. N \in Nat /\ Len(seqs) = N /\ N # 0
  BY EntriesTyped
<1>2. Flattening(seqs, f)
  BY EntriesTyped, FlatteningExists
<1>3. Cycle(w) = f[N]
  <2>1. Cycle(w) = FlattenSeq(seqs)
    BY DEF Cycle, Entries
  <2>2. FlattenSeq(seqs) = f[Len(seqs)]
    <3> HIDE DEF seqs
    <3> QED
      BY <1>1 DEF FlattenSeq, Flattening
  <2> QED
    BY <1>1, <2>1, <2>2
<1>4. \A i \in 1 .. N : f[i] = IF i = 1 THEN seqs[i] ELSE f[i - 1] \o seqs[i]
  <2>1. f = [i \in 1 .. Len(seqs) |-> IF i = 1 THEN seqs[i] ELSE f[i - 1] \o seqs[i]]
    BY <1>2 DEF Flattening
  <2> HIDE DEF f, seqs
  <2>2. \A i \in 1 .. Len(seqs) : f[i] = IF i = 1 THEN seqs[i] ELSE f[i - 1] \o seqs[i]
    BY <2>1, Zenon
  <2> QED
    BY <1>1, <2>2
<1>5. \A i \in 1 .. N : seqs[i] = [k \in 1 .. w[i] |-> i] /\ seqs[i] \in Seq(1 .. Len(w))
  BY EntriesTyped
<1> HIDE DEF f, seqs
<1> DEFINE S == {m \in Nat : m + 1 <= N => Laid(w, f[m + 1], m + 1)}
<1>6. 0 \in S
  <2>1. Laid(w, <<>>, 0)
    BY Sums DEF Laid
  <2>2. 1 \in 1 .. N
    BY <1>1
  <2>3. Laid(w, <<>> \o seqs[1], 1)
    <3>1. seqs[1] = [k \in 1 .. w[1] |-> 1]
      BY <1>5, <2>2
    <3>2. 0 \in Nat /\ 0 < N /\ 0 + 1 = 1
      BY <1>1
    <3>3. Laid(w, <<>> \o [k \in 1 .. w[0 + 1] |-> 0 + 1], 0 + 1)
      BY <2>1, <3>2, LaidNext
    <3> QED
      BY <3>1, <3>2, <3>3
  <2>4. f[1] = <<>> \o seqs[1]
    <3>1. f[1] = seqs[1] /\ seqs[1] \in Seq(1 .. Len(w))
      BY <1>4, <1>5, <2>2
    <3>2. \A x \in Seq(1 .. Len(w)) : <<>> \o x = x
      OBVIOUS
    <3> QED
      BY <3>1, <3>2
  <2>5. Laid(w, f[1], 1)
    BY <2>3, <2>4
  <2>6. 0 + 1 = 1
    OBVIOUS
  <2> HIDE DEF Laid
  <2> QED
    BY <2>5, <2>6
<1>7. \A m \in Nat : m \in S => m + 1 \in S
  <2> SUFFICES ASSUME NEW m \in Nat, m \in S, (m + 1) + 1 <= N
               PROVE  Laid(w, f[(m + 1) + 1], (m + 1) + 1)
    OBVIOUS
  <2> DEFINE n == m + 1
  <2>1. n \in Nat /\ n < N /\ n + 1 \in 1 .. N /\ n + 1 # 1 /\ (n + 1) - 1 = n
    BY <1>1
  <2>2. Laid(w, f[n], n)
    BY <2>1
  <2> HIDE DEF n
  <2>3. Laid(w, f[n] \o [k \in 1 .. w[n + 1] |-> n + 1], n + 1)
    BY <2>1, <2>2, LaidNext
  <2>4. f[n + 1] = f[n] \o seqs[n + 1]
    BY <1>4, <2>1
  <2>5. seqs[n + 1] = [k \in 1 .. w[n + 1] |-> n + 1]
    BY <1>5, <2>1
  <2>6. Laid(w, f[n + 1], n + 1)
    BY <2>3, <2>4, <2>5
  <2> QED
    BY <2>6 DEF n
<1>8. Nat \subseteq S
  <2> HIDE DEF S
  <2> QED
    BY <1>6, <1>7, Induction
<1>9. N - 1 \in Nat /\ (N - 1) + 1 = N /\ N <= N
  BY <1>1
<1>10. Laid(w, f[N], N)
  <2>1. N - 1 \in S
    BY <1>8, <1>9
  <2> HIDE DEF Laid
  <2> QED
    BY <1>9, <2>1
<1> QED
  BY <1>3, <1>10

-----------------------------------------------------------------------------
(* The answers                                                             *)

\* A counter within the cycle is in the places of one entry.
LEMMA Found ==
  ASSUME NEW w \in Seq(Nat), NEW n \in Nat, n < TotalWeight(w)
  PROVE  \E i \in 1 .. Len(w) : WeightBefore(w, i) <= n /\ n < WeightBefore(w, i + 1)
<1> DEFINE before(i) == WeightBefore(w, i)
           T == {i \in 1 .. Len(w) : n < before(i + 1)}
<1>1. Len(w) \in Nat /\ \A k \in 1 .. Len(w) + 1 : before(k) \in Nat
  BY Sums, ModulusAssumption
<1>2. before(1) = 0 /\ n < before(Len(w) + 1)
  BY Sums DEF TotalWeight
<1> HIDE DEF before
<1>3. Len(w) # 0
  BY <1>1, <1>2
<1>4. T # {} /\ T \subseteq Nat
  <2>1. Len(w) \in T
    BY <1>1, <1>2, <1>3
  <2> QED
    BY <2>1
<1>5. PICK i \in T : \A k \in T : i <= k
  <2> HIDE DEF T
  <2> QED
    BY <1>4, LeastNumber
<1>6. i \in 1 .. Len(w) /\ n < before(i + 1)
  BY <1>5
<1>7. before(i) <= n
  <2>1. CASE i = 1
    BY <1>2, <2>1
  <2>2. CASE i # 1
    <3>1. i - 1 \in 1 .. Len(w) /\ (i - 1) + 1 = i /\ ~(i <= i - 1)
      BY <1>1, <1>6, <2>2
    <3>2. i - 1 \notin T
      BY <1>5, <3>1
    <3>3. ~(n < before((i - 1) + 1))
      BY <3>1, <3>2
    <3>4. before(i) \in Nat
      BY <1>1, <1>6
    <3> QED
      BY <3>1, <3>3, <3>4
  <2> QED
    BY <2>1, <2>2
<1> QED
  BY <1>6, <1>7 DEF before

\* Whatever the weights, sums that wrap included, the loop finds an entry.
LEMMA SomePick ==
  ASSUME NEW w \in Seq(Nat), NEW n \in Nat, n < TotalWeight(w)
  PROVE  RoundRobinPick(w, n) # {}
<1> DEFINE reached == {i \in DOMAIN w : \A k \in 1 .. i : WeightBefore(w, k) <= n}
           T == {m \in Nat : \E i \in reached : m = Len(w) - i}
<1>1. Len(w) \in Nat /\ DOMAIN w = 1 .. Len(w) /\ WeightBefore(w, 1) = 0
  BY Sums
<1>2. Len(w) # 0
  BY <1>1 DEF TotalWeight
<1>3. 1 \in reached
  <2>1. 1 \in DOMAIN w /\ \A k \in 1 .. 1 : k = 1
    BY <1>1, <1>2
  <2> QED
    BY <1>1, <2>1
<1>4. \A i \in reached : i \in 1 .. Len(w) /\ Len(w) - i \in T
  <2> SUFFICES ASSUME NEW i \in reached PROVE i \in 1 .. Len(w) /\ Len(w) - i \in T
    OBVIOUS
  <2>1. i \in 1 .. Len(w)
    BY <1>1
  <2>2. Len(w) - i \in Nat
    BY <1>1, <2>1
  <2> HIDE DEF reached
  <2> QED
    BY <2>1, <2>2
<1>5. T # {} /\ T \subseteq Nat
  BY <1>3, <1>4
<1>6. PICK m \in T : \A k \in T : m <= k
  <2> HIDE DEF T
  <2> QED
    BY <1>5, LeastNumber
<1>7. PICK i \in reached : m = Len(w) - i
  BY <1>6
<1>8. \A k \in reached : k <= i
  <2> SUFFICES ASSUME NEW k \in reached PROVE k <= i
    OBVIOUS
  <2>1. Len(w) - i <= Len(w) - k /\ i \in 1 .. Len(w) /\ k \in 1 .. Len(w)
    BY <1>4, <1>6, <1>7
  <2> QED
    BY <1>1, <2>1
<1>9. i \in RoundRobinPick(w, n)
  BY <1>7, <1>8 DEF RoundRobinPick
<1> QED
  BY <1>9

\* As long as no sum wraps it is the one the cycle has at the place.
LEMMA PickFromCycle ==
  ASSUME NEW w \in Seq(Nat), Constructed(w), NoWrap(w),
         NEW n \in Nat, n < TotalWeight(w), NEW i \in RoundRobinPick(w, n)
  PROVE  i = Cycle(w)[n + 1]
<1> DEFINE before(k) == WeightBefore(w, k)
<1>1. /\ Len(w) \in Nat /\ DOMAIN w = 1 .. Len(w)
      /\ \A k \in 1 .. Len(w) + 1 : before(k) \in Nat
      /\ before(1) = 0 /\ n < before(Len(w) + 1)
  BY Sums, ModulusAssumption DEF TotalWeight
<1>2. \A j, k \in 1 .. Len(w) + 1 : j <= k => before(j) <= before(k)
  BY WeightsMonotone
<1>3. PICK p \in 1 .. Len(w) : before(p) <= n /\ n < before(p + 1)
  BY Found
<1>4. /\ i \in 1 .. Len(w) /\ \A k \in 1 .. i : before(k) <= n
      /\ \A k \in 1 .. Len(w) : (\A j \in 1 .. k : before(j) <= n) => k <= i
  BY <1>1 DEF RoundRobinPick
<1>5. Laid(w, Cycle(w), Len(w))
  BY <1>1, CycleLaid
<1> HIDE DEF before
<1>6. p <= i
  <2>1. ASSUME NEW j \in 1 .. p PROVE before(j) <= n
    <3>1. j \in 1 .. Len(w) + 1 /\ p \in 1 .. Len(w) + 1 /\ j <= p
      BY <1>1
    <3>2. before(j) <= before(p) /\ before(j) \in Nat /\ before(p) \in Nat
      BY <1>1, <1>2, <3>1
    <3> QED
      BY <1>3, <3>2
  <2> QED
    BY <1>4, <2>1
<1>7. ~(p + 1 <= i)
  <2> SUFFICES ASSUME p + 1 <= i PROVE FALSE
    OBVIOUS
  <2>1. p + 1 \in 1 .. i /\ p + 1 \in 1 .. Len(w) + 1
    BY <1>1, <1>4
  <2>2. before(p + 1) <= n /\ before(p + 1) \in Nat
    BY <1>1, <1>4, <2>1
  <2> QED
    BY <1>3, <2>2
<1>8. i = p
  BY <1>1, <1>4, <1>6, <1>7
<1>9. n + 1 \in before(p) + 1 .. before(p + 1)
  <2>1. before(p) \in Nat /\ before(p + 1) \in Nat
    BY <1>1
  <2> QED
    BY <1>3, <2>1
<1> QED
  BY <1>5, <1>8, <1>9 DEF Laid, before

-----------------------------------------------------------------------------
(* The invariants                                                          *)

IInv == TypeOK /\ Constructed(weights)

\* The counter is the number of answers, wrapped at the length of the cycle.
CycleInv ==
  /\ nextCalled = Len(answers) % TotalWeight(weights)
  /\ \A n \in DOMAIN answers :
       answers[n] = Cycle(weights)[((n - 1) % TotalWeight(weights)) + 1]

LEMMA TotalTyped ==
  ASSUME NEW w \in WeightLists, Constructed(w)
  PROVE  w \in Seq(Nat) /\ TotalWeight(w) \in Nat \ {0} /\ Len(w) # 0
<1>1. w \in Seq(Nat) /\ Len(w) \in Nat
  BY RoundRobinAssumption
<1>2. Len(w) + 1 \in 1 .. Len(w) + 1
  BY <1>1
<1>3. TotalWeight(w) \in 0 .. WeightModulus - 1 /\ WeightBefore(w, 1) = 0
  BY <1>1, <1>2, Sums DEF TotalWeight
<1>4. TotalWeight(w) # 0
  BY DEF Constructed
<1>5. Len(w) # 0
  BY <1>3, <1>4 DEF TotalWeight
<1> QED
  BY <1>1, <1>3, <1>4, <1>5, ModulusAssumption

LEMMA InvariantInitially == Init => IInv /\ CycleInv
<1> SUFFICES ASSUME Init PROVE IInv /\ CycleInv
  OBVIOUS
<1>1. weights \in WeightLists /\ Constructed(weights) /\ nextCalled = 0 /\ answers = <<>>
  BY DEF Init
<1>2. TotalWeight(weights) \in Nat \ {0}
  BY <1>1, TotalTyped
<1>3. TypeOK
  <2>1. <<>> \in Seq(DOMAIN weights) /\ 0 \in 0 .. TotalWeight(weights) - 1
    BY <1>2
  <2> QED
    BY <1>1, <2>1 DEF TypeOK
<1>4. Len(answers) % TotalWeight(weights) = 0
  <2>1. Len(answers) = 0
    BY <1>1
  <2>2. 0 % TotalWeight(weights) = 0
    BY <1>2, SmallRemainder
  <2> QED
    BY <2>1, <2>2
<1> QED
  BY <1>1, <1>3, <1>4 DEF IInv, CycleInv

\* What a call does.
LEMMA CallAnswers ==
  ASSUME IInv, CallNextStage
  PROVE  /\ weights' = weights /\ weights \in Seq(Nat) /\ nextCalled \in Nat
         /\ nextCalled < TotalWeight(weights) /\ TotalWeight(weights) \in Nat \ {0}
         /\ answers \in Seq(DOMAIN weights)
         /\ nextCalled' = (nextCalled + 1) % TotalWeight(weights)
         /\ \E i \in RoundRobinPick(weights, nextCalled) : answers' = Append(answers, i)
<1>1. weights \in WeightLists /\ Constructed(weights) /\ answers \in Seq(DOMAIN weights)
  BY DEF IInv, TypeOK
<1>2. weights \in Seq(Nat) /\ TotalWeight(weights) \in Nat \ {0}
  BY <1>1, TotalTyped
<1>3. nextCalled \in Nat /\ nextCalled < TotalWeight(weights)
  BY <1>2 DEF IInv, TypeOK
<1> QED
  BY <1>1, <1>2, <1>3 DEF CallNextStage

LEMMA InvariantKept == IInv /\ [Next]_vars => IInv'
<1> SUFFICES ASSUME IInv, [Next]_vars PROVE IInv'
  OBVIOUS
<1>1. CASE UNCHANGED vars
  BY <1>1 DEF IInv, TypeOK, vars
<1>2. CASE CallNextStage
  <2> DEFINE t == TotalWeight(weights)
  <2>1. /\ weights' = weights /\ t \in Nat \ {0} /\ nextCalled \in Nat
        /\ answers \in Seq(DOMAIN weights) /\ nextCalled' = (nextCalled + 1) % t
    BY <1>2, CallAnswers
  <2>2. PICK i \in RoundRobinPick(weights, nextCalled) : answers' = Append(answers, i)
    BY <1>2, CallAnswers
  <2>3. i \in DOMAIN weights
    BY DEF RoundRobinPick
  <2>4. answers' \in Seq(DOMAIN weights)
    BY <2>1, <2>2, <2>3
  <2>5. nextCalled' \in 0 .. t - 1
    <3> HIDE DEF t
    <3> QED
      BY <2>1
  <2> QED
    BY <2>1, <2>4, <2>5 DEF IInv, TypeOK
<1> QED
  BY <1>1, <1>2 DEF Next

LEMMA CycleKept ==
  ASSUME NoWrap(weights), IInv, CycleInv, [Next]_vars
  PROVE  CycleInv'
<1>1. CASE UNCHANGED vars
  BY <1>1 DEF CycleInv, vars
<1>2. CASE CallNextStage
  <2> DEFINE t == TotalWeight(weights)
             cycle == Cycle(weights)
             n == Len(answers)
  <2>1. /\ weights' = weights /\ weights \in Seq(Nat) /\ t \in Nat \ {0}
        /\ nextCalled \in Nat /\ nextCalled < t
        /\ answers \in Seq(DOMAIN weights) /\ n \in Nat
        /\ nextCalled' = (nextCalled + 1) % t
    BY <1>2, CallAnswers
  <2>2. PICK i \in RoundRobinPick(weights, nextCalled) : answers' = Append(answers, i)
    BY <1>2, CallAnswers
  <2>3. i = cycle[nextCalled + 1]
    BY <2>1, PickFromCycle DEF IInv
  <2>4. nextCalled = n % t /\ \A k \in DOMAIN answers : answers[k] = cycle[((k - 1) % t) + 1]
    BY DEF CycleInv
  <2>5. i \in DOMAIN weights
    BY DEF RoundRobinPick
  <2>6. /\ Len(answers') = n + 1 /\ answers'[n + 1] = i /\ DOMAIN answers = 1 .. n
        /\ DOMAIN answers' = 1 .. n + 1
        /\ \A k \in 1 .. n : answers'[k] = answers[k]
    BY <2>1, <2>2, <2>5
  <2> HIDE DEF t, cycle, n
  <2>7. nextCalled' = (n + 1) % t
    BY <2>1, <2>4, NextRemainder
  <2>8. ASSUME NEW k \in 1 .. n + 1 PROVE answers'[k] = cycle[((k - 1) % t) + 1]
    <3>1. CASE k = n + 1
      <4>1. k - 1 = n
        BY <2>1, <3>1
      <4>2. (k - 1) % t = nextCalled
        BY <2>4, <4>1
      <4> QED
        BY <2>3, <2>6, <3>1, <4>2
    <3>2. CASE k \in 1 .. n
      BY <2>4, <2>6, <3>2
    <3> QED
      BY <2>1, <3>1, <3>2
  <2> QED
    BY <2>1, <2>6, <2>7, <2>8 DEF CycleInv, t, cycle, n
<1> QED
  BY <1>1, <1>2 DEF Next

\* Each call of RoundRobinTransition::next_stage finds an entry, whatever the
\* weights: sums that wrap included, as long as their total is not zero.
THEOREM EveryCallAnswered == Spec => [](TypeOK /\ RoundRobinPick(weights, nextCalled) # {})
<1>1. Spec => []IInv
  BY InvariantInitially, InvariantKept, PTL DEF Spec
<1>2. IInv => TypeOK /\ RoundRobinPick(weights, nextCalled) # {}
  <2> SUFFICES ASSUME IInv PROVE TypeOK /\ RoundRobinPick(weights, nextCalled) # {}
    OBVIOUS
  <2>1. weights \in Seq(Nat) /\ TotalWeight(weights) \in Nat \ {0} /\ TypeOK
    BY TotalTyped DEF IInv, TypeOK
  <2>2. nextCalled \in Nat /\ nextCalled < TotalWeight(weights)
    BY <2>1 DEF TypeOK
  <2> QED
    BY <2>1, <2>2, SomePick
<1> QED
  BY <1>1, <1>2, PTL

\* The calls of next_stage are answered in the order of the documented cycle,
\* over and over, for any list whose sums of weights do not wrap.
THEOREM CycleIsServed ==
  ASSUME \A w \in WeightLists : NoWrap(w)
  PROVE  Spec => []ServedInTurn
<1>1. Spec => []IInv
  BY InvariantInitially, InvariantKept, PTL DEF Spec
<1>2. IInv /\ CycleInv /\ [Next]_vars => CycleInv'
  <2>1. IInv => NoWrap(weights)
    BY DEF IInv, TypeOK
  <2> QED
    BY <2>1, CycleKept
<1>3. Spec => []CycleInv
  BY <1>1, <1>2, InvariantInitially, PTL DEF Spec
<1>4. (TypeOK /\ RoundRobinPick(weights, nextCalled) # {}) /\ IInv /\ CycleInv => ServedInTurn
  <2> SUFFICES ASSUME TypeOK, RoundRobinPick(weights, nextCalled) # {}, IInv, CycleInv
               PROVE  ServedInTurn
    OBVIOUS
  <2>1. weights \in Seq(Nat) /\ Constructed(weights) /\ NoWrap(weights) /\ Len(weights) # 0
    BY TotalTyped DEF IInv, TypeOK
  <2>2. Len(Cycle(weights)) = TotalWeight(weights)
    BY <2>1, CycleLaid DEF Laid, TotalWeight
  <2> QED
    BY <2>2 DEF CycleInv, ServedInTurn
<1> QED
  BY <1>1, <1>3, <1>4, EveryCallAnswered, PTL
=============================================================================
