-------------------------- MODULE FloorFieldProofs --------------------------
(***************************************************************************)
(* What holds of FloorField for every surface, numbering of its regions,   *)
(* destination and budget: whatever has been solved so far is part of the  *)
(* solution, and the solution is that of a single grid.                    *)
(***************************************************************************)
EXTENDS FloorField, FiniteSetTheorems, WellFoundedInduction, TLAPS

-----------------------------------------------------------------------------
(* Natural numbers                                                         *)

LEMMA LeastNumber ==
  ASSUME NEW T, T \subseteq Nat, T # {}
  PROVE  \E x \in T : \A y \in T : x <= y
<1>1. PICK x \in T : \A y \in T : ~(<<y, x>> \in OpToRel(<, Nat))
  BY NatLessThanWellFounded, WFMin
<1>2. \A y \in Nat : y < x => <<y, x>> \in OpToRel(<, Nat)
  BY Zenon DEF OpToRel
<1>3. \A y \in T : ~(y < x)
  BY <1>1, <1>2, Zenon
<1>4. \A y \in T : x <= y
  BY <1>3
<1> QED
  BY <1>4

\* Induction, with the set of the numbers that have the property.
LEMMA Induction ==
  ASSUME NEW S, 0 \in S, \A n \in Nat : n \in S => n + 1 \in S
  PROVE  Nat \subseteq S
<1>1. SUFFICES ASSUME Nat \ S # {} PROVE FALSE
  BY Zenon
<1>2. PICK x \in Nat \ S : \A y \in Nat \ S : x <= y
  <2>1. Nat \ S \subseteq Nat
    OBVIOUS
  <2> QED
    BY <1>1, <2>1, LeastNumber, Zenon
<1>3. x # 0 /\ x - 1 \in Nat /\ x - 1 + 1 = x
  BY <1>2
<1>4. x - 1 \notin Nat \ S
  BY <1>2, <1>3
<1> QED
  BY <1>2, <1>3, <1>4

Steps(N, A) == [A \X (1 .. N) -> A]

\* f is defined by recursion over 0 .. N, each value from the one before.
Recursive(f, N, A, first, step) ==
  /\ f \in [0 .. N -> A]
  /\ f[0] = first
  /\ \A i \in 1 .. N : f[i] = step[<<f[i - 1], i>>]

LEMMA Recursion ==
  ASSUME NEW N \in Nat, NEW A, NEW first \in A, NEW step \in Steps(N, A)
  PROVE  \E f : Recursive(f, N, A, first, step)
<1> USE DEF Steps
<1> DEFINE UpTo(n, f) == /\ f \in [0 .. n -> A]
                         /\ f[0] = first
                         /\ \A i \in 1 .. n : f[i] = step[<<f[i - 1], i>>]
           S == {n \in Nat : n <= N => \E f : UpTo(n, f)}
<1>1. 0 \in S
  <2>1. UpTo(0, [i \in 0 .. 0 |-> first])
    OBVIOUS
  <2> QED
    BY <2>1
<1>2. \A n \in Nat : n \in S => n + 1 \in S
  <2> SUFFICES ASSUME NEW n \in Nat, n \in S, n + 1 <= N
               PROVE  \E f : UpTo(n + 1, f)
    OBVIOUS
  <2>1. PICK f : UpTo(n, f)
    OBVIOUS
  <2> DEFINE g == [i \in 0 .. n + 1 |-> IF i = n + 1 THEN step[<<f[n], n + 1>>] ELSE f[i]]
  <2>2. f[n] \in A /\ n + 1 \in 1 .. N
    BY <2>1
  <2>3. <<f[n], n + 1>> \in A \X (1 .. N)
    BY <2>2
  <2>4. step[<<f[n], n + 1>>] \in A
    BY <2>3
  <2>5. g \in [0 .. n + 1 -> A]
    BY <2>1, <2>4
  <2>6. g[0] = first
    BY <2>1
  <2>7. \A i \in 1 .. n + 1 : g[i] = step[<<g[i - 1], i>>]
    <3> SUFFICES ASSUME NEW i \in 1 .. n + 1
                 PROVE  g[i] = step[<<g[i - 1], i>>]
      OBVIOUS
    <3>1. g[i - 1] = f[i - 1]
      OBVIOUS
    <3>2. CASE i = n + 1
      <4>1. i - 1 = n /\ g[i] = step[<<f[n], n + 1>>]
        BY <3>2
      <4> QED
        BY <3>1, <3>2, <4>1
    <3>3. CASE i # n + 1
      <4>1. i \in 1 .. n /\ g[i] = f[i]
        BY <3>3
      <4> QED
        BY <2>1, <3>1, <4>1
    <3> QED
      BY <3>2, <3>3
  <2> HIDE DEF g
  <2> QED
    BY <2>5, <2>6, <2>7
<1>3. Nat \subseteq S
  <2> HIDE DEF S
  <2> QED
    BY <1>1, <1>2, Induction, Zenon
<1>4. N \in S
  <2> HIDE DEF S
  <2> QED
    BY <1>3
<1>5. \E f : UpTo(N, f)
  <2> HIDE DEF UpTo
  <2> QED
    BY <1>4 DEF S
<1> QED
  BY <1>5 DEF Recursive

-----------------------------------------------------------------------------
(* Times                                                                   *)

LEMMA Bounds ==
  /\ Infinity \in Nat /\ Eps \in Nat /\ Eps < Infinity /\ Infinity % (Eps + 1) = 0
  /\ Time \subseteq Nat /\ 0 \in Time /\ Infinity \in Time
BY FieldAssumption DEF Time

LEMMA LeastTime ==
  ASSUME NEW S, S \subseteq Nat
  PROVE  /\ Least(S) \in S \cup {Infinity}
         /\ Least(S) \in Time
         /\ \A u \in S : Least(S) <= u
<1>1. S \cup {Infinity} \subseteq Nat /\ S \cup {Infinity} # {} /\ Infinity \in Nat
  BY Bounds
<1>2. \E t \in S \cup {Infinity} : \A u \in S \cup {Infinity} : t <= u
  BY <1>1, LeastNumber
<1>3. Least(S) \in S \cup {Infinity} /\ \A u \in S \cup {Infinity} : Least(S) <= u
  BY <1>2 DEF Least
<1>4. Least(S) \in Nat /\ Least(S) <= Infinity
  BY <1>1, <1>3
<1> QED
  BY <1>1, <1>3, <1>4 DEF Time

LEMMA TimesAddUp ==
  ASSUME NEW a \in Nat, NEW b \in Nat
  PROVE  /\ Plus(a, b) \in Time
         /\ Plus(a, b) <= a + b
         /\ Plus(a, b) # Infinity => Plus(a, b) = a + b
         /\ Plus(a, b) = Infinity <=> a + b >= Infinity
BY Bounds DEF Plus, Min2, Time

-----------------------------------------------------------------------------
(* The reference: no way is shorter than the shortest way of few legs      *)

Places == geo \in Geometries /\ goal \in SUBSET Cell

\* The arrivals on ways with one more leg.
Extended(A) ==
  UNION {{a} \cup {<<g[1], Plus(a[2], g[2])>> : g \in Legs(a[1])} : a \in A}

\* The arrivals W[n] on ways of at most n legs.
LegByLeg(W) ==
  /\ W \in [0 .. Cardinality(Cell) - 1 -> SUBSET (Cell \X Time)]
  /\ W[0] = goal \X {0}
  /\ \A i \in 1 .. Cardinality(Cell) - 1 : W[i] = Extended(W[i - 1])

LEMMA CellsCounted == Cardinality(Cell) - 1 \in Nat
BY FieldAssumption, FS_CardinalityType, FS_EmptySet

LEMMA SurfaceTypes ==
  ASSUME Places
  PROVE  /\ geo \in Geometry
         /\ geo.home \in [Cell -> Region] /\ geo.inside \in [Cell -> [Cell -> Time]]
         /\ geo.pairs \in [Region -> Seq(Cell \X Cell \X Nat)]
BY FieldAssumption DEF Places, Geometry

LEMMA LegsLeadToCells ==
  ASSUME Places, NEW c \in Cell
  PROVE  \A g \in Legs(c) : g \in Cell \X Nat
<1>1. geo.pairs[geo.home[c]] \in Seq(Cell \X Cell \X Nat)
  BY SurfaceTypes
<1>2. \A q \in ToSet(geo.pairs[geo.home[c]]) : q \in Cell \X Cell \X Nat
  BY <1>1 DEF ToSet
<1>3. \A e \in Cell : geo.inside[c][e] \in Nat
  BY SurfaceTypes, Bounds
<1> QED
  BY <1>2, <1>3 DEF Legs

LEMMA ExtendedKeeps ==
  ASSUME Places, NEW A \in SUBSET (Cell \X Time)
  PROVE  Extended(A) \in SUBSET (Cell \X Time) /\ A \subseteq Extended(A)
<1>1. ASSUME NEW a \in A, NEW g \in Legs(a[1])
      PROVE  <<g[1], Plus(a[2], g[2])>> \in Cell \X Time
  <2>1. a[1] \in Cell /\ a[2] \in Nat
    BY Bounds
  <2>2. g[1] \in Cell /\ g[2] \in Nat
    BY <2>1, LegsLeadToCells
  <2> QED
    BY <2>1, <2>2, TimesAddUp
<1> QED
  BY <1>1 DEF Extended

LEMMA ArrivalsLegByLeg ==
  ASSUME Places
  PROVE  \E W : LegByLeg(W) /\ Arrivals = W[Cardinality(Cell) - 1]
<1> DEFINE N == Cardinality(Cell) - 1
           A == SUBSET (Cell \X Time)
           After == CHOOSE W : W = [n \in 0 .. N |-> IF n = 0 THEN goal \X {0} ELSE Extended(W[n - 1])]
<1>1. N \in Nat
  BY CellsCounted
<1>2. goal \X {0} \in A
  BY Bounds DEF Places
<1>3. PICK step : step = [x \in A \X (1 .. N) |-> Extended(x[1])]
  OBVIOUS
<1>4. step \in Steps(N, A)
  BY <1>3, ExtendedKeeps DEF Steps
<1>5. PICK f : Recursive(f, N, A, goal \X {0}, step)
  <2> HIDE DEF N, A
  <2> QED
    BY <1>1, <1>2, <1>4, Recursion
<1>6. \A i \in 1 .. N : f[i] = Extended(f[i - 1])
  <2> SUFFICES ASSUME NEW i \in 1 .. N PROVE f[i] = Extended(f[i - 1])
    OBVIOUS
  <2>1. f[i - 1] \in A
    BY <1>1, <1>5 DEF Recursive
  <2> QED
    BY <1>3, <1>5, <2>1 DEF Recursive
<1>7. f = [n \in 0 .. N |-> IF n = 0 THEN goal \X {0} ELSE Extended(f[n - 1])]
  BY <1>1, <1>5, <1>6 DEF Recursive
<1>8. After = [n \in 0 .. N |-> IF n = 0 THEN goal \X {0} ELSE Extended(After[n - 1])]
  BY <1>7
<1>9. Arrivals = After[N]
  BY DEF Arrivals, Extended
<1> HIDE DEF After
<1>10. /\ DOMAIN After = 0 .. N /\ After = [n \in 0 .. N |-> After[n]]
       /\ After[0] = goal \X {0}
       /\ \A i \in 1 .. N : After[i] = Extended(After[i - 1])
  <2>1. 0 \in 0 .. N /\ \A i \in 1 .. N : i \in 0 .. N /\ i # 0
    BY <1>1
  <2> HIDE DEF N
  <2> QED
    BY <2>1, <1>8
<1>11. \A n \in 0 .. N : After[n] \in A
  <2> DEFINE S == {n \in Nat : n <= N => After[n] \in A}
  <2>1. 0 \in S
    BY <1>2, <1>10
  <2>2. \A n \in Nat : n \in S => n + 1 \in S
    <3> SUFFICES ASSUME NEW n \in Nat, n \in S, n + 1 <= N
                 PROVE  After[n + 1] \in A
      OBVIOUS
    <3>1. After[n] \in A /\ n + 1 \in 1 .. N /\ n + 1 - 1 = n
      BY <1>1
    <3>2. \A i \in 1 .. N : After[i] = Extended(After[i - 1])
      BY <1>10
    <3>3. After[n + 1] = Extended(After[n])
      <4> HIDE DEF S, N
      <4> QED
        BY <3>1, <3>2
    <3> QED
      BY <3>1, <3>3, ExtendedKeeps
  <2> HIDE DEF S
  <2>3. Nat \subseteq S
    BY <2>1, <2>2, Induction
  <2> QED
    BY <1>1, <2>3 DEF S
<1>12. LegByLeg(After)
  <2>1. After \in [0 .. N -> A]
    BY <1>10, <1>11
  <2> QED
    BY <1>10, <2>1 DEF LegByLeg
<1> QED
  BY <1>9, <1>12

\* The arrivals on ways of any number of legs: the least set with those at the
\* destination and, with each, those one leg farther.
Closed(A) == goal \X {0} \subseteq A /\ Extended(A) \subseteq A

Ways == {a \in Cell \X Time : \A A \in SUBSET (Cell \X Time) : Closed(A) => a \in A}

LEMMA WaysGoOn ==
  ASSUME Places
  PROVE  /\ Ways \in SUBSET (Cell \X Time) /\ goal \X {0} \subseteq Ways
         /\ \A a \in Ways : \A g \in Legs(a[1]) : <<g[1], Plus(a[2], g[2])>> \in Ways
<1>1. goal \X {0} \subseteq Ways
  BY Bounds DEF Ways, Closed, Places
<1>2. ASSUME NEW a \in Ways, NEW g \in Legs(a[1])
      PROVE  <<g[1], Plus(a[2], g[2])>> \in Ways
  <2>1. a \in Cell \X Time /\ a[1] \in Cell /\ a[2] \in Nat
    BY Bounds DEF Ways
  <2>2. g[1] \in Cell /\ g[2] \in Nat
    BY <2>1, LegsLeadToCells
  <2>3. <<g[1], Plus(a[2], g[2])>> \in Cell \X Time
    BY <2>1, <2>2, TimesAddUp
  <2>4. ASSUME NEW A \in SUBSET (Cell \X Time), Closed(A)
        PROVE  <<g[1], Plus(a[2], g[2])>> \in A
    <3>1. a \in A
      BY <2>4 DEF Ways
    <3>2. <<g[1], Plus(a[2], g[2])>> \in Extended(A)
      BY <3>1 DEF Extended
    <3> QED
      BY <2>4, <3>2 DEF Closed
  <2> QED
    BY <2>3, <2>4 DEF Ways
<1> QED
  BY <1>1, <1>2 DEF Ways

LEMMA TravelTimes ==
  ASSUME NEW A \in SUBSET (Cell \X Time)
  PROVE  /\ TravelTime(A) \in [Cell -> Time]
         /\ \A a \in A : TravelTime(A)[a[1]] <= a[2]
         /\ \A c \in Cell : TravelTime(A)[c] # Infinity => <<c, TravelTime(A)[c]>> \in A
<1> DEFINE At(c) == {a[2] : a \in {b \in A : b[1] = c}}
<1>1. \A c \in Cell : At(c) \subseteq Nat
  BY Bounds
<1>2. \A c \in Cell : TravelTime(A)[c] = Least(At(c))
  BY DEF TravelTime
<1>3. \A c \in Cell : /\ Least(At(c)) \in At(c) \cup {Infinity}
                      /\ Least(At(c)) \in Time
                      /\ \A u \in At(c) : Least(At(c)) <= u
  <2> HIDE DEF At
  <2> QED
    BY <1>1, LeastTime
<1>4. TravelTime(A) \in [Cell -> Time]
  BY <1>3 DEF TravelTime
<1>5. \A a \in A : TravelTime(A)[a[1]] <= a[2]
  <2> SUFFICES ASSUME NEW a \in A PROVE TravelTime(A)[a[1]] <= a[2]
    OBVIOUS
  <2>1. a[1] \in Cell /\ a[2] \in At(a[1])
    OBVIOUS
  <2> HIDE DEF At
  <2> QED
    BY <1>2, <1>3, <2>1
<1>6. ASSUME NEW c \in Cell, TravelTime(A)[c] # Infinity
      PROVE  <<c, TravelTime(A)[c]>> \in A
  <2>1. PICK t : t = TravelTime(A)[c]
    OBVIOUS
  <2>2. t \in At(c)
    <3> HIDE DEF At
    <3> QED
      BY <1>2, <1>3, <1>6, <2>1
  <2>3. PICK a \in A : a[1] = c /\ a[2] = t
    BY <2>2
  <2>4. a = <<c, t>>
    BY <2>3
  <2> QED
    BY <2>1, <2>3, <2>4
<1> QED
  BY <1>4, <1>5, <1>6

\* The times of all ways are the least arrivals along each leg.
LEMMA LegsAreNoShortcuts ==
  ASSUME Places, NEW c \in Cell, NEW g \in Legs(c)
  PROVE  /\ g[1] \in Cell /\ g[2] \in Nat
         /\ TravelTime(Ways)[c] \in Time /\ TravelTime(Ways)[g[1]] \in Time
         /\ TravelTime(Ways)[g[1]] <= Plus(TravelTime(Ways)[c], g[2])
<1> DEFINE d == TravelTime(Ways)
<1>1. /\ d \in [Cell -> Time] /\ \A a \in Ways : d[a[1]] <= a[2]
      /\ \A b \in Cell : d[b] # Infinity => <<b, d[b]>> \in Ways
  BY WaysGoOn, TravelTimes
<1> HIDE DEF d
<1>2. g[1] \in Cell /\ g[2] \in Nat /\ d[c] \in Time /\ d[g[1]] \in Time /\ d[c] \in Nat
  BY <1>1, LegsLeadToCells, Bounds
<1>3. CASE d[c] = Infinity
  <2>1. Plus(d[c], g[2]) = Infinity
    <3>1. PICK l \in Nat : l = g[2]
      BY <1>2
    <3>2. Plus(Infinity, l) = Infinity
      BY <3>1, Bounds DEF Plus, Min2
    <3> QED
      BY <1>3, <3>1, <3>2
  <2>2. d[g[1]] <= Infinity
    BY <1>2 DEF Time
  <2> QED
    BY <1>2, <2>1, <2>2 DEF d
<1>4. CASE d[c] # Infinity
  <2>1. <<c, d[c]>> \in Ways
    BY <1>1, <1>4
  <2>2. <<g[1], Plus(d[c], g[2])>> \in Ways
    BY <2>1, WaysGoOn
  <2>3. d[g[1]] <= Plus(d[c], g[2])
    BY <1>1, <2>2
  <2> QED
    BY <1>2, <2>3 DEF d
<1> QED
  BY <1>3, <1>4

LEMMA ExtendedWithin ==
  ASSUME NEW A, \A a \in A : \A g \in Legs(a[1]) : <<g[1], Plus(a[2], g[2])>> \in A
  PROVE  Extended(A) \subseteq A
BY DEF Extended

\* One more leg settles no further cell.
Stagnant(A) ==
  /\ A \in SUBSET (Cell \X Time) /\ goal \X {0} \subseteq A /\ A \subseteq Ways
  /\ \A b \in Cell :
       TravelTime(Ways)[b] # Infinity /\ <<b, TravelTime(Ways)[b]>> \in Extended(A)
         => <<b, TravelTime(Ways)[b]>> \in A

LEMMA NothingNewIsAll ==
  ASSUME Places, NEW A, Stagnant(A), NEW c \in Cell, TravelTime(Ways)[c] # Infinity
  PROVE  <<c, TravelTime(Ways)[c]>> \in A
<1> USE DEF Stagnant
<1> DEFINE d == TravelTime(Ways)
           B == {a \in Cell \X Time :
                   d[a[1]] <= a[2] /\ (<<a[1], d[a[1]]>> \in A \/ a[2] # d[a[1]] \/ a[2] = Infinity)}
<1>1. /\ d \in [Cell -> Time] /\ \A a \in Ways : d[a[1]] <= a[2]
      /\ \A b \in Cell : d[b] # Infinity => <<b, d[b]>> \in Ways
  BY WaysGoOn, TravelTimes
<1>2. \A b \in Cell : d[b] \in Nat /\ d[b] <= Infinity
  BY <1>1, Bounds DEF Time
<1>3. \A b \in Cell : d[b] # Infinity /\ <<b, d[b]>> \in Extended(A) => <<b, d[b]>> \in A
  OBVIOUS
<1>4. \A b \in Cell : \A g \in Legs(b) :
         g[1] \in Cell /\ g[2] \in Nat /\ d[g[1]] <= Plus(d[b], g[2])
  BY LegsAreNoShortcuts
<1> HIDE DEF d
<1>5. goal \X {0} \subseteq B
  <2> SUFFICES ASSUME NEW b \in goal PROVE <<b, 0>> \in B
    OBVIOUS
  <2>1. b \in Cell /\ <<b, 0>> \in A /\ <<b, 0>> \in Ways
    BY DEF Places
  <2>2. d[b] <= 0
    BY <1>1, <2>1
  <2>3. d[b] = 0
    BY <1>2, <2>1, <2>2
  <2> QED
    BY <2>1, <2>3, Bounds
<1>6. Extended(B) \subseteq B
  <2> SUFFICES ASSUME NEW a \in B, NEW g \in Legs(a[1])
               PROVE  <<g[1], Plus(a[2], g[2])>> \in B
    <3> HIDE DEF B
    <3> QED
      BY ExtendedWithin
  <2>1. PICK b \in Cell, t \in Time : a = <<b, t>>
    OBVIOUS
  <2>2. t \in Nat /\ t <= Infinity /\ d[b] <= t /\ (<<b, d[b]>> \in A \/ t # d[b] \/ t = Infinity)
    BY <2>1, Bounds DEF Time
  <2>3. PICK e, l : e = g[1] /\ l = g[2]
    OBVIOUS
  <2>4. e \in Cell /\ l \in Nat /\ d[e] <= Plus(d[b], l)
    BY <1>4, <2>1, <2>3
  <2>5. d[b] \in Nat /\ d[e] \in Nat /\ d[e] <= Infinity /\ d[b] <= Infinity
    BY <1>2, <2>4
  <2>6. Plus(t, l) \in Time /\ Plus(d[b], l) <= Plus(t, l)
    BY <2>2, <2>4, <2>5, Bounds DEF Plus, Min2, Time
  <2>7. d[e] <= Plus(t, l)
    <3>1. Plus(d[b], l) \in Nat /\ Plus(t, l) \in Nat
      BY <2>2, <2>4, <2>5, TimesAddUp, Bounds
    <3> QED
      BY <2>4, <2>5, <2>6, <3>1
  <2>8. ASSUME Plus(t, l) = d[e], Plus(t, l) # Infinity
        PROVE  <<e, d[e]>> \in A
    <3>1. t = d[b] /\ t # Infinity
      BY <2>2, <2>4, <2>5, <2>8, Bounds DEF Plus, Min2
    <3>2. <<b, d[b]>> \in A
      BY <2>2, <3>1
    <3>3. <<e, Plus(d[b], l)>> \in Extended(A)
      BY <2>1, <2>3, <3>2 DEF Extended
    <3> QED
      BY <1>3, <2>4, <2>8, <3>1, <3>3
  <2>9. <<e, Plus(t, l)>> \in B
    BY <2>4, <2>6, <2>7, <2>8
  <2> QED
    BY <2>1, <2>3, <2>9
<1>7. Ways \subseteq B
  <2>1. B \in SUBSET (Cell \X Time) /\ Closed(B)
    BY <1>5, <1>6 DEF Closed
  <2> HIDE DEF B
  <2> QED
    BY <2>1 DEF Ways
<1>8. <<c, d[c]>> \in B /\ d[c] # Infinity
  BY <1>1, <1>7 DEF d
<1> QED
  BY <1>8 DEF d

LEMMA LegByLegGrows ==
  ASSUME Places, NEW W, LegByLeg(W)
  PROVE  /\ \A n \in 0 .. Cardinality(Cell) - 1 :
              W[n] \in SUBSET (Cell \X Time) /\ goal \X {0} \subseteq W[n] /\ W[n] \subseteq Ways
         /\ \A n \in Nat : n + 1 <= Cardinality(Cell) - 1 => W[n + 1] = Extended(W[n])
<1> DEFINE N == Cardinality(Cell) - 1
           S == {n \in Nat : n <= N => goal \X {0} \subseteq W[n] /\ W[n] \subseteq Ways}
<1>1. N \in Nat /\ \A n \in 0 .. N : W[n] \in SUBSET (Cell \X Time)
  BY CellsCounted DEF LegByLeg
<1>2. \A n \in Nat : n + 1 <= N => W[n + 1] = Extended(W[n])
  <2> SUFFICES ASSUME NEW n \in Nat, n + 1 <= N PROVE W[n + 1] = Extended(W[n])
    OBVIOUS
  <2>1. n + 1 \in 1 .. N /\ n + 1 - 1 = n
    BY <1>1
  <2>2. \A i \in 1 .. N : W[i] = Extended(W[i - 1])
    BY DEF LegByLeg
  <2> HIDE DEF N
  <2> QED
    BY <2>1, <2>2
<1>3. 0 \in S
  BY WaysGoOn DEF LegByLeg
<1>4. \A n \in Nat : n \in S => n + 1 \in S
  <2> SUFFICES ASSUME NEW n \in Nat, n \in S, n + 1 <= N
               PROVE  goal \X {0} \subseteq W[n + 1] /\ W[n + 1] \subseteq Ways
    OBVIOUS
  <2>1. W[n] \in SUBSET (Cell \X Time) /\ goal \X {0} \subseteq W[n] /\ W[n] \subseteq Ways
    BY <1>1
  <2>2. W[n] \subseteq Extended(W[n])
    BY <2>1, ExtendedKeeps
  <2>3. Extended(W[n]) \subseteq Ways
    BY <2>1, WaysGoOn DEF Extended
  <2>4. W[n + 1] = Extended(W[n])
    BY <1>2
  <2> QED
    BY <2>1, <2>2, <2>3, <2>4
<1>5. Nat \subseteq S
  <2> HIDE DEF S
  <2> QED
    BY <1>3, <1>4, Induction
<1> QED
  BY <1>1, <1>2, <1>5

\* As many legs as there are other cells are enough.
LEMMA FewLegs ==
  ASSUME Places, NEW W, LegByLeg(W),
         NEW c \in Cell, TravelTime(Ways)[c] # Infinity
  PROVE  <<c, TravelTime(Ways)[c]>> \in W[Cardinality(Cell) - 1]
<1> DEFINE N == Cardinality(Cell) - 1
           d == TravelTime(Ways)
           Settled(n) == {b \in Cell : d[b] # Infinity /\ <<b, d[b]>> \in W[n]}
           F == {b \in Cell : d[b] # Infinity}
           S == {n \in Nat : n <= N => F \subseteq Settled(n) \/ n + 1 <= Cardinality(Settled(n))}
<1>1. N \in Nat /\ IsFiniteSet(Cell) /\ Cardinality(Cell) \in Nat /\ Cardinality(Cell) = N + 1
  BY CellsCounted, FieldAssumption, FS_CardinalityType
<1>2. /\ \A n \in 0 .. N :
           W[n] \in SUBSET (Cell \X Time) /\ goal \X {0} \subseteq W[n] /\ W[n] \subseteq Ways
      /\ \A n \in Nat : n + 1 <= N => W[n + 1] = Extended(W[n])
  BY LegByLegGrows
<1>3. \A n : Settled(n) \subseteq F /\ IsFiniteSet(Settled(n)) /\ Cardinality(Settled(n)) \in Nat
  <2> SUFFICES ASSUME NEW n
               PROVE  IsFiniteSet(Settled(n)) /\ Cardinality(Settled(n)) \in Nat
    OBVIOUS
  <2>1. Settled(n) \in SUBSET Cell
    OBVIOUS
  <2> HIDE DEF Settled
  <2> QED
    BY <1>1, <2>1, FS_Subset, FS_CardinalityType
<1>4. 0 \in S
  <2>1. CASE goal = {}
    <3>1. Extended({}) = {} /\ {} \in SUBSET (Cell \X Time)
      BY DEF Extended
    <3>2. Closed({})
      BY <2>1, <3>1 DEF Closed
    <3>3. Ways = {}
      BY <3>1, <3>2 DEF Ways
    <3>4. F = {}
      BY <3>3, WaysGoOn, TravelTimes
    <3> QED
      BY <3>4
  <2>2. CASE goal # {}
    <3>1. PICK b \in Cell : b \in goal
      BY <2>2 DEF Places
    <3>2. d \in [Cell -> Time] /\ \A a \in Ways : d[a[1]] <= a[2]
      BY WaysGoOn, TravelTimes
    <3>3. d[b] <= 0 /\ d[b] \in Nat
      <4>1. <<b, 0>> \in Ways
        BY <3>1, WaysGoOn
      <4> QED
        BY <3>1, <3>2, <4>1, Bounds
    <3>4. d[b] = 0 /\ d[b] # Infinity /\ <<b, d[b]>> \in W[0]
      BY <1>1, <1>2, <3>1, <3>3, Bounds
    <3>5. Settled(0) # {}
      BY <3>1, <3>4
    <3>6. Cardinality(Settled(0)) # 0
      <4> HIDE DEF Settled
      <4> QED
        BY <1>3, <3>5, FS_EmptySet
    <3>7. 0 + 1 <= Cardinality(Settled(0))
      <4> HIDE DEF Settled
      <4> QED
        BY <1>3, <3>6
    <3> QED
      <4> HIDE DEF Settled, F
      <4> QED
        BY <3>7
  <2> QED
    BY <2>1, <2>2
<1>5. \A n \in Nat : n \in S => n + 1 \in S
  <2> SUFFICES ASSUME NEW n \in Nat, n \in S, n + 1 <= N
               PROVE  F \subseteq Settled(n + 1) \/ n + 1 + 1 <= Cardinality(Settled(n + 1))
    <3> HIDE DEF Settled, F
    <3> QED
      OBVIOUS
  <2>1. /\ W[n] \in SUBSET (Cell \X Time) /\ goal \X {0} \subseteq W[n] /\ W[n] \subseteq Ways
        /\ W[n + 1] = Extended(W[n])
    BY <1>1, <1>2
  <2>2. W[n] \subseteq W[n + 1]
    BY <2>1, ExtendedKeeps
  <2>3. Settled(n) \subseteq Settled(n + 1)
    BY <2>2
  <2>4. CASE Settled(n + 1) \subseteq Settled(n)
    <3>1. \A b \in Cell : d[b] # Infinity /\ <<b, d[b]>> \in Extended(W[n]) => <<b, d[b]>> \in W[n]
      <4> SUFFICES ASSUME NEW b \in Cell, d[b] # Infinity, <<b, d[b]>> \in Extended(W[n])
                   PROVE  <<b, d[b]>> \in W[n]
        OBVIOUS
      <4>1. b \in Settled(n + 1)
        BY <2>1
      <4> QED
        BY <2>4, <4>1
    <3>2. Stagnant(W[n])
      BY <2>1, <3>1 DEF Stagnant
    <3>3. \A b \in Cell : d[b] # Infinity => <<b, d[b]>> \in W[n]
      BY <3>2, NothingNewIsAll
    <3> QED
      BY <2>2, <3>3
  <2>5. CASE ~(Settled(n + 1) \subseteq Settled(n)) /\ n + 1 <= Cardinality(Settled(n))
    <3> HIDE DEF Settled
    <3>1. Settled(n) # Settled(n + 1) /\ Settled(n) \in SUBSET Settled(n + 1)
      BY <2>3, <2>5
    <3>2. /\ Cardinality(Settled(n)) <= Cardinality(Settled(n + 1))
          /\ Cardinality(Settled(n + 1)) # Cardinality(Settled(n))
      BY <1>3, <3>1, FS_Subset
    <3> QED
      BY <1>3, <2>5, <3>2
  <2>6. CASE F \subseteq Settled(n)
    BY <2>3, <2>6
  <2> QED
    BY <1>1, <2>4, <2>5, <2>6
<1>6. Nat \subseteq S
  <2> HIDE DEF S
  <2> QED
    BY <1>4, <1>5, Induction
<1>7. F \subseteq Settled(N) \/ N + 1 <= Cardinality(Settled(N))
  <2> HIDE DEF Settled, F, N
  <2> QED
    BY <1>1, <1>6
<1>8. CASE N + 1 <= Cardinality(Settled(N))
  <2>1. Settled(N) \in SUBSET Cell
    OBVIOUS
  <2>2. Cardinality(Settled(N)) = Cardinality(Cell)
    <3> HIDE DEF Settled, N
    <3> QED
      BY <1>1, <1>3, <1>8, <2>1, FS_Subset
  <2>3. Settled(N) = Cell
    <3> HIDE DEF Settled, N
    <3> QED
      BY <1>1, <2>1, <2>2, FS_Subset
  <2> QED
    BY <2>3
<1> QED
  BY <1>7, <1>8

\* The reference is the least time over all ways, of whatever number of legs.
LEMMA Reference ==
  ASSUME Places, exact = TravelTime(Arrivals)
  PROVE  /\ exact \in [Cell -> Time]
         /\ \A c \in goal : exact[c] = 0
         /\ \A c \in Cell : \A g \in Legs(c) : exact[g[1]] <= Plus(exact[c], g[2])
<1> DEFINE d == TravelTime(Ways)
<1>1. PICK W : LegByLeg(W) /\ Arrivals = W[Cardinality(Cell) - 1]
  BY ArrivalsLegByLeg
<1>2. Cardinality(Cell) - 1 \in 0 .. Cardinality(Cell) - 1
  BY CellsCounted
<1>3. Arrivals \in SUBSET (Cell \X Time) /\ Arrivals \subseteq Ways
  BY <1>1, <1>2, LegByLegGrows
<1>4. /\ exact \in [Cell -> Time]
      /\ \A a \in Arrivals : exact[a[1]] <= a[2]
      /\ \A c \in Cell : exact[c] # Infinity => <<c, exact[c]>> \in Arrivals
  BY <1>3, TravelTimes
<1>5. /\ d \in [Cell -> Time]
      /\ \A a \in Ways : d[a[1]] <= a[2]
      /\ \A c \in Cell : d[c] # Infinity => <<c, d[c]>> \in Ways
  BY WaysGoOn, TravelTimes
<1>6. \A c \in Cell : d[c] # Infinity => <<c, d[c]>> \in Arrivals
  BY <1>1, FewLegs
<1>7. \A c \in Cell : \A g \in Legs(c) : d[g[1]] <= Plus(d[c], g[2])
  BY LegsAreNoShortcuts
<1> HIDE DEF d
<1>8. \A c \in Cell : exact[c] = d[c]
  <2> SUFFICES ASSUME NEW c \in Cell PROVE exact[c] = d[c]
    OBVIOUS
  <2>1. exact[c] \in Nat /\ exact[c] <= Infinity /\ d[c] \in Nat /\ d[c] <= Infinity
    BY <1>4, <1>5, Bounds DEF Time
  <2>2. d[c] # Infinity => exact[c] <= d[c]
    BY <1>4, <1>6
  <2>3. exact[c] # Infinity => d[c] <= exact[c]
    BY <1>3, <1>4, <1>5
  <2> QED
    BY <2>1, <2>2, <2>3, Bounds
<1>9. exact = d
  BY <1>4, <1>5, <1>8
<1>10. \A c \in goal : d[c] = 0
  <2> SUFFICES ASSUME NEW c \in goal PROVE d[c] = 0
    OBVIOUS
  <2>1. <<c, 0>> \in Ways /\ c \in Cell
    BY WaysGoOn DEF Places
  <2>2. d[c] <= 0 /\ d[c] \in Nat
    BY <1>5, <2>1, Bounds
  <2> QED
    BY <2>2
<1> QED
  BY <1>4, <1>7, <1>9, <1>10

-----------------------------------------------------------------------------
(* The inductive invariant                                                 *)

\* Fields and seeds belong together: a time in a field comes from a seed of its
\* region, and the destination is seeded.
Attained ==
  \A c \in Cell : fields[c] # Infinity =>
    \E s \in CellsOf(geo.home[c]) : Plus(seeds[s], geo.inside[s][c]) <= fields[c]

GoalSeeded == status \in {"solving", "solved"} => \A c \in goal : seeds[c] = 0

\* If the times of all legs are multiples of the least difference that counts,
\* those of the arrivals are.
Rounded ==
  Coarse => \A c \in Cell : fields[c] % (Eps + 1) = 0 /\ seeds[c] % (Eps + 1) = 0

SolvedIsClean == status = "solved" => dirty = {}

IInv ==
  /\ TypeOK /\ geo \in Geometries /\ exact = TravelTime(Arrivals)
  /\ QueueComplete /\ CleanIsSettled /\ NeverTooEarly
  /\ Attained /\ GoalSeeded /\ Rounded /\ SolvedIsClean

-----------------------------------------------------------------------------
(* One region is solved                                                    *)

LEMMA InvariantTypes ==
  ASSUME IInv
  PROVE  /\ Places /\ goal \subseteq Cell
         /\ fields \in [Cell -> Time] /\ seeds \in [Cell -> Time] /\ exact \in [Cell -> Time]
         /\ \A c \in Cell : /\ fields[c] \in Nat /\ fields[c] <= Infinity
                            /\ seeds[c] \in Nat /\ seeds[c] <= Infinity
                            /\ exact[c] \in Nat /\ exact[c] <= Infinity
         /\ \A c, d \in Cell : geo.inside[c][d] \in Nat /\ geo.inside[c][d] <= Infinity
         /\ \A c \in Cell : geo.home[c] \in Region
<1>1. Places /\ goal \subseteq Cell
  BY FieldAssumption DEF IInv, TypeOK, Places
<1>2. exact \in [Cell -> Time]
  BY <1>1, Reference DEF IInv
<1>3. fields \in [Cell -> Time] /\ seeds \in [Cell -> Time]
  BY DEF IInv, TypeOK
<1>4. geo.home \in [Cell -> Region] /\ geo.inside \in [Cell -> [Cell -> Time]]
  BY <1>1, SurfaceTypes
<1> QED
  BY <1>1, <1>2, <1>3, <1>4, Bounds DEF Time

LEMMA SolvedRegion ==
  ASSUME IInv, NEW r \in Region
  PROVE  /\ SolveRegion(r) \in [Cell -> Time]
         /\ \A c \in Cell : c \notin CellsOf(r) => SolveRegion(r)[c] = fields[c]
         /\ \A c \in CellsOf(r) :
              /\ SolveRegion(r)[c] <= fields[c]
              /\ \A s \in CellsOf(r) : SolveRegion(r)[c] <= Plus(seeds[s], geo.inside[s][c])
              /\ \/ SolveRegion(r)[c] \in {fields[c], Infinity}
                 \/ \E s \in CellsOf(r) : SolveRegion(r)[c] = Plus(seeds[s], geo.inside[s][c])
<1> DEFINE Offers(c) == {Plus(seeds[s], geo.inside[s][c]) : s \in CellsOf(r)}
<1>1. CellsOf(r) \subseteq Cell
  BY DEF CellsOf
<1>2. \A c \in CellsOf(r) : SolveRegion(r)[c] = Min2(fields[c], Least(Offers(c)))
  BY <1>1 DEF SolveRegion
<1>3. /\ SolveRegion(r) = [c \in Cell |-> SolveRegion(r)[c]]
      /\ \A c \in Cell : c \notin CellsOf(r) => SolveRegion(r)[c] = fields[c]
  BY <1>1 DEF SolveRegion
<1>4. \A c \in CellsOf(r) : \A s \in CellsOf(r) : Plus(seeds[s], geo.inside[s][c]) \in Time
  BY <1>1, InvariantTypes, TimesAddUp
<1>5. \A c \in CellsOf(r) : /\ Least(Offers(c)) \in Offers(c) \cup {Infinity}
                            /\ Least(Offers(c)) \in Time
                            /\ \A u \in Offers(c) : Least(Offers(c)) <= u
  <2> SUFFICES ASSUME NEW c \in CellsOf(r)
               PROVE  Offers(c) \subseteq Nat
    <3> HIDE DEF Offers
    <3> QED
      BY LeastTime
  <2> QED
    BY <1>4, Bounds
<1>6. ASSUME NEW c \in CellsOf(r)
      PROVE  /\ SolveRegion(r)[c] \in Time
             /\ SolveRegion(r)[c] <= fields[c]
             /\ \A s \in CellsOf(r) : SolveRegion(r)[c] <= Plus(seeds[s], geo.inside[s][c])
             /\ \/ SolveRegion(r)[c] \in {fields[c], Infinity}
                \/ \E s \in CellsOf(r) : SolveRegion(r)[c] = Plus(seeds[s], geo.inside[s][c])
  <2>1. PICK l : l = Least(Offers(c))
    OBVIOUS
  <2>2. l \in Offers(c) \cup {Infinity} /\ l \in Time /\ \A u \in Offers(c) : l <= u
    BY <1>5, <2>1
  <2>3. fields[c] \in Nat /\ fields[c] \in Time /\ l \in Nat
    BY <1>1, <2>2, InvariantTypes, Bounds
  <2>4. SolveRegion(r)[c] \in {fields[c], l} /\ SolveRegion(r)[c] <= fields[c] /\ SolveRegion(r)[c] <= l
    <3> HIDE DEF Offers
    <3> QED
      BY <1>2, <2>1, <2>3 DEF Min2
  <2>5. ASSUME NEW s \in CellsOf(r)
        PROVE  SolveRegion(r)[c] <= Plus(seeds[s], geo.inside[s][c])
    <3>1. PICK u \in Nat : u = Plus(seeds[s], geo.inside[s][c])
      BY <1>4, Bounds
    <3>2. l <= u
      BY <2>2, <3>1
    <3> HIDE DEF Offers
    <3> QED
      BY <2>3, <2>4, <3>1, <3>2
  <2> QED
    BY <2>2, <2>3, <2>4, <2>5
<1> QED
  BY <1>3, <1>6, InvariantTypes

-----------------------------------------------------------------------------
(* The regions behind its seams are seeded                                 *)

LEMMA Crossing ==
  ASSUME IInv, NEW field \in [Cell -> Time], NEW sd \in [Cell -> Time],
         NEW from \in Cell, NEW to \in Cell, NEW time \in Nat,
         NEW pair, pair = <<from, to, time>>
  PROVE  /\ Cross(field, sd, pair) \in [Cell -> Time]
         /\ \A c \in Cell : c # to => Cross(field, sd, pair)[c] = sd[c]
         /\ Cross(field, sd, pair)[to] <= sd[to]
         /\ Cross(field, sd, pair)[to] \in {sd[to], Plus(field[from], time)}
         /\ Min2(Cross(field, sd, pair)[to], fields[to]) <= Plus(field[from], time) + Eps
<1>1. PICK t : t = Plus(field[from], time)
  OBVIOUS
<1>2. t \in Time /\ t \in Nat /\ sd[to] \in Time /\ sd[to] \in Nat /\ fields[to] \in Nat /\ Eps \in Nat
  BY <1>1, InvariantTypes, TimesAddUp, Bounds
<1>3. Cross(field, sd, pair) =
        [sd EXCEPT ![to] = IF Earlier(t, sd[to], fields[to]) THEN t ELSE sd[to]]
  BY <1>1 DEF Cross
<1>4. PICK new : new = IF Earlier(t, sd[to], fields[to]) THEN t ELSE sd[to]
  OBVIOUS
<1>5. new \in {sd[to], t} /\ new <= sd[to] /\ Min2(new, fields[to]) <= t + Eps
  BY <1>2, <1>4 DEF Earlier, Min2
<1>6. Cross(field, sd, pair) = [sd EXCEPT ![to] = new]
  BY <1>3, <1>4
<1> QED
  BY <1>1, <1>2, <1>5, <1>6

LEMMA PairsLead ==
  ASSUME IInv, NEW r \in Region, NEW i \in 1 .. Len(geo.pairs[r])
  PROVE  \E from \in CellsOf(r), to \in Cell, time \in Nat :
           /\ geo.pairs[r][i] = <<from, to, time>>
           /\ geo.home[to] # r
<1>1. geo.pairs[r] \in Seq(Cell \X Cell \X Nat)
  BY InvariantTypes, SurfaceTypes
<1>2. PICK from \in Cell, to \in Cell, time \in Nat : geo.pairs[r][i] = <<from, to, time>>
  <2>1. PICK p : p = geo.pairs[r][i]
    OBVIOUS
  <2>2. p \in Cell \X Cell \X Nat
    BY <1>1, <2>1
  <2>3. p = <<p[1], p[2], p[3]>> /\ p[1] \in Cell /\ p[2] \in Cell /\ p[3] \in Nat
    BY <2>2
  <2> QED
    BY <2>1, <2>3
<1>3. geo.home[geo.pairs[r][i][1]] = r /\ geo.home[geo.pairs[r][i][2]] # r
  BY <1>1, FieldAssumption DEF IInv
<1> QED
  BY <1>2, <1>3 DEF CellsOf

LEMMA PairsOfSet ==
  ASSUME IInv, NEW r \in Region, NEW pair \in ToSet(geo.pairs[r])
  PROVE  \E i \in 1 .. Len(geo.pairs[r]) : pair = geo.pairs[r][i]
<1>1. geo.pairs[r] \in Seq(Cell \X Cell \X Nat)
  BY InvariantTypes, SurfaceTypes
<1>2. DOMAIN geo.pairs[r] = 1 .. Len(geo.pairs[r])
  BY <1>1
<1> QED
  BY <1>2 DEF ToSet

\* The seeds after the first n pairs.
PairByPair(After, field, r) ==
  /\ \A n \in 0 .. Len(geo.pairs[r]) : After[n] \in [Cell -> Time]
  /\ After[0] = seeds
  /\ \A n \in Nat : n + 1 <= Len(geo.pairs[r]) =>
       After[n + 1] = Cross(field, After[n], geo.pairs[r][n + 1])
  /\ Seeded(field, r) = After[Len(geo.pairs[r])]

LEMMA SeededPairByPair ==
  ASSUME IInv, NEW r \in Region, NEW field \in [Cell -> Time]
  PROVE  \E After : PairByPair(After, field, r)
<1> DEFINE N == Len(geo.pairs[r])
           A == [Cell -> Time]
           After == CHOOSE W : W = [i \in 0 .. N |-> IF i = 0 THEN seeds
                                                   ELSE Cross(field, W[i - 1], geo.pairs[r][i])]
<1>1. N \in Nat
  BY InvariantTypes, SurfaceTypes
<1>2. seeds \in A
  BY InvariantTypes
<1>3. \A sd \in A : \A i \in 1 .. N : Cross(field, sd, geo.pairs[r][i]) \in A
  <2> SUFFICES ASSUME NEW sd \in A, NEW i \in 1 .. N
               PROVE  Cross(field, sd, geo.pairs[r][i]) \in A
    OBVIOUS
  <2>1. PICK from \in CellsOf(r), to \in Cell, time \in Nat : geo.pairs[r][i] = <<from, to, time>>
    BY PairsLead
  <2>2. from \in Cell
    BY DEF CellsOf
  <2> QED
    BY <2>1, <2>2, Crossing
<1>4. PICK step : step = [x \in A \X (1 .. N) |-> Cross(field, x[1], geo.pairs[r][x[2]])]
  OBVIOUS
<1>5. step \in Steps(N, A)
  BY <1>3, <1>4 DEF Steps
<1>6. PICK f : Recursive(f, N, A, seeds, step)
  <2> HIDE DEF N, A
  <2> QED
    BY <1>1, <1>2, <1>5, Recursion
<1>7. \A i \in 1 .. N : f[i] = Cross(field, f[i - 1], geo.pairs[r][i])
  <2> SUFFICES ASSUME NEW i \in 1 .. N PROVE f[i] = Cross(field, f[i - 1], geo.pairs[r][i])
    OBVIOUS
  <2> HIDE DEF N, A
  <2>1. i - 1 \in 0 .. N
    BY <1>1
  <2>2. f[i - 1] \in A /\ f[i] = step[<<f[i - 1], i>>]
    BY <1>6, <2>1 DEF Recursive
  <2> QED
    BY <1>4, <2>2
<1>8. f = [i \in 0 .. N |-> IF i = 0 THEN seeds ELSE Cross(field, f[i - 1], geo.pairs[r][i])]
  <2> HIDE DEF N, A
  <2> QED
    BY <1>1, <1>6, <1>7 DEF Recursive
<1>9. After = [i \in 0 .. N |-> IF i = 0 THEN seeds ELSE Cross(field, After[i - 1], geo.pairs[r][i])]
  BY <1>8
<1>10. Seeded(field, r) = After[N]
  BY DEF Seeded
<1> HIDE DEF After
<1>11. After[0] = seeds
  BY <1>1, <1>9
<1>12. \A n \in Nat : n + 1 <= N => After[n + 1] = Cross(field, After[n], geo.pairs[r][n + 1])
  <2> SUFFICES ASSUME NEW n \in Nat, n + 1 <= N
               PROVE  After[n + 1] = Cross(field, After[n], geo.pairs[r][n + 1])
    OBVIOUS
  <2>1. n + 1 \in 0 .. N /\ n + 1 # 0 /\ n + 1 - 1 = n
    BY <1>1
  <2>2. PICK j : j = n + 1
    OBVIOUS
  <2>3. After[j] = Cross(field, After[j - 1], geo.pairs[r][j])
    <3> HIDE DEF N
    <3> QED
      BY <1>9, <2>1, <2>2
  <2> QED
    BY <2>1, <2>2, <2>3
<1>13. \A n \in 0 .. N : After[n] \in A
  <2> DEFINE S == {n \in Nat : n <= N => After[n] \in A}
  <2>1. 0 \in S
    BY <1>2, <1>11
  <2>2. \A n \in Nat : n \in S => n + 1 \in S
    <3> SUFFICES ASSUME NEW n \in Nat, n \in S, n + 1 <= N
                 PROVE  After[n + 1] \in A
      OBVIOUS
    <3>1. After[n] \in A /\ n + 1 \in 1 .. N
      BY <1>1
    <3> QED
      BY <1>3, <1>12, <3>1
  <2> HIDE DEF S
  <2>3. Nat \subseteq S
    BY <2>1, <2>2, Induction
  <2> QED
    BY <1>1, <2>3 DEF S
<1> QED
  BY <1>10, <1>11, <1>12, <1>13 DEF PairByPair

LEMMA SeededBehind ==
  ASSUME IInv, NEW r \in Region, NEW field \in [Cell -> Time]
  PROVE  LET new == Seeded(field, r)
             pairs == geo.pairs[r]
         IN /\ new \in [Cell -> Time]
            /\ \A c \in Cell : /\ new[c] <= seeds[c]
                               /\ c \in CellsOf(r) => new[c] = seeds[c]
                               /\ \/ new[c] = seeds[c]
                                  \/ \E i \in 1 .. Len(pairs) :
                                       c = pairs[i][2] /\ new[c] = Plus(field[pairs[i][1]], pairs[i][3])
            /\ \A i \in 1 .. Len(pairs) :
                 Min2(new[pairs[i][2]], fields[pairs[i][2]]) <= Plus(field[pairs[i][1]], pairs[i][3]) + Eps
<1> DEFINE N == Len(geo.pairs[r])
           From(i) == geo.pairs[r][i][1]
           To(i) == geo.pairs[r][i][2]
           Offer(i) == Plus(field[From(i)], geo.pairs[r][i][3])
<1>1. PICK After : PairByPair(After, field, r)
  BY SeededPairByPair
<1> DEFINE Below(n) == \A c \in Cell :
             /\ After[n][c] <= seeds[c]
             /\ c \in CellsOf(r) => After[n][c] = seeds[c]
             /\ After[n][c] = seeds[c] \/ \E i \in 1 .. N : c = To(i) /\ After[n][c] = Offer(i)
           Done(n) == \A i \in 1 .. n : Min2(After[n][To(i)], fields[To(i)]) <= Offer(i) + Eps
           S == {n \in Nat : n <= N => Below(n) /\ Done(n)}
<1>2. N \in Nat /\ \A n \in 0 .. N : After[n] \in [Cell -> Time]
  BY <1>1, InvariantTypes, SurfaceTypes DEF PairByPair
<1>3. \A i \in 1 .. N : /\ From(i) \in Cell /\ To(i) \in Cell /\ To(i) \notin CellsOf(r)
                        /\ Offer(i) \in Nat
  <2> SUFFICES ASSUME NEW i \in 1 .. N
               PROVE  /\ From(i) \in Cell /\ To(i) \in Cell /\ To(i) \notin CellsOf(r)
                      /\ Offer(i) \in Nat
    OBVIOUS
  <2>1. PICK from \in CellsOf(r), to \in Cell, time \in Nat :
          geo.pairs[r][i] = <<from, to, time>> /\ geo.home[to] # r
    BY PairsLead
  <2>2. from \in Cell /\ to \notin CellsOf(r) /\ field[from] \in Nat
    BY <2>1, Bounds DEF CellsOf
  <2>3. Plus(field[from], time) \in Nat
    BY <2>2, TimesAddUp, Bounds
  <2>4. From(i) = from /\ To(i) = to /\ Offer(i) = Plus(field[from], time)
    BY <2>1
  <2> QED
    BY <2>2, <2>3, <2>4
<1>4. 0 \in S
  BY <1>1, InvariantTypes DEF PairByPair
<1>5. ASSUME NEW n \in Nat, n + 1 <= N, Below(n), Done(n)
      PROVE  Below(n + 1) /\ Done(n + 1)
  <2> DEFINE j == n + 1
  <2>1. j \in 1 .. N /\ n \in 0 .. N /\ After[n] \in [Cell -> Time]
    BY <1>2, <1>5
  <2>2. After[j] = Cross(field, After[n], geo.pairs[r][j])
    BY <1>1, <1>5 DEF PairByPair
  <2>3. /\ After[j] \in [Cell -> Time]
        /\ \A c \in Cell : c # To(j) => After[j][c] = After[n][c]
        /\ After[j][To(j)] <= After[n][To(j)]
        /\ After[j][To(j)] \in {After[n][To(j)], Offer(j)}
        /\ Min2(After[j][To(j)], fields[To(j)]) <= Offer(j) + Eps
    <3>1. PICK from \in CellsOf(r), to \in Cell, time \in Nat :
            geo.pairs[r][j] = <<from, to, time>>
      BY <2>1, PairsLead
    <3>2. from \in Cell /\ To(j) = to /\ From(j) = from /\ Offer(j) = Plus(field[from], time)
      BY <3>1 DEF CellsOf
    <3>3. PICK sd \in [Cell -> Time] : sd = After[n]
      BY <2>1
    <3>4. PICK new : new = Cross(field, sd, <<from, to, time>>)
      OBVIOUS
    <3>5. /\ new \in [Cell -> Time]
          /\ \A c \in Cell : c # to => new[c] = sd[c]
          /\ new[to] <= sd[to]
          /\ new[to] \in {sd[to], Plus(field[from], time)}
          /\ Min2(new[to], fields[to]) <= Plus(field[from], time) + Eps
      BY <3>2, <3>4, Crossing
    <3>6. After[j] = new
      BY <2>2, <3>1, <3>3, <3>4
    <3> HIDE DEF From, To, Offer, j
    <3> QED
      BY <3>2, <3>3, <3>5, <3>6
  <2>4. \A c \in Cell : /\ After[j][c] \in Nat /\ After[n][c] \in Nat
                        /\ seeds[c] \in Nat /\ fields[c] \in Nat
    BY <2>1, <2>3, InvariantTypes, Bounds
  <2>5. \A c \in Cell : After[j][c] <= After[n][c]
    <3> HIDE DEF From, To, Offer, j
    <3> QED
      BY <2>3, <2>4
  <2>6. To(j) \in Cell /\ To(j) \notin CellsOf(r)
    BY <1>3, <2>1
  <2>7. Below(j)
    <3> SUFFICES ASSUME NEW c \in Cell
                 PROVE  /\ After[j][c] <= seeds[c]
                        /\ c \in CellsOf(r) => After[j][c] = seeds[c]
                        /\ \/ After[j][c] = seeds[c]
                           \/ \E i \in 1 .. N : c = To(i) /\ After[j][c] = Offer(i)
      OBVIOUS
    <3>1. /\ After[n][c] <= seeds[c]
          /\ c \in CellsOf(r) => After[n][c] = seeds[c]
          /\ After[n][c] = seeds[c] \/ \E i \in 1 .. N : c = To(i) /\ After[n][c] = Offer(i)
      BY <1>5
    <3> HIDE DEF From, To, Offer, j, N, Below, Done
    <3> QED
      BY <2>1, <2>3, <2>4, <2>5, <2>6, <3>1
  <2>8. Done(j)
    <3> SUFFICES ASSUME NEW i \in 1 .. j
                 PROVE  Min2(After[j][To(i)], fields[To(i)]) <= Offer(i) + Eps
      OBVIOUS
    <3>1. CASE i = j
      BY <2>3, <3>1
    <3>2. CASE i # j
      <4>1. i \in 1 .. n /\ i \in 1 .. N
        BY <2>1, <3>2
      <4>2. Min2(After[n][To(i)], fields[To(i)]) <= Offer(i) + Eps
        BY <1>5, <4>1
      <4>3. To(i) \in Cell /\ Offer(i) \in Nat
        BY <1>3, <4>1
      <4> HIDE DEF From, To, Offer, j, N, Below, Done
      <4> QED
        BY <2>4, <2>5, <4>2, <4>3, Bounds DEF Min2
    <3> QED
      BY <3>1, <3>2
  <2> QED
    BY <2>7, <2>8
<1>6. \A n \in Nat : n \in S => n + 1 \in S
  <2> HIDE DEF Below, Done, N
  <2> QED
    BY <1>2, <1>5
<1>7. Nat \subseteq S
  <2> HIDE DEF S
  <2> QED
    BY <1>4, <1>6, Induction
<1>8. Below(N) /\ Done(N)
  <2> HIDE DEF Below, Done, N
  <2> QED
    BY <1>2, <1>7
<1>9. Seeded(field, r) = After[N] /\ After[N] \in [Cell -> Time]
  BY <1>1, <1>2 DEF PairByPair
<1> QED
  BY <1>8, <1>9

-----------------------------------------------------------------------------
(* Every step preserves the invariant                                      *)

LEMMA InfiniteIsFar ==
  /\ \A t \in Nat : Plus(Infinity, t) = Infinity /\ Plus(t, Infinity) = Infinity
  /\ Infinity # 0 /\ 0 % (Eps + 1) = 0
BY Bounds DEF Plus, Min2

LEMMA InitKeeps == Init => IInv
<1> SUFFICES ASSUME Init PROVE IInv
  OBVIOUS
<1>1. Places /\ geo \in Geometry /\ geo \in Geometries /\ exact = TravelTime(Arrivals)
  BY FieldAssumption DEF Init, Places
<1>2. exact \in [Cell -> Time]
  BY <1>1, Reference
<1>3. TypeOK
  BY <1>1, FieldAssumption, Bounds DEF Init, TypeOK
<1>4. QueueComplete /\ CleanIsSettled /\ GoalSeeded /\ SolvedIsClean
  BY DEF Init, QueueComplete, CleanIsSettled, GoalSeeded, SolvedIsClean
<1>5. NeverTooEarly /\ Attained /\ Rounded
  BY <1>2, Bounds DEF Init, NeverTooEarly, Attained, Rounded, Time
<1> QED
  BY <1>1, <1>3, <1>4, <1>5 DEF IInv

\* The reference is about the surface and the destination only.
LEMMA InputsStay ==
  ASSUME UNCHANGED inputs
  PROVE  /\ Coarse' = Coarse /\ TravelTime(Arrivals)' = TravelTime(Arrivals)
         /\ \A r : CellsOf(r)' = CellsOf(r)
BY DEF inputs, Coarse, TravelTime, Arrivals, Legs, CellsOf

LEMMA StartKeeps == IInv /\ Start => IInv'
<1> SUFFICES ASSUME IInv, Start PROVE IInv'
  OBVIOUS
<1>1. /\ UNCHANGED <<geo, goal, limit, exact>> /\ UNCHANGED inputs
      /\ fields' = [c \in Cell |-> Infinity]
      /\ seeds' = [c \in Cell |-> IF c \in goal THEN 0 ELSE Infinity]
      /\ solved' = {} /\ dirty' = {geo.home[c] : c \in goal}
      /\ heap' = {<<0, r>> : r \in dirty'} /\ pops' = 0 /\ status' = "solving"
  BY DEF Start, inputs, Cold
<1>2. /\ Places /\ goal \subseteq Cell
      /\ \A c \in Cell : geo.home[c] \in Region /\ exact[c] \in Nat /\ exact[c] <= Infinity
      /\ \A c \in goal : exact[c] = 0
      /\ \A c, d \in Cell : geo.inside[c][d] \in Nat
  BY InvariantTypes, Reference DEF IInv
<1>3. TypeOK'
  <2>1. fields' \in [Cell -> Time] /\ seeds' \in [Cell -> Time]
    BY <1>1, Bounds
  <2>2. dirty' \subseteq Region /\ heap' \subseteq Time \X Region /\ pops' \in Nat
    BY <1>1, <1>2, Bounds
  <2>3. \A c \in Cell : fields'[c] = Infinity
    BY <1>1
  <2> QED
    BY <1>1, <2>1, <2>2, <2>3 DEF IInv, TypeOK
<1>4. geo' \in Geometries /\ exact' = TravelTime(Arrivals)'
  BY <1>1, InputsStay DEF IInv
<1>5. QueueComplete'
  <2>1. \A r \in dirty' : \E e \in heap' : e[2] = r
    <3> SUFFICES ASSUME NEW r \in dirty' PROVE \E e \in heap' : e[2] = r
      OBVIOUS
    <3>1. <<0, r>> \in heap'
      BY <1>1
    <3> QED
      BY <3>1
  <2>2. \A c \in Cell : seeds'[c] < Infinity => geo.home[c] \in dirty'
    BY <1>1, Bounds
  <2> QED
    BY <1>1, <2>1, <2>2 DEF QueueComplete
<1>6. CleanIsSettled'
  <2> SUFFICES ASSUME NEW r \in Region, r \notin dirty'
               PROVE  /\ \A c, s \in CellsOf(r) : fields'[c] <= Plus(seeds'[s], geo.inside[s][c])
                      /\ \A pair \in ToSet(geo.pairs[r]) :
                           Min2(seeds'[pair[2]], fields'[pair[2]]) <= Plus(fields'[pair[1]], pair[3]) + Eps
    BY <1>1, InputsStay DEF CleanIsSettled
  <2>1. \A c \in CellsOf(r) : c \in Cell /\ fields'[c] = Infinity /\ seeds'[c] = Infinity
    BY <1>1, <1>2 DEF CellsOf
  <2>2. \A c, s \in CellsOf(r) : fields'[c] <= Plus(seeds'[s], geo.inside[s][c])
    <3> SUFFICES ASSUME NEW c \in CellsOf(r), NEW s \in CellsOf(r)
                 PROVE  fields'[c] <= Plus(seeds'[s], geo.inside[s][c])
      OBVIOUS
    <3>1. geo.inside[s][c] \in Nat
      BY <1>2, <2>1
    <3>2. Plus(Infinity, geo.inside[s][c]) = Infinity
      BY <3>1, InfiniteIsFar
    <3> QED
      BY <2>1, <3>2, Bounds
  <2>3. ASSUME NEW pair \in ToSet(geo.pairs[r])
        PROVE  Min2(seeds'[pair[2]], fields'[pair[2]]) <= Plus(fields'[pair[1]], pair[3]) + Eps
    <3>1. PICK i \in 1 .. Len(geo.pairs[r]) : pair = geo.pairs[r][i]
      BY PairsOfSet
    <3>2. PICK from \in CellsOf(r), to \in Cell, time \in Nat : geo.pairs[r][i] = <<from, to, time>>
      BY PairsLead
    <3>3. fields'[from] = Infinity /\ fields'[to] = Infinity /\ seeds'[to] \in {0, Infinity}
      BY <1>1, <2>1
    <3>4. PICK u : u = seeds'[to]
      OBVIOUS
    <3>5. Plus(Infinity, time) = Infinity /\ Min2(u, Infinity) \in Nat /\ Min2(u, Infinity) <= Infinity
      BY <3>3, <3>4, InfiniteIsFar, Bounds DEF Min2
    <3>6. Min2(u, Infinity) <= Infinity + Eps
      BY <3>5, Bounds
    <3> QED
      BY <3>1, <3>2, <3>3, <3>4, <3>5, <3>6
  <2> QED
    BY <2>2, <2>3
<1>7. NeverTooEarly'
  <2> SUFFICES ASSUME NEW c \in Cell
               PROVE  exact[c] <= fields'[c] /\ exact[c] <= seeds'[c]
    BY <1>1 DEF NeverTooEarly
  <2>1. fields'[c] = Infinity /\ seeds'[c] = IF c \in goal THEN 0 ELSE Infinity
    BY <1>1
  <2> QED
    BY <1>2, <2>1
<1>8. Attained' /\ GoalSeeded' /\ SolvedIsClean'
  BY <1>1, <1>2 DEF Attained, GoalSeeded, SolvedIsClean
<1>9. Rounded'
  BY <1>1, InputsStay, InfiniteIsFar, Bounds DEF Rounded
<1> QED
  BY <1>3, <1>4, <1>5, <1>6, <1>7, <1>8, <1>9 DEF IInv

LEMMA PlusGrows ==
  ASSUME NEW a \in Nat, NEW b \in Nat, NEW t \in Nat, a <= b
  PROVE  Plus(a, t) <= Plus(b, t) /\ Plus(a, t) \in Nat /\ Plus(b, t) \in Nat
BY Bounds DEF Plus, Min2

LEMMA MultiplesAddUp ==
  ASSUME NEW a \in Nat, NEW b \in Nat, a % (Eps + 1) = 0, b % (Eps + 1) = 0
  PROVE  Plus(a, b) % (Eps + 1) = 0
<1> DEFINE D == Eps + 1
           p == a \div D
           q == b \div D
<1>1. D \in Nat \ {0}
  BY Bounds
<1>2. p \in Int /\ q \in Int /\ a = p * D /\ b = q * D
  BY <1>1
<1>3. (a + b) % D = 0
  <2>1. a + b = (p + q) * D
    <3> HIDE DEF p, q, D
    <3>1. (p + q) * D = p * D + q * D
      BY <1>1, <1>2
    <3> QED
      BY <1>2, <3>1
  <2> QED
    BY <1>1, <1>2, <2>1
<1> QED
  BY <1>3, Bounds DEF Plus, Min2

\* Multiples that differ by no more than Eps do not differ.
LEMMA MultiplesDiffer ==
  ASSUME NEW a \in Nat, NEW b \in Nat, a % (Eps + 1) = 0, b % (Eps + 1) = 0, a <= b + Eps
  PROVE  a <= b
<1> DEFINE D == Eps + 1
           p == a \div D
           q == b \div D
<1>1. D \in Nat \ {0}
  BY Bounds
<1>2. p \in Int /\ q \in Int /\ a = p * D /\ b = q * D
  BY <1>1
<1> SUFFICES ASSUME a > b PROVE FALSE
  OBVIOUS
<1>3. p > q
  BY <1>1, <1>2
<1>4. p * D >= (q + 1) * D
  BY <1>1, <1>2, <1>3
<1> QED
  BY <1>1, <1>2, <1>4, Bounds

\* A field is never earlier than the quickest ways and a multiple if they are.
LEMMA FieldIsLate ==
  ASSUME IInv, NEW r \in Region, NEW c \in Cell
  PROVE  /\ exact[c] <= SolveRegion(r)[c]
         /\ Coarse => SolveRegion(r)[c] % (Eps + 1) = 0
<1>1. /\ \A d \in Cell : /\ exact[d] \in Nat /\ exact[d] <= Infinity
                         /\ exact[d] <= fields[d] /\ exact[d] <= seeds[d]
                         /\ seeds[d] \in Nat
                         /\ Coarse => fields[d] % (Eps + 1) = 0 /\ seeds[d] % (Eps + 1) = 0
      /\ Places
  BY InvariantTypes DEF IInv, NeverTooEarly, Rounded
<1>2. CASE SolveRegion(r)[c] \in {fields[c], Infinity}
  BY <1>1, <1>2, Bounds
<1>3. ASSUME NEW s \in CellsOf(r), SolveRegion(r)[c] = Plus(seeds[s], geo.inside[s][c])
      PROVE  exact[c] <= SolveRegion(r)[c] /\ (Coarse => SolveRegion(r)[c] % (Eps + 1) = 0)
  <2>1. PICK t \in Nat : t = geo.inside[s][c] /\ t <= Infinity
    BY InvariantTypes DEF CellsOf
  <2>2. s \in Cell
    BY DEF CellsOf
  <2>3. CASE t = Infinity
    <3>1. SolveRegion(r)[c] = Infinity
      BY <1>1, <1>3, <2>1, <2>2, <2>3, InfiniteIsFar
    <3> QED
      BY <1>1, <3>1, Bounds
  <2>4. CASE t # Infinity
    <3>1. <<c, t>> \in Legs(s)
      BY <2>1, <2>4, Bounds DEF Legs
    <3>2. exact[c] <= Plus(exact[s], t)
      BY <1>1, <2>2, <3>1, Reference DEF IInv
    <3>3. Plus(exact[s], t) <= Plus(seeds[s], t) /\ Plus(exact[s], t) \in Nat /\ Plus(seeds[s], t) \in Nat
      BY <1>1, <2>1, <2>2, PlusGrows
    <3>4. exact[c] <= Plus(seeds[s], t)
      BY <1>1, <3>2, <3>3
    <3>5. Coarse => t % (Eps + 1) = 0
      BY <2>2, <3>1 DEF Coarse
    <3>6. Coarse => Plus(seeds[s], t) % (Eps + 1) = 0
      BY <1>1, <2>1, <2>2, <3>5, MultiplesAddUp
    <3> QED
      BY <1>3, <2>1, <3>4, <3>6
  <2> QED
    BY <2>3, <2>4
<1>4. CASE c \in CellsOf(r)
  BY <1>2, <1>3, <1>4, SolvedRegion
<1>5. CASE c \notin CellsOf(r)
  BY <1>2, <1>5, SolvedRegion
<1> QED
  BY <1>4, <1>5

LEMMA SeedIsLate ==
  ASSUME IInv, NEW r \in Region, NEW c \in Cell
  PROVE  /\ exact[c] <= Seeded(SolveRegion(r), r)[c]
         /\ Coarse => Seeded(SolveRegion(r), r)[c] % (Eps + 1) = 0
<1>1. PICK field \in [Cell -> Time] : field = SolveRegion(r)
  BY SolvedRegion
<1>2. PICK new \in [Cell -> Time] : new = Seeded(field, r)
  BY SeededBehind
<1>3. /\ \A d \in Cell : /\ exact[d] \in Nat /\ field[d] \in Nat
                         /\ exact[d] <= field[d] /\ (Coarse => field[d] % (Eps + 1) = 0)
                         /\ exact[d] <= seeds[d] /\ (Coarse => seeds[d] % (Eps + 1) = 0)
      /\ Places
  BY <1>1, FieldIsLate, InvariantTypes, Bounds DEF IInv, NeverTooEarly, Rounded
<1>4. ASSUME NEW i \in 1 .. Len(geo.pairs[r]), c = geo.pairs[r][i][2],
             new[c] = Plus(field[geo.pairs[r][i][1]], geo.pairs[r][i][3])
      PROVE  exact[c] <= new[c] /\ (Coarse => new[c] % (Eps + 1) = 0)
  <2>1. PICK from \in CellsOf(r), to \in Cell, t \in Nat : geo.pairs[r][i] = <<from, to, t>>
    BY PairsLead
  <2>2. from \in Cell /\ geo.home[from] = r /\ c = to /\ new[c] = Plus(field[from], t)
    BY <1>4, <2>1 DEF CellsOf
  <2>3. <<c, t>> \in Legs(from)
    <3>1. geo.pairs[r] \in Seq(Cell \X Cell \X Nat)
      BY InvariantTypes, SurfaceTypes
    <3>2. geo.pairs[r][i] \in ToSet(geo.pairs[r])
      BY <3>1 DEF ToSet
    <3> QED
      BY <2>1, <2>2, <3>2 DEF Legs
  <2>4. exact[c] <= Plus(exact[from], t)
    BY <1>3, <2>2, <2>3, Reference DEF IInv
  <2>5. Plus(exact[from], t) <= Plus(field[from], t) /\ Plus(exact[from], t) \in Nat /\ Plus(field[from], t) \in Nat
    BY <1>3, <2>1, <2>2, PlusGrows
  <2>6. Coarse => t % (Eps + 1) = 0
    BY <2>2, <2>3 DEF Coarse
  <2>7. Coarse => Plus(field[from], t) % (Eps + 1) = 0
    BY <1>3, <2>1, <2>2, <2>6, MultiplesAddUp
  <2> QED
    BY <1>3, <2>2, <2>4, <2>5, <2>7
<1>5. \/ new[c] = seeds[c]
      \/ \E i \in 1 .. Len(geo.pairs[r]) :
           c = geo.pairs[r][i][2] /\ new[c] = Plus(field[geo.pairs[r][i][1]], geo.pairs[r][i][3])
  BY <1>2, SeededBehind
<1> QED
  BY <1>1, <1>2, <1>3, <1>4, <1>5

LEMMA SolveKeeps == IInv /\ Solve => IInv'
<1> SUFFICES ASSUME IInv, Solve PROVE IInv'
  OBVIOUS
<1> DEFINE r == First[2]
<1>1. /\ UNCHANGED inputs /\ geo' = geo /\ goal' = goal /\ limit' = limit /\ exact' = exact
      /\ status = "solving" /\ status' = "solving" /\ pops' = pops + 1
      /\ r \in dirty /\ solved' = solved \cup {r} /\ fields' = SolveRegion(r)
      /\ seeds' = Seeded(SolveRegion(r), r)
      /\ dirty' = (dirty \ {r}) \cup Improved(seeds')
      /\ heap' = (heap \ {First}) \cup Entries(seeds', Improved(seeds'))
  BY DEF Solve, inputs, Kept, Popped
<1>2. /\ r \in Region /\ dirty \subseteq Region /\ solved \subseteq Region
      /\ heap \subseteq Time \X Region /\ pops \in Nat
  BY <1>1 DEF IInv, TypeOK
<1> HIDE DEF r
<1>3. /\ fields' \in [Cell -> Time] /\ seeds' \in [Cell -> Time]
      /\ \A c \in Cell : c \notin CellsOf(r) => fields'[c] = fields[c]
      /\ \A c \in CellsOf(r) : seeds'[c] = seeds[c]
      /\ \A c \in Cell : seeds'[c] <= seeds[c]
  BY <1>1, <1>2, SolvedRegion, SeededBehind DEF CellsOf
<1>4. \A c \in Cell : /\ fields[c] \in Nat /\ fields'[c] \in Nat /\ fields'[c] <= fields[c]
                      /\ seeds[c] \in Nat /\ seeds'[c] \in Nat
                      /\ geo.home[c] \in Region
  <2>1. \A c \in CellsOf(r) : fields'[c] <= fields[c]
    BY <1>1, <1>2, SolvedRegion
  <2>2. \A c \in Cell : /\ fields[c] \in Nat /\ fields'[c] \in Nat
                        /\ seeds[c] \in Nat /\ seeds'[c] \in Nat /\ geo.home[c] \in Region
    BY <1>3, InvariantTypes, Bounds
  <2> QED
    BY <1>3, <2>1, <2>2
<1>5. \A c, d \in Cell : geo.inside[c][d] \in Nat
  BY InvariantTypes
<1>6. /\ Improved(seeds') \subseteq Region /\ r \notin Improved(seeds')
      /\ \A c \in Cell : geo.home[c] \notin Improved(seeds') => seeds'[c] = seeds[c]
  <2>1. \A y : y \in Improved(seeds') <=> \E c \in Cell : seeds'[c] < seeds[c] /\ geo.home[c] = y
    BY DEF Improved
  <2>2. \A c \in Cell : geo.home[c] = r => seeds'[c] = seeds[c]
    BY <1>3 DEF CellsOf
  <2> QED
    BY <1>3, <1>4, <2>1, <2>2
<1>7. TypeOK'
  <2>1. \A c \in Cell : geo.home[c] \notin solved' => fields'[c] = Infinity
    BY <1>1, <1>3 DEF IInv, TypeOK, CellsOf
  <2>2. Entries(seeds', Improved(seeds')) \subseteq Time \X Region
    <3>1. \A y : {seeds'[c] : c \in CellsOf(y)} \subseteq Nat
      BY <1>4 DEF CellsOf
    <3>2. \A y : Least({seeds'[c] : c \in CellsOf(y)}) \in Time
      BY <3>1, LeastTime
    <3>3. ASSUME NEW e \in Entries(seeds', Improved(seeds')) PROVE e \in Time \X Region
      <4>1. PICK y \in Improved(seeds') : e = <<Least({seeds'[c] : c \in CellsOf(y)}), y>>
        BY DEF Entries, Queued
      <4>2. PICK t \in Time : t = Least({seeds'[c] : c \in CellsOf(y)})
        BY <3>2
      <4> QED
        BY <1>6, <4>1, <4>2
    <3> QED
      BY <3>3
  <2>3. heap' \subseteq Time \X Region /\ solved' \subseteq Region /\ dirty' \subseteq Region /\ pops' \in Nat
    BY <1>1, <1>2, <1>6, <2>2
  <2> QED
    BY <1>1, <1>3, <2>1, <2>3 DEF IInv, TypeOK
<1>8. geo' \in Geometries /\ exact' = TravelTime(Arrivals)'
  BY <1>1, InputsStay DEF IInv
<1>9. QueueComplete'
  <2>1. ASSUME NEW q \in dirty' PROVE \E e \in heap' : e[2] = q
    <3>1. CASE q \in Improved(seeds')
      <4>1. <<Least({seeds'[c] : c \in CellsOf(q)}), q>> \in heap'
        BY <1>1, <3>1 DEF Entries, Queued
      <4> QED
        BY <4>1
    <3>2. CASE q \in dirty \ {r}
      <4>1. PICK e \in heap : e[2] = q
        BY <1>1, <3>2 DEF IInv, QueueComplete
      <4>2. e # First
        BY <3>2, <4>1 DEF r
      <4> QED
        BY <1>1, <4>1, <4>2
    <3> QED
      BY <1>1, <2>1, <3>1, <3>2
  <2>2. ASSUME NEW c \in Cell, seeds'[c] < Infinity PROVE geo.home[c] \in solved' \cup dirty'
    <3>1. CASE geo.home[c] \in Improved(seeds')
      BY <1>1, <3>1
    <3>2. CASE geo.home[c] \notin Improved(seeds')
      <4>1. seeds[c] < Infinity
        BY <1>6, <2>2, <3>2
      <4>2. geo.home[c] \in solved \cup dirty
        BY <1>1, <4>1 DEF IInv, QueueComplete
      <4> QED
        BY <1>1, <4>2
    <3> QED
      BY <3>1, <3>2
  <2> QED
    BY <1>1, <2>1, <2>2 DEF QueueComplete
<1>10. CleanIsSettled'
  <2> SUFFICES ASSUME NEW q \in Region, q \notin dirty'
               PROVE  /\ \A c, s \in CellsOf(q) : fields'[c] <= Plus(seeds'[s], geo.inside[s][c])
                      /\ \A pair \in ToSet(geo.pairs[q]) :
                           Min2(seeds'[pair[2]], fields'[pair[2]]) <= Plus(fields'[pair[1]], pair[3]) + Eps
    BY <1>1, InputsStay DEF CleanIsSettled
  <2>1. \A c \in CellsOf(q) : c \in Cell /\ geo.home[c] = q /\ seeds'[c] = seeds[c]
    BY <1>1, <1>6 DEF CellsOf
  <2>2. CASE q = r
    <3>1. \A c, s \in CellsOf(q) : fields'[c] <= Plus(seeds'[s], geo.inside[s][c])
      BY <1>1, <1>2, <2>1, <2>2, SolvedRegion
    <3>2. ASSUME NEW pair \in ToSet(geo.pairs[q])
          PROVE  Min2(seeds'[pair[2]], fields'[pair[2]]) <= Plus(fields'[pair[1]], pair[3]) + Eps
      <4>1. PICK i \in 1 .. Len(geo.pairs[r]) : pair = geo.pairs[r][i]
        BY <1>2, <2>2, PairsOfSet
      <4>2. PICK from \in CellsOf(r), to \in Cell, t \in Nat :
              geo.pairs[r][i] = <<from, to, t>> /\ geo.home[to] # r
        BY <1>2, PairsLead
      <4>3. Min2(seeds'[to], fields[to]) <= Plus(fields'[from], t) + Eps
        <5>1. Min2(seeds'[geo.pairs[r][i][2]], fields[geo.pairs[r][i][2]])
                <= Plus(fields'[geo.pairs[r][i][1]], geo.pairs[r][i][3]) + Eps
          BY <1>1, <1>2, <1>3, SeededBehind
        <5> QED
          BY <4>2, <5>1
      <4>4. fields'[to] = fields[to]
        BY <1>3, <4>2 DEF CellsOf
      <4> QED
        BY <4>1, <4>2, <4>3, <4>4
    <3> QED
      BY <3>1, <3>2
  <2>3. CASE q # r
    <3>1. q \notin dirty
      BY <1>1, <2>3
    <3>2. /\ \A c, s \in CellsOf(q) : fields[c] <= Plus(seeds[s], geo.inside[s][c])
          /\ \A pair \in ToSet(geo.pairs[q]) :
               Min2(seeds[pair[2]], fields[pair[2]]) <= Plus(fields[pair[1]], pair[3]) + Eps
      BY <1>1, <3>1 DEF IInv, CleanIsSettled
    <3>3. \A c \in CellsOf(q) : fields'[c] = fields[c]
      BY <1>3, <2>1, <2>3 DEF CellsOf
    <3>4. ASSUME NEW pair \in ToSet(geo.pairs[q])
          PROVE  Min2(seeds'[pair[2]], fields'[pair[2]]) <= Plus(fields'[pair[1]], pair[3]) + Eps
      <4>1. PICK i \in 1 .. Len(geo.pairs[q]) : pair = geo.pairs[q][i]
        BY PairsOfSet
      <4>2. PICK from \in CellsOf(q), to \in Cell, t \in Nat : geo.pairs[q][i] = <<from, to, t>>
        BY PairsLead
      <4>3. Min2(seeds[to], fields[to]) <= Plus(fields[from], t) + Eps
        BY <3>2, <4>1, <4>2
      <4>4. fields'[from] = fields[from] /\ fields[from] \in Nat
        BY <1>4, <2>1, <3>3
      <4>5. Plus(fields[from], t) \in Nat
        BY <4>4, TimesAddUp, Bounds
      <4>6. Min2(seeds'[to], fields'[to]) <= Min2(seeds[to], fields[to])
        BY <1>3, <1>4 DEF Min2
      <4>7. Min2(seeds'[to], fields'[to]) \in Nat /\ Min2(seeds[to], fields[to]) \in Nat
        BY <1>4 DEF Min2
      <4>8. PICK a, b, z \in Nat : /\ a = Min2(seeds'[to], fields'[to]) /\ b = Min2(seeds[to], fields[to])
                                   /\ z = Plus(fields[from], t)
        BY <4>5, <4>7
      <4>9. a <= z + Eps
        BY <4>3, <4>6, <4>8, Bounds
      <4> QED
        BY <4>1, <4>2, <4>4, <4>8, <4>9
    <3> QED
      BY <2>1, <3>2, <3>3, <3>4
  <2> QED
    BY <2>2, <2>3
<1>11. NeverTooEarly'
  BY <1>1, <1>2, FieldIsLate, SeedIsLate DEF NeverTooEarly
<1>12. Attained'
  <2> SUFFICES ASSUME NEW c \in Cell, fields'[c] # Infinity
               PROVE  \E s \in CellsOf(geo.home[c]) : Plus(seeds'[s], geo.inside[s][c]) <= fields'[c]
    BY <1>1, InputsStay DEF Attained
  <2>1. ASSUME fields'[c] = fields[c]
        PROVE  \E s \in CellsOf(geo.home[c]) : Plus(seeds'[s], geo.inside[s][c]) <= fields'[c]
    <3>1. PICK s \in CellsOf(geo.home[c]) : Plus(seeds[s], geo.inside[s][c]) <= fields[c]
      BY <2>1 DEF IInv, Attained
    <3>2. s \in Cell
      BY DEF CellsOf
    <3>3. PICK t \in Nat : t = geo.inside[s][c]
      BY <1>5, <3>2
    <3>4. Plus(seeds'[s], t) <= Plus(seeds[s], t) /\ Plus(seeds'[s], t) \in Nat /\ Plus(seeds[s], t) \in Nat
      BY <1>3, <1>4, <3>2, <3>3, PlusGrows
    <3>5. Plus(seeds'[s], t) <= fields'[c]
      BY <1>4, <2>1, <3>1, <3>3, <3>4
    <3> QED
      BY <3>3, <3>5
  <2>2. ASSUME NEW s \in CellsOf(r), c \in CellsOf(r), fields'[c] = Plus(seeds[s], geo.inside[s][c])
        PROVE  \E z \in CellsOf(geo.home[c]) : Plus(seeds'[z], geo.inside[z][c]) <= fields'[c]
    <3>1. geo.home[c] = r /\ seeds'[s] = seeds[s]
      BY <1>3, <2>2 DEF CellsOf
    <3>2. Plus(seeds'[s], geo.inside[s][c]) <= fields'[c]
      BY <1>4, <2>2, <3>1
    <3> QED
      BY <3>1, <3>2
  <2>3. CASE c \in CellsOf(r)
    <3>1. \/ fields'[c] \in {fields[c], Infinity}
          \/ \E s \in CellsOf(r) : fields'[c] = Plus(seeds[s], geo.inside[s][c])
      BY <1>1, <1>2, <2>3, SolvedRegion
    <3> QED
      BY <2>1, <2>2, <2>3, <3>1
  <2>4. CASE c \notin CellsOf(r)
    BY <1>3, <2>1, <2>4
  <2> QED
    BY <2>3, <2>4
<1>13. GoalSeeded'
  <2> SUFFICES ASSUME NEW c \in goal PROVE seeds'[c] = 0
    BY <1>1 DEF GoalSeeded
  <2>1. c \in Cell /\ seeds[c] = 0
    BY <1>1, InvariantTypes DEF IInv, GoalSeeded
  <2> QED
    BY <1>3, <1>4, <2>1
<1>14. Rounded' /\ SolvedIsClean'
  BY <1>1, <1>2, InputsStay, FieldIsLate, SeedIsLate DEF Rounded, SolvedIsClean
<1> QED
  BY <1>7, <1>8, <1>9, <1>10, <1>11, <1>12, <1>13, <1>14 DEF IInv

\* An entry of a region that is not dirty is one too many.
LEMMA SkipKeeps == IInv /\ SkipClean => IInv'
<1> SUFFICES ASSUME IInv, SkipClean PROVE IInv'
  OBVIOUS
<1>1. /\ UNCHANGED inputs /\ geo' = geo /\ goal' = goal /\ limit' = limit /\ exact' = exact
      /\ fields' = fields /\ solved' = solved /\ seeds' = seeds /\ dirty' = dirty
      /\ pops' = pops /\ status' = status /\ status = "solving"
      /\ First[2] \notin dirty /\ heap' = heap \ {First}
  BY DEF SkipClean, inputs, Popped
<1>2. TypeOK'
  BY <1>1 DEF IInv, TypeOK
<1>3. geo' \in Geometries /\ exact' = TravelTime(Arrivals)'
  BY <1>1, InputsStay DEF IInv
<1>4. QueueComplete'
  <2>1. ASSUME NEW q \in dirty PROVE \E e \in heap' : e[2] = q
    <3>1. PICK e \in heap : e[2] = q
      BY <1>1 DEF IInv, QueueComplete
    <3> QED
      BY <1>1, <3>1
  <2> QED
    BY <1>1, <2>1 DEF IInv, QueueComplete
<1>5. CleanIsSettled' /\ NeverTooEarly' /\ Attained' /\ GoalSeeded' /\ SolvedIsClean'
  BY <1>1, InputsStay
     DEF IInv, CleanIsSettled, NeverTooEarly, Attained, GoalSeeded, SolvedIsClean
<1>6. Rounded'
  BY <1>1, InputsStay DEF IInv, Rounded
<1> QED
  BY <1>2, <1>3, <1>4, <1>5, <1>6 DEF IInv

LEMMA GiveUpKeeps == IInv /\ GiveUp => IInv'
<1> SUFFICES ASSUME IInv, GiveUp PROVE IInv'
  OBVIOUS
<1>1. /\ UNCHANGED inputs /\ geo' = geo /\ goal' = goal /\ limit' = limit /\ exact' = exact
      /\ fields' = fields /\ solved' = solved /\ seeds' = seeds
      /\ dirty' = dirty \ {First[2]} /\ pops' = pops + 1 /\ status' = "not converged"
      /\ heap' = heap \ {First}
  BY DEF GiveUp, inputs, Popped
<1>2. TypeOK'
  <2>1. dirty' \subseteq Region /\ heap' \subseteq Time \X Region /\ pops' \in Nat
    <3>1. dirty \subseteq Region /\ heap \subseteq Time \X Region /\ pops \in Nat
      BY DEF IInv, TypeOK
    <3>2. dirty' \subseteq dirty /\ heap' \subseteq heap /\ pops' = pops + 1
      BY <1>1
    <3>3. heap' \subseteq Time \X Region
      BY <3>1, <3>2, Zenon
    <3> QED
      BY <3>1, <3>2, <3>3
  <2> QED
    BY <1>1, <2>1 DEF IInv, TypeOK
<1>3. geo' \in Geometries /\ exact' = TravelTime(Arrivals)'
  BY <1>1, InputsStay DEF IInv
<1>4. QueueComplete' /\ CleanIsSettled' /\ GoalSeeded' /\ SolvedIsClean'
  BY <1>1 DEF QueueComplete, CleanIsSettled, GoalSeeded, SolvedIsClean
<1>5. NeverTooEarly' /\ Attained'
  BY <1>1, InputsStay DEF IInv, NeverTooEarly, Attained
<1>6. Rounded'
  BY <1>1, InputsStay DEF IInv, Rounded
<1> QED
  BY <1>2, <1>3, <1>4, <1>5, <1>6 DEF IInv

LEMMA FinishKeeps == IInv /\ Finish => IInv'
<1> SUFFICES ASSUME IInv, Finish PROVE IInv'
  OBVIOUS
<1>1. /\ UNCHANGED inputs /\ geo' = geo /\ goal' = goal /\ limit' = limit /\ exact' = exact
      /\ fields' = fields /\ solved' = solved /\ seeds' = seeds /\ dirty' = dirty
      /\ pops' = pops /\ heap' = heap /\ heap = {}
      /\ status = "solving" /\ status' = "solved"
  BY DEF Finish, inputs
<1>2. TypeOK'
  BY <1>1 DEF IInv, TypeOK
<1>3. geo' \in Geometries /\ exact' = TravelTime(Arrivals)'
  BY <1>1, InputsStay DEF IInv
<1>4. QueueComplete' /\ SolvedIsClean'
  BY <1>1 DEF IInv, QueueComplete, SolvedIsClean
<1>5. CleanIsSettled' /\ NeverTooEarly' /\ Attained' /\ GoalSeeded'
  BY <1>1, InputsStay DEF IInv, CleanIsSettled, NeverTooEarly, Attained, GoalSeeded
<1>6. Rounded'
  BY <1>1, InputsStay DEF IInv, Rounded
<1> QED
  BY <1>2, <1>3, <1>4, <1>5, <1>6 DEF IInv

LEMMA StutterKeeps == IInv /\ UNCHANGED vars => IInv'
<1> SUFFICES ASSUME IInv, UNCHANGED vars PROVE IInv'
  OBVIOUS
<1>1. /\ UNCHANGED inputs /\ geo' = geo /\ goal' = goal /\ limit' = limit /\ exact' = exact
      /\ fields' = fields /\ solved' = solved /\ seeds' = seeds /\ dirty' = dirty
      /\ pops' = pops /\ heap' = heap /\ status' = status
  BY DEF vars, inputs
<1>2. TypeOK' /\ QueueComplete' /\ SolvedIsClean'
  BY <1>1 DEF IInv, TypeOK, QueueComplete, SolvedIsClean
<1>3. geo' \in Geometries /\ exact' = TravelTime(Arrivals)'
  BY <1>1, InputsStay DEF IInv
<1>4. CleanIsSettled' /\ NeverTooEarly' /\ Attained' /\ GoalSeeded'
  BY <1>1, InputsStay DEF IInv, CleanIsSettled, NeverTooEarly, Attained, GoalSeeded
<1>5. Rounded'
  BY <1>1, InputsStay DEF IInv, Rounded
<1> QED
  BY <1>2, <1>3, <1>4, <1>5 DEF IInv

THEOREM InvariantHolds == Spec => []IInv
<1>1. IInv /\ [Next]_vars => IInv'
  BY StartKeeps, SkipKeeps, SolveKeeps, GiveUpKeeps, FinishKeeps, StutterKeeps DEF Next
<1> QED
  BY InitKeeps, <1>1, PTL DEF Spec

-----------------------------------------------------------------------------
\* Whatever has been solved so far is a part of the solution: no region that has
\* to be solved is forgotten by the heap, a clean one has nothing more to say, and
\* no time is earlier than the quickest way.
THEOREM PropagationIsSound == Spec => []PropagationSound
<1>1. IInv => PropagationSound
  BY DEF IInv, PropagationSound
<1> QED
  BY InvariantHolds, <1>1, PTL

(***************************************************************************)
(* The solution is that of a single grid: along the ways of the reference  *)
(* the fields of a solved propagation lose nothing inside of a region, and *)
(* at a seam no more than Eps, which multiples of Eps + 1 do not lose.     *)
(***************************************************************************)
Slack == IF Coarse THEN 0 ELSE Eps

LEMMA SolvedInside ==
  ASSUME IInv, status = "solved", NEW c \in Cell, NEW d \in Cell, geo.home[c] = geo.home[d]
  PROVE  /\ fields[d] <= Plus(fields[c], geo.inside[c][d])
         /\ fields[c] <= seeds[c]
<1>1. /\ fields[c] \in Nat /\ fields[d] \in Nat /\ fields[d] <= Infinity /\ fields[c] <= Infinity
      /\ geo.home[c] \in Region
  BY InvariantTypes
<1>2. \A x, y \in CellsOf(geo.home[c]) : fields[x] <= Plus(seeds[y], geo.inside[y][x])
  BY <1>1 DEF IInv, SolvedIsClean, CleanIsSettled
<1>3. c \in CellsOf(geo.home[c]) /\ d \in CellsOf(geo.home[c])
  BY DEF CellsOf
<1>4. /\ \A x, y \in Cell : geo.inside[x][y] \in Nat
      /\ geo.inside[c][c] = 0
      /\ \A y \in Cell : geo.inside[y][d] <= geo.inside[y][c] + geo.inside[c][d]
  BY InvariantTypes, FieldAssumption DEF IInv
<1>5. fields[c] <= seeds[c]
  <2>1. fields[c] <= Plus(seeds[c], 0) /\ seeds[c] \in Nat
    BY <1>2, <1>3, <1>4, InvariantTypes
  <2> QED
    BY <1>1, <2>1, Bounds DEF Plus, Min2
<1>6. CASE fields[c] = Infinity
  BY <1>1, <1>4, <1>5, <1>6, InfiniteIsFar
<1>7. CASE fields[c] # Infinity
  <2>1. PICK s \in CellsOf(geo.home[c]) : Plus(seeds[s], geo.inside[s][c]) <= fields[c]
    BY <1>7 DEF IInv, Attained
  <2>2. s \in Cell /\ seeds[s] \in Nat
    BY InvariantTypes DEF CellsOf
  <2>3. PICK x, y, z \in Nat : x = geo.inside[s][c] /\ y = geo.inside[c][d] /\ z = geo.inside[s][d]
    BY <1>4, <2>2
  <2>4. z <= x + y
    BY <1>4, <2>2, <2>3
  <2>5. fields[d] <= Plus(seeds[s], z)
    BY <1>2, <1>3, <2>3
  <2>6. fields[d] <= Plus(fields[c], y)
    BY <1>1, <1>7, <2>1, <2>2, <2>3, <2>4, <2>5, Bounds DEF Plus, Min2
  <2> QED
    BY <1>5, <2>3, <2>6
<1> QED
  BY <1>6, <1>7

LEMMA SolvedLegs ==
  ASSUME IInv, status = "solved", NEW c \in Cell, NEW g \in Legs(c)
  PROVE  g[1] \in Cell /\ g[2] \in Nat /\ fields[g[1]] <= Plus(fields[c], g[2]) + Slack
<1>1. g[1] \in Cell /\ g[2] \in Nat /\ geo.home[c] \in Region /\ Slack \in Nat
  BY InvariantTypes, LegsLeadToCells, Bounds DEF Slack
<1>2. \A b \in Cell : fields[b] \in Nat /\ seeds[b] \in Nat /\ fields[b] <= Infinity
  BY InvariantTypes
<1>3. Plus(fields[c], g[2]) \in Nat
  BY <1>1, <1>2, TimesAddUp, Bounds
<1>4. ASSUME NEW d \in Cell, g = <<d, geo.inside[c][d]>>, geo.inside[c][d] < Infinity
      PROVE  fields[g[1]] <= Plus(fields[c], g[2]) + Slack
  <2>1. geo.home[c] = geo.home[d]
    BY <1>4, FieldAssumption, Bounds DEF IInv
  <2>2. fields[d] <= Plus(fields[c], geo.inside[c][d])
    BY <2>1, SolvedInside
  <2> QED
    BY <1>1, <1>2, <1>3, <1>4, <2>2
<1>5. ASSUME NEW p \in ToSet(geo.pairs[geo.home[c]]), p[1] = c, g = <<p[2], p[3]>>
      PROVE  fields[g[1]] <= Plus(fields[c], g[2]) + Slack
  <2>1. Min2(seeds[p[2]], fields[p[2]]) <= Plus(fields[p[1]], p[3]) + Eps
    BY <1>1 DEF IInv, SolvedIsClean, CleanIsSettled
  <2>2. PICK z \in Nat : z = Plus(fields[c], g[2])
    BY <1>3
  <2>3. PICK d \in Cell : d = g[1] /\ d = p[2]
    BY <1>1, <1>5
  <2>4. fields[d] <= seeds[d]
    BY SolvedInside
  <2>5. fields[d] <= z + Eps
    BY <1>2, <1>5, <2>1, <2>2, <2>3, <2>4 DEF Min2
  <2>6. ASSUME Coarse PROVE fields[d] <= z
    <3>1. fields[d] % (Eps + 1) = 0 /\ fields[c] % (Eps + 1) = 0
      BY <2>6 DEF IInv, Rounded
    <3>2. g[2] % (Eps + 1) = 0
      BY <2>6 DEF Coarse
    <3>3. z % (Eps + 1) = 0
      BY <1>1, <1>2, <2>2, <3>1, <3>2, MultiplesAddUp
    <3> QED
      BY <1>2, <2>5, <3>1, <3>3, MultiplesDiffer
  <2> QED
    BY <1>2, <2>2, <2>3, <2>5, <2>6, Bounds DEF Slack
<1> QED
  BY <1>1, <1>4, <1>5 DEF Legs

LEMMA SolvedMatches ==
  ASSUME IInv, status = "solved", NEW c \in Cell
  PROVE  fields[c] <= exact[c] + (IF Coarse THEN 0 ELSE Eps * (Cardinality(Cell) - 1))
<1> DEFINE N == Cardinality(Cell) - 1
<1>1. N \in Nat /\ Slack \in Nat
  BY CellsCounted, Bounds DEF Slack
<1>2. /\ Places /\ exact = TravelTime(Arrivals)
      /\ \A b \in Cell : /\ fields[b] \in Nat /\ fields[b] <= Infinity
                         /\ exact[b] \in Nat /\ exact[b] <= Infinity
  BY InvariantTypes DEF IInv
<1>3. PICK W : LegByLeg(W) /\ Arrivals = W[N]
  BY <1>2, ArrivalsLegByLeg
<1>4. /\ \A n \in 0 .. N : W[n] \in SUBSET (Cell \X Time)
      /\ \A n \in Nat : n + 1 <= N => W[n + 1] = Extended(W[n])
  BY <1>2, <1>3, LegByLegGrows
<1> HIDE DEF N
<1> DEFINE Near(n) == \A a \in W[n] : fields[a[1]] <= a[2] + Slack * n
           S == {n \in Nat : n <= N => Near(n)}
<1>5. 0 \in S
  <2> SUFFICES ASSUME NEW a \in W[0] PROVE fields[a[1]] <= a[2] + Slack * 0
    OBVIOUS
  <2>1. a[1] \in goal /\ a[2] = 0
    BY <1>3 DEF LegByLeg
  <2>2. PICK b \in Cell : b = a[1]
    BY <1>2, <2>1 DEF Places
  <2>3. seeds[b] = 0
    BY <2>1, <2>2 DEF IInv, GoalSeeded
  <2>4. fields[b] <= seeds[b]
    BY SolvedInside
  <2> QED
    BY <1>1, <1>2, <2>1, <2>2, <2>3, <2>4
<1>6. \A n \in Nat : n \in S => n + 1 \in S
  <2> SUFFICES ASSUME NEW n \in Nat, n + 1 <= N, Near(n)
               PROVE  Near(n + 1)
    BY <1>1
  <2>1. /\ W[n] \in SUBSET (Cell \X Time)
        /\ W[n + 1] = UNION {{a} \cup {<<g[1], Plus(a[2], g[2])>> : g \in Legs(a[1])} : a \in W[n]}
    BY <1>1, <1>4 DEF Extended
  <2>2. PICK k, l \in Nat : k = Slack * n /\ l = Slack * (n + 1)
    BY <1>1
  <2>3. l = k + Slack
    BY <1>1, <2>2
  <2>4. ASSUME NEW a \in W[n]
        PROVE  /\ fields[a[1]] <= a[2] + l
               /\ \A g \in Legs(a[1]) : fields[g[1]] <= Plus(a[2], g[2]) + l
    <3>1. PICK b \in Cell, t \in Nat : b = a[1] /\ t = a[2]
      BY <2>1, Bounds
    <3>2. fields[b] <= t + k
      BY <2>2, <3>1
    <3>3. ASSUME NEW g \in Legs(b) PROVE fields[g[1]] <= Plus(t, g[2]) + l
      <4>1. PICK d \in Cell, z \in Nat : d = g[1] /\ z = g[2]
        BY SolvedLegs
      <4>2. fields[d] <= Plus(fields[b], z) + Slack
        BY <4>1, SolvedLegs
      <4> QED
        BY <1>1, <1>2, <2>2, <2>3, <3>2, <4>1, <4>2, Bounds DEF Plus, Min2
    <3> QED
      BY <1>1, <1>2, <2>2, <2>3, <3>1, <3>2, <3>3
  <2> QED
    BY <2>1, <2>2, <2>4
<1>7. Nat \subseteq S
  <2> HIDE DEF S
  <2> QED
    BY <1>5, <1>6, Induction
<1>8. Near(N)
  BY <1>1, <1>7
<1>9. fields[c] <= exact[c] + Slack * N
  <2>1. Slack * N \in Nat
    BY <1>1
  <2>2. CASE exact[c] = Infinity
    BY <1>2, <2>1, <2>2, Bounds
  <2>3. CASE exact[c] # Infinity
    <3>1. Arrivals \in SUBSET (Cell \X Time)
      BY <1>1, <1>3, <1>4
    <3>2. <<c, exact[c]>> \in Arrivals
      BY <1>2, <2>3, <3>1, TravelTimes
    <3> QED
      BY <1>3, <1>8, <3>2
  <2> QED
    BY <2>2, <2>3
<1> QED
  BY <1>1, <1>2, <1>9 DEF Slack, N

\* Once the propagation has finished, its fields are those of a single grid over
\* the whole surface, whatever the numbering of the regions and the order in
\* which the heap gave them out: exactly if no two arrivals differ by Eps or
\* less, and else within Eps for each leg of a way.
THEOREM SingleGridIsMatched == Spec => []MatchesSingleGrid
<1>1. IInv => MatchesSingleGrid
  BY SolvedMatches DEF MatchesSingleGrid
<1> QED
  BY InvariantHolds, <1>1, PTL
=============================================================================
