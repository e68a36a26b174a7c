---------------------------- MODULE PromisingProofs ----------------------------
(* What promising keeps, for every horizon, lead time, allocation, segment and  *)
(* number of orders.                                                          *)
(*                                                                            *)
(* A run is a sequence of small steps, and each of them leads from the one set  *)
(* of outcomes to the next (TurnsExist, TurnsIn). The sets say that a picture   *)
(* has no day below a floor (Floored), and the floor is what was left before    *)
(* the run: what can be had on a day is the least of what is there on it and     *)
(* after it, so no claim takes a day below its floor, and what is given back    *)
(* only raises it. What an entry or backorder run leaves promised covers what    *)
(* its orders have confirmed then (Covers), for the order runs take them up in  *)
(* lists each once (SequenceIs).                                              *)
EXTENDS Promising, Sums

\* u[k] is what k steps lead to, from the one base on; X[k] is where they stay.
Reached(u, n, X, st, base) ==
    /\ u = [k \in 0..n |-> u[k]] /\ u[0] = {base}
    /\ \A k \in 1..n : \A y : y \in u[k] <=> \E x \in u[k - 1] : y = st[k][x]
    /\ \A k \in 0..n : u[k] \subseteq X[k]

\* Steps taken one after the other lead somewhere, if each leads from the one set to the next.
LEMMA TurnsExist ==
    ASSUME NEW n \in Nat, NEW X, NEW st, NEW base, base \in X[0],
           \A k \in 1..n : \A x \in X[k - 1] : st[k][x] \in X[k]
    PROVE  \E u : Reached(u, n, X, st, base)
<1>. DEFINE Up(u, m) == Reached(u, m, X, st, base)
            Bad == {m \in 0..n : ~\E u : Up(u, m)}
<1>. SUFFICES ASSUME Bad # {} PROVE FALSE
  <2>. HIDE DEF Up
  <2>1. n \in 0..n /\ n \notin Bad
    OBVIOUS
  <2>2. \E u : Up(u, n)
    BY <2>1
  <2>. QED  BY <2>2 DEF Up
<1>. USE DEF Reached
<1>1. PICK m \in Bad : \A k \in Bad : m <= k
  <2>1. Bad \subseteq Nat
    OBVIOUS
  <2>. HIDE DEF Bad
  <2>. QED  BY <2>1, LeastOf
<1>2. m \in 0..n
  OBVIOUS
<1>3. CASE m = 0
  <2>1. PICK u : u = [k \in 0..0 |-> {base}]
    OBVIOUS
  <2>2. u = [k \in 0..0 |-> u[k]] /\ u[0] = {base}
    BY <2>1
  <2>3. \A k \in 0..0 : u[k] \subseteq X[k]
    BY <2>1
  <2>4. Up(u, 0)
    BY <2>2, <2>3
  <2>. QED  BY <1>3, <2>4
<1>4. CASE m # 0
  <2>1. m - 1 \in 0..n /\ m - 1 \notin Bad /\ m \in 1..n
    <3>. HIDE DEF Bad
    <3>1. m - 1 \in 0..n /\ ~(m <= m - 1)
      BY <1>2, <1>4
    <3>. QED  BY <1>1, <1>2, <1>4, <3>1
  <2>2. PICK v : Up(v, m - 1)
    BY <2>1
  <2>3. PICK u : u = [k \in 0..m |-> IF k = m THEN {st[m][x] : x \in v[m - 1]} ELSE v[k]]
    OBVIOUS
  <2>4. \A k \in 0..(m - 1) : u[k] = v[k] /\ k \in 0..m
    <3>1. \A k \in 0..(m - 1) : k \in 0..m /\ k # m
      BY <2>1
    <3>. QED  BY <2>3, <3>1
  <2>5. u = [k \in 0..m |-> u[k]] /\ u[m] = {st[m][x] : x \in v[m - 1]}
    <3>1. m \in 0..m
      BY <2>1
    <3>. QED  BY <2>3, <3>1
  <2>6. u[0] = {base}
    BY <2>1, <2>2, <2>4
  <2>7. ASSUME NEW k \in 1..m, NEW y PROVE y \in u[k] <=> \E x \in u[k - 1] : y = st[k][x]
    <3>1. CASE k \in 1..(m - 1)
      <4>1. k \in 0..(m - 1) /\ k - 1 \in 0..(m - 1)
        BY <2>1, <3>1
      <4>2. u[k] = v[k] /\ u[k - 1] = v[k - 1]
        BY <2>4, <4>1
      <4>3. y \in v[k] <=> \E x \in v[k - 1] : y = st[k][x]
        BY <2>2, <3>1
      <4>. QED  BY <4>2, <4>3
    <3>2. CASE k = m
      <4>1. u[m - 1] = v[m - 1]
        BY <2>1, <2>4
      <4>. QED  BY <2>5, <3>2, <4>1
    <3>. QED  BY <2>1, <3>1, <3>2
  <2>8. ASSUME NEW k \in 0..m PROVE u[k] \subseteq X[k]
    <3>1. CASE k \in 0..(m - 1)
      BY <2>2, <2>4, <3>1
    <3>2. CASE k = m
      <4>1. m \in 1..n /\ v[m - 1] \subseteq X[m - 1]
        BY <2>1, <2>2
      <4>. QED  BY <2>5, <3>2, <4>1
    <3>. QED  BY <2>1, <3>1, <3>2
  <2>9. Up(u, m)
    BY <2>5, <2>6, <2>7, <2>8
  <2>. QED  BY <2>9
<1>. QED  BY <1>3, <1>4

\* The outcome is of the last set.
LEMMA TurnsIn ==
    ASSUME NEW n \in Nat, NEW X, NEW u, NEW base, base \in X[0], u[0] = {base},
           \A k \in 1..n : u[k - 1] \subseteq X[k - 1] /\ u[k - 1] # {} => u[k] \subseteq X[k] /\ u[k] # {}
    PROVE  (CHOOSE x \in u[n] : TRUE) \in X[n]
<1>. DEFINE Bad == {k \in 0..n : ~(u[k] \subseteq X[k] /\ u[k] # {})}
<1>1. Bad = {}
  <2>. SUFFICES ASSUME Bad # {} PROVE FALSE
    OBVIOUS
  <2>1. PICK m \in Bad : \A k \in Bad : m <= k
    <3>1. Bad \subseteq Nat
      OBVIOUS
    <3>. HIDE DEF Bad
    <3>. QED  BY <3>1, LeastOf
  <2>2. m \in 0..n /\ m # 0
    OBVIOUS
  <2>3. m - 1 \in 0..n /\ m - 1 \notin Bad /\ m \in 1..n
    <3>. HIDE DEF Bad
    <3>1. m - 1 \in 0..n /\ ~(m <= m - 1) /\ m \in 1..n
      BY <2>2
    <3>. QED  BY <2>1, <3>1
  <2>4. u[m - 1] \subseteq X[m - 1] /\ u[m - 1] # {}
    BY <2>3
  <2>. QED  BY <2>3, <2>4
<1>2. n \in 0..n
  OBVIOUS
<1>3. u[n] \subseteq X[n] /\ u[n] # {}
  BY <1>1, <1>2
<1>. QED  BY <1>3

\* The sum of the sums.
LEMMA SumBoth ==
    ASSUME NEW S, IsFiniteSet(S), NEW f, NEW g, NEW h, \A x \in S : f[x] \in Int /\ g[x] \in Int /\ h[x] = f[x] + g[x]
    PROVE  /\ SumFunctionOnSet(f, S) \in Int /\ SumFunctionOnSet(g, S) \in Int
           /\ SumFunctionOnSet(h, S) = SumFunctionOnSet(f, S) + SumFunctionOnSet(g, S)
<1>. DEFINE Differ == {V \in SUBSET S : SumFunctionOnSet(h, V) # SumFunctionOnSet(f, V) + SumFunctionOnSet(g, V)}
<1>0. SumFunctionOnSet(f, S) \in Int /\ SumFunctionOnSet(g, S) \in Int
  BY SumInt
<1>. SUFFICES ASSUME Differ # {} PROVE FALSE
  BY <1>0
<1>1. \A V \in Differ : IsFiniteSet(V)
  BY FS_Subset
<1>2. PICK V \in Differ : /\ IsFiniteSet(V)
                         /\ \A W \in SUBSET V : Cardinality(W) < Cardinality(V) => W \notin Differ
  <2>. HIDE DEF Differ
  <2>. QED  BY <1>1, LeastSet
<1>3. V # {} /\ Some(V) \in V
  <2>1. SumFunctionOnSet(f, {}) = 0 /\ SumFunctionOnSet(g, {}) = 0 /\ SumFunctionOnSet(h, {}) = 0
    BY SumEmpty
  <2>2. V # {}
    <3>. SUFFICES ASSUME V = {} PROVE FALSE
      OBVIOUS
    <3>1. SumFunctionOnSet(h, {}) # SumFunctionOnSet(f, {}) + SumFunctionOnSet(g, {})
      OBVIOUS
    <3>. QED  BY <2>1, <3>1
  <2>. QED  BY <2>2 DEF Some
<1>4. /\ SumFunctionOnSet(f, V) = f[Some(V)] + SumFunctionOnSet(f, V \ {Some(V)})
      /\ SumFunctionOnSet(g, V) = g[Some(V)] + SumFunctionOnSet(g, V \ {Some(V)})
      /\ SumFunctionOnSet(h, V) = h[Some(V)] + SumFunctionOnSet(h, V \ {Some(V)})
  BY <1>2, <1>3, SumStep
<1>5. V \ {Some(V)} \in SUBSET V /\ V \ {Some(V)} \notin Differ
  <2>. HIDE DEF Differ
  <2>. QED  BY <1>2, <1>3, SmallerWithout
<1>6. PICK W : W = V \ {Some(V)} /\ W \subseteq S /\ IsFiniteSet(W)
  BY <1>5, FS_Subset
<1>7. SumFunctionOnSet(f, W) \in Int /\ SumFunctionOnSet(g, W) \in Int
  BY <1>6, SumInt
<1>8. SumFunctionOnSet(h, W) = SumFunctionOnSet(f, W) + SumFunctionOnSet(g, W)
  BY <1>5, <1>6
<1>9. f[Some(V)] \in Int /\ g[Some(V)] \in Int /\ h[Some(V)] = f[Some(V)] + g[Some(V)]
  BY <1>3
<1>10. SumFunctionOnSet(h, V) # SumFunctionOnSet(f, V) + SumFunctionOnSet(g, V)
  OBVIOUS
<1>. HIDE DEF Differ
<1>. QED  BY <1>4, <1>6, <1>7, <1>8, <1>9, <1>10

\* A finite set of integers that is not empty has a least element, which Min gives.
LEMMA LowestOf ==
    ASSUME NEW T, T \subseteq Int, T # {}, IsFiniteSet(T)
    PROVE  Min(T) \in T /\ \A y \in T : Min(T) <= y
<1>1. PICK f : f = [x \in T |-> -x]
  OBVIOUS
<1>2. PICK R : R = {f[x] : x \in T} /\ IsFiniteSet(R)
  BY ImageFinite
<1>3. R \subseteq Int /\ R # {}
  <2>1. \A x \in T : f[x] \in Int
    BY <1>1
  <2>. QED  BY <1>2, <2>1
<1>4. PICK m \in R : \A y \in R : y <= m
  BY <1>2, <1>3, GreatestOf
<1>5. PICK x \in T : m = -x
  <2>1. PICK x \in T : m = f[x]
    BY <1>2
  <2>2. f[x] = -x
    BY <1>1
  <2>. QED  BY <2>1, <2>2
<1>6. \A y \in T : x <= y
  <2>. SUFFICES ASSUME NEW y \in T PROVE x <= y
    OBVIOUS
  <2>0. f[y] \in R /\ f[y] = -y
    <3>1. f[y] \in R
      BY <1>2
    <3>2. f[y] = -y
      BY <1>1
    <3>. QED  BY <3>1, <3>2
  <2>1. -y \in R /\ x \in Int /\ y \in Int
    BY <2>0
  <2>. QED  BY <1>4, <1>5, <2>1
<1>. QED  BY <1>6 DEF Min

-----------------------------------------------------------------------------
(* What is confirmed, by location and day.                                    *)

\* Quantities by location and day, with and without deficits; what is used of the periods; pictures of both.
Days == [Locations -> [Ahead -> Int]]
Lines == [Locations -> [Ahead -> Nat]]
Counts == [DOMAIN Periods -> Int]
Pictures == [out : Days, used : Counts]

\* The days looked at and the locations are finite ranges, and there is a first location.
LEMMA Horizons ==
    /\ Ahead = 0..Horizon /\ Ahead \subseteq Nat /\ IsFiniteSet(Ahead) /\ Horizon \in Nat
    /\ Locations = 1..Len(Lead) /\ Len(Lead) \in Nat /\ IsFiniteSet(Locations) /\ 1 \in Locations
    /\ \A s \in Locations : Lead[s] \in Nat
<1>1. Horizon \in Nat /\ Lead \in Seq(Nat) /\ Len(Lead) > 0
  BY PromisingAssumption
<1>2. IsFiniteSet(0..Horizon) /\ IsFiniteSet(1..Len(Lead))
  BY <1>1, FS_Interval
<1>3. DOMAIN Lead = 1..Len(Lead) /\ Len(Lead) \in Nat
  BY <1>1
<1>. QED  BY <1>1, <1>2, <1>3 DEF Ahead, Locations

\* Quantities without deficits are quantities.
LEMMA LinesAreDays == Lines \subseteq Days
BY DEF Lines, Days

\* The first days are among those looked at.
LEMMA FirstDays ==
    ASSUME NEW j \in Ahead
    PROVE  0..j \subseteq Ahead /\ IsFiniteSet(0..j)
<1>1. j \in 0..Horizon /\ Horizon \in Nat
  BY Horizons
<1>2. j \in Int /\ 0..j \subseteq 0..Horizon
  BY <1>1
<1>3. Ahead = 0..Horizon
  BY Horizons
<1>4. IsFiniteSet(0..j)
  BY <1>2, FS_Interval
<1>. QED  BY <1>2, <1>3, <1>4

\* What is confirmed on a day is a number, not negative for an order's lines.
LEMMA DayIs ==
    ASSUME NEW at \in Days, NEW d \in Ahead
    PROVE  OnDay(at, d) \in Int /\ (at \in Lines => OnDay(at, d) \in Nat)
<1>1. PICK f : f = [s \in Locations |-> at[s][d]]
  OBVIOUS
<1>2. \A s \in Locations : f[s] \in Int /\ (at \in Lines => f[s] \in Nat)
  BY <1>1 DEF Days, Lines
<1>. QED  BY <1>1, <1>2, Horizons, SumInt, SumNat DEF OnDay

\* And so is what is confirmed in all.
LEMMA AllIs ==
    ASSUME NEW at \in Days
    PROVE  InAll(at) \in Int /\ (at \in Lines => InAll(at) \in Nat)
<1>1. PICK f : f = [d \in Ahead |-> OnDay(at, d)]
  OBVIOUS
<1>2. \A d \in Ahead : f[d] \in Int /\ (at \in Lines => f[d] \in Nat)
  BY <1>1, DayIs
<1>. QED  BY <1>1, <1>2, Horizons, SumInt, SumNat DEF InAll

\* No lines are lines, and nothing in all.
LEMMA AllNone ==
    NoLines \in Lines /\ InAll(NoLines) = 0
<1>1. NoLines \in Lines
  BY DEF NoLines, Lines
<1>2. ASSUME NEW d \in Ahead PROVE OnDay(NoLines, d) = 0
  <2>1. PICK f : f = [s \in Locations |-> NoLines[s][d]]
    OBVIOUS
  <2>2. \A s \in Locations : f[s] = 0
    BY <2>1 DEF NoLines
  <2>. QED  BY <2>1, <2>2, Horizons, SumZero DEF OnDay
<1>3. PICK f : f = [d \in Ahead |-> OnDay(NoLines, d)]
  OBVIOUS
<1>4. \A d \in Ahead : f[d] = 0
  BY <1>2, <1>3
<1>. QED  BY <1>1, <1>3, <1>4, Horizons, SumZero DEF InAll

\* What is confirmed of two is confirmed of both.
LEMMA AllBoth ==
    ASSUME NEW a \in Days, NEW b \in Days
    PROVE  /\ Both(a, b) \in Days /\ InAll(Both(a, b)) = InAll(a) + InAll(b)
           /\ a \in Lines /\ b \in Lines => Both(a, b) \in Lines
           /\ \A s \in Locations, d \in Ahead : Both(a, b)[s][d] = a[s][d] + b[s][d]
<1>1. Both(a, b) \in Days /\ (a \in Lines /\ b \in Lines => Both(a, b) \in Lines)
  BY DEF Both, Days, Lines
<1>2. \A s \in Locations, d \in Ahead : Both(a, b)[s][d] = a[s][d] + b[s][d]
  BY DEF Both
<1>3. ASSUME NEW d \in Ahead PROVE OnDay(Both(a, b), d) = OnDay(a, d) + OnDay(b, d)
  <2>1. PICK f, g, h : /\ f = [s \in Locations |-> a[s][d]] /\ g = [s \in Locations |-> b[s][d]]
                       /\ h = [s \in Locations |-> Both(a, b)[s][d]]
    OBVIOUS
  <2>2. \A s \in Locations : f[s] \in Int /\ g[s] \in Int /\ h[s] = f[s] + g[s]
    BY <1>2, <2>1 DEF Days
  <2>3. SumFunctionOnSet(h, Locations) = SumFunctionOnSet(f, Locations) + SumFunctionOnSet(g, Locations)
    BY <2>2, Horizons, SumBoth
  <2>. QED  BY <2>1, <2>3 DEF OnDay
<1>4. PICK f, g, h : /\ f = [d \in Ahead |-> OnDay(a, d)] /\ g = [d \in Ahead |-> OnDay(b, d)]
                     /\ h = [d \in Ahead |-> OnDay(Both(a, b), d)]
  OBVIOUS
<1>5. \A d \in Ahead : f[d] \in Int /\ g[d] \in Int /\ h[d] = f[d] + g[d]
  BY <1>3, <1>4, DayIs
<1>6. SumFunctionOnSet(h, Ahead) = SumFunctionOnSet(f, Ahead) + SumFunctionOnSet(g, Ahead)
  BY <1>5, Horizons, SumBoth
<1>. QED  BY <1>1, <1>2, <1>4, <1>6 DEF InAll

\* A quantity on one day at one location.
One(s, d, q) == [t \in Locations |-> [e \in Ahead |-> IF t = s /\ e = d THEN q ELSE 0]]

\* One quantity is that much in all.
LEMMA AllOne ==
    ASSUME NEW s \in Locations, NEW d \in Ahead, NEW q \in Int
    PROVE  One(s, d, q) \in Days /\ InAll(One(s, d, q)) = q /\ (q \in Nat => One(s, d, q) \in Lines)
<1>1. One(s, d, q) \in Days /\ (q \in Nat => One(s, d, q) \in Lines)
  BY DEF One, Days, Lines
<1>2. ASSUME NEW e \in Ahead PROVE OnDay(One(s, d, q), e) = IF e = d THEN q ELSE 0
  <2>1. PICK f, g : f = [t \in Locations |-> 0] /\ g = [t \in Locations |-> One(s, d, q)[t][e]]
    OBVIOUS
  <2>2. SumFunctionOnSet(f, Locations) = 0
    BY <2>1, Horizons, SumZero
  <2>3. /\ \A t \in Locations : f[t] \in Int /\ g[t] \in Int
        /\ \A t \in Locations \ {s} : f[t] = g[t]
        /\ f[s] = 0 /\ g[s] = IF e = d THEN q ELSE 0
    BY <2>1 DEF One
  <2>4. SumFunctionOnSet(g, Locations) = SumFunctionOnSet(f, Locations) - f[s] + g[s]
    <3>1. IsFiniteSet(Locations)
      BY Horizons
    <3>. QED  BY <2>3, <3>1, SumChanged
  <2>. QED  BY <2>1, <2>2, <2>3, <2>4 DEF OnDay
<1>3. PICK f, g : f = [e \in Ahead |-> 0] /\ g = [e \in Ahead |-> OnDay(One(s, d, q), e)]
  OBVIOUS
<1>4. SumFunctionOnSet(f, Ahead) = 0
  BY <1>3, Horizons, SumZero
<1>5. /\ \A e \in Ahead : f[e] \in Int /\ g[e] \in Int
      /\ \A e \in Ahead \ {d} : f[e] = g[e]
      /\ f[d] = 0 /\ g[d] = q
  BY <1>2, <1>3
<1>6. SumFunctionOnSet(g, Ahead) = SumFunctionOnSet(f, Ahead) - f[d] + g[d]
  <2>1. IsFiniteSet(Ahead)
    BY Horizons
  <2>. QED  BY <1>5, <2>1, SumChanged
<1>. QED  BY <1>1, <1>3, <1>4, <1>5, <1>6 DEF InAll

\* More of it on one day at one location.
With(at, s, d, q) == [at EXCEPT ![s][d] = @ + q]

\* More on one day is as much as both.
LEMMA WithOne ==
    ASSUME NEW at \in Days, NEW s \in Locations, NEW d \in Ahead, NEW q \in Int
    PROVE  With(at, s, d, q) = Both(at, One(s, d, q))
<1>1. PICK b : b = With(at, s, d, q)
  OBVIOUS
<1>2. b \in [Locations -> [Ahead -> Int]] /\ at \in [Locations -> [Ahead -> Int]]
  BY <1>1 DEF Days, With
<1>3. \A t \in Locations, e \in Ahead : b[t][e] = IF t = s /\ e = d THEN at[t][e] + q ELSE at[t][e]
  BY <1>1, <1>2 DEF With
<1>4. PICK c, o : c = Both(at, o) /\ o = One(s, d, q) /\ o \in Days
  BY AllOne
<1>5. c \in [Locations -> [Ahead -> Int]] /\ \A t \in Locations, e \in Ahead : c[t][e] = at[t][e] + One(s, d, q)[t][e]
  <2>1. c \in Days /\ \A t \in Locations, e \in Ahead : c[t][e] = at[t][e] + o[t][e]
    BY <1>4, AllBoth
  <2>. QED  BY <1>4, <2>1 DEF Days
<1>6. \A t \in Locations, e \in Ahead : One(s, d, q)[t][e] = IF t = s /\ e = d THEN q ELSE 0
  BY DEF One
<1>7. \A t \in Locations, e \in Ahead : at[t][e] \in Int
  BY <1>2
<1>8. \A t \in Locations, e \in Ahead : b[t][e] = c[t][e]
  BY <1>3, <1>5, <1>6, <1>7
<1>9. \A t \in Locations : b[t] = c[t]
  BY <1>2, <1>5, <1>8
<1>10. b = c
  BY <1>2, <1>5, <1>9
<1>. QED  BY <1>1, <1>4, <1>10, Zenon

\* More on one day is that much more in all.
LEMMA AllWith ==
    ASSUME NEW at \in Days, NEW s \in Locations, NEW d \in Ahead, NEW q \in Int
    PROVE  /\ [at EXCEPT ![s][d] = @ + q] \in Days
           /\ InAll([at EXCEPT ![s][d] = @ + q]) = InAll(at) + q
           /\ at \in Lines /\ q \in Nat => [at EXCEPT ![s][d] = @ + q] \in Lines
<1>1. [at EXCEPT ![s][d] = @ + q] = Both(at, One(s, d, q))
  BY WithOne DEF With
<1>2. PICK o : o = One(s, d, q) /\ o \in Days /\ InAll(o) = q /\ (q \in Nat => o \in Lines)
  BY AllOne
<1>3. /\ Both(at, o) \in Days /\ InAll(Both(at, o)) = InAll(at) + q
      /\ at \in Lines /\ o \in Lines => Both(at, o) \in Lines
  BY <1>2, AllBoth
<1>. QED  BY <1>1, <1>2, <1>3

\* No more on any day, no more in all.
LEMMA AllLeq ==
    ASSUME NEW a \in Days, NEW b \in Days, \A s \in Locations, d \in Ahead : a[s][d] <= b[s][d]
    PROVE  InAll(a) <= InAll(b)
<1>1. ASSUME NEW d \in Ahead PROVE OnDay(a, d) <= OnDay(b, d)
  <2>1. PICK f, g : f = [s \in Locations |-> a[s][d]] /\ g = [s \in Locations |-> b[s][d]]
    OBVIOUS
  <2>2. \A s \in Locations : f[s] \in Int /\ g[s] \in Int /\ f[s] <= g[s]
    BY <2>1 DEF Days
  <2>. QED  BY <2>1, <2>2, Horizons, SumLeq DEF OnDay
<1>2. PICK f, g : f = [d \in Ahead |-> OnDay(a, d)] /\ g = [d \in Ahead |-> OnDay(b, d)]
  OBVIOUS
<1>3. \A d \in Ahead : f[d] \in Int /\ g[d] \in Int /\ f[d] <= g[d]
  BY <1>1, <1>2, DayIs
<1>. QED  BY <1>2, <1>3, Horizons, SumLeq DEF InAll

-----------------------------------------------------------------------------
(* The supply picture.                                                        *)

\* What has come by a day.
LEMMA CumIs ==
    ASSUME supply \in Days, NEW p \in Pictures, NEW s \in Locations, NEW j \in Ahead
    PROVE  Cum(p, s, j) \in Int
<1>1. PICK f : f = [d \in 0..j |-> supply[s][d] - p.out[s][d]]
  OBVIOUS
<1>2. \A d \in 0..j : f[d] \in Int
  <2>1. \A d \in 0..j : d \in Ahead /\ supply[s][d] \in Int /\ p.out[s][d] \in Int
    BY FirstDays DEF Days, Pictures
  <2>. QED  BY <1>1, <2>1
<1>. QED  BY <1>1, <1>2, FirstDays, SumInt DEF Cum

\* The more is promised, the less is there.
LEMMA CumLess ==
    ASSUME supply \in Days, NEW p \in Pictures, NEW r \in Pictures, NEW s \in Locations, NEW j \in Ahead,
           \A d \in Ahead : r.out[s][d] <= p.out[s][d]
    PROVE  Cum(p, s, j) <= Cum(r, s, j)
<1>1. PICK f, g : f = [d \in 0..j |-> supply[s][d] - p.out[s][d]] /\ g = [d \in 0..j |-> supply[s][d] - r.out[s][d]]
  OBVIOUS
<1>2. \A d \in 0..j : f[d] \in Int /\ g[d] \in Int /\ f[d] <= g[d]
  <2>1. \A d \in 0..j : /\ d \in Ahead /\ supply[s][d] \in Int /\ p.out[s][d] \in Int /\ r.out[s][d] \in Int
                        /\ r.out[s][d] <= p.out[s][d]
    BY FirstDays DEF Days, Pictures
  <2>. QED  BY <1>1, <2>1
<1>. QED  BY <1>1, <1>2, FirstDays, SumLeq DEF Cum

\* What is promised for a day is not there from that day on.
LEMMA CumWith ==
    ASSUME supply \in Days, NEW p \in Pictures, NEW r \in Pictures, NEW s \in Locations, NEW d \in Ahead, NEW q \in Int,
           r.out = [p.out EXCEPT ![s][d] = @ + q], NEW t \in Locations, NEW j \in Ahead
    PROVE  Cum(r, t, j) = IF t = s /\ d <= j THEN Cum(p, t, j) - q ELSE Cum(p, t, j)
<1>1. PICK f, g : f = [e \in 0..j |-> supply[t][e] - p.out[t][e]] /\ g = [e \in 0..j |-> supply[t][e] - r.out[t][e]]
  OBVIOUS
<1>2. \A e \in Ahead : r.out[t][e] = IF t = s /\ e = d THEN p.out[t][e] + q ELSE p.out[t][e]
  BY DEF Days, Pictures
<1>3. \A e \in 0..j : e \in Ahead /\ supply[t][e] \in Int /\ p.out[t][e] \in Int
  <2>1. 0..j \subseteq Ahead
    BY FirstDays
  <2>2. \A e \in Ahead : supply[t][e] \in Int /\ p.out[t][e] \in Int
    BY DEF Days, Pictures
  <2>. QED  BY <2>1, <2>2
<1>4. IsFiniteSet(0..j)
  BY FirstDays
<1>5. \A e \in 0..j : f[e] \in Int /\ g[e] = IF t = s /\ e = d THEN f[e] - q ELSE f[e]
  BY <1>1, <1>2, <1>3
<1>6. CASE t = s /\ d <= j
  <2>1. d \in 0..j
    BY <1>6, Horizons
  <2>2. \A e \in 0..j : f[e] \in Int /\ g[e] \in Int
    BY <1>5
  <2>3. \A e \in (0..j) \ {d} : f[e] = g[e]
    BY <1>5
  <2>4. g[d] = f[d] - q /\ f[d] \in Int
    BY <1>5, <1>6, <2>1
  <2>5. SumFunctionOnSet(g, 0..j) = SumFunctionOnSet(f, 0..j) - f[d] + g[d]
    BY <1>4, <2>1, <2>2, <2>3, SumChanged
  <2>6. SumFunctionOnSet(f, 0..j) \in Int
    BY <1>4, <2>2, SumInt
  <2>7. SumFunctionOnSet(g, 0..j) = SumFunctionOnSet(f, 0..j) - q
    BY <2>4, <2>5, <2>6
  <2>. QED  BY <1>1, <1>6, <2>7 DEF Cum
<1>7. CASE ~(t = s /\ d <= j)
  <2>1. \A e \in 0..j : g[e] = f[e]
    <3>1. \A e \in 0..j : t = s => e # d
      BY <1>7, Horizons
    <3>. QED  BY <1>5, <3>1
  <2>2. SumFunctionOnSet(g, 0..j) = SumFunctionOnSet(f, 0..j)
    BY <1>4, <2>1, SumSame
  <2>. QED  BY <1>1, <1>7, <2>2 DEF Cum
<1>. QED  BY <1>6, <1>7

\* No day a location checks has less than a floor, or less than nothing.
Floored(floor) ==
    {p \in Pictures : \A s \in Locations : \A j \in Window(s) : Cum(p, s, j) >= Fewer(0, floor[s][j])}

\* Where any supply can be arranged, a number of it can be had.
LEMMA PlentyIs ==
    Plenty \in Nat
<1>1. PICK T : T = {o.qty : o \in Asked}
  OBVIOUS
<1>2. T \subseteq Nat /\ T # {}
  BY <1>1, PromisingAssumption
<1>3. IsFiniteSet(T)
  <2>1. PICK f : f = [o \in Asked |-> o.qty]
    OBVIOUS
  <2>2. IsFiniteSet({f[o] : o \in Asked}) /\ T = {f[o] : o \in Asked}
    <3>1. IsFiniteSet(Asked)
      BY PromisingAssumption
    <3>2. T = {f[o] : o \in Asked}
      BY <1>1, <2>1
    <3>. QED  BY <3>1, <3>2, ImageFinite
  <2>. QED  BY <2>2
<1>4. Max(T) \in Nat
  <2>1. T \subseteq Int
    BY <1>2
  <2>. QED  BY <1>2, <1>3, <2>1, GreatestOf
<1>5. MaxOrders \in Nat
  BY PromisingAssumption
<1>. QED  BY <1>1, <1>4, <1>5 DEF Plenty

\* What can be had on a day takes nothing from a later one.
LEMMA AvailableIs ==
    ASSUME supply \in Days, NEW p \in Pictures, NEW s \in Locations, NEW d \in Ahead
    PROVE  /\ Available(p, s, d) \in Nat
           /\ \A j \in Window(s) : d <= j => Available(p, s, d) <= AtLeast0(Cum(p, s, j))
<1>1. Lead[s] \in Nat /\ Window(s) \subseteq Ahead /\ IsFiniteSet(Window(s))
  BY Horizons, FS_Subset DEF Window
<1>2. CASE Unconditional(s, d)
  <2>1. \A j \in Window(s) : ~(d <= j)
    BY <1>1, <1>2, Horizons DEF Window, Unconditional
  <2>. QED  BY <1>2, <2>1, PlentyIs DEF Available
<1>3. CASE ~Unconditional(s, d)
  <2>1. PICK S : S = {j \in Window(s) : d <= j} /\ S \subseteq Ahead /\ IsFiniteSet(S) /\ d \in S
    <3>1. d \in Window(s) /\ d <= d
      BY <1>1, <1>3, Horizons DEF Window, Unconditional
    <3>2. IsFiniteSet({j \in Window(s) : d <= j})
      BY <1>1, FS_Subset
    <3>. QED  BY <1>1, <3>1, <3>2
  <2>2. PICK T : T = {Cum(p, s, j) : j \in S}
    OBVIOUS
  <2>3. T \subseteq Int /\ T # {}
    BY <2>1, <2>2, CumIs
  <2>4. IsFiniteSet(T)
    <3>1. PICK f : f = [j \in S |-> Cum(p, s, j)]
      OBVIOUS
    <3>2. IsFiniteSet({f[j] : j \in S}) /\ T = {f[j] : j \in S}
      BY <2>1, <2>2, <3>1, ImageFinite
    <3>. QED  BY <3>2
  <2>5. Min(T) \in Int /\ \A y \in T : Min(T) <= y
    BY <2>3, <2>4, LowestOf
  <2>6. Available(p, s, d) = AtLeast0(Min(T))
    BY <1>3, <2>1, <2>2 DEF Available
  <2>7. \A j \in Window(s) : d <= j => Cum(p, s, j) \in Int /\ Min(T) <= Cum(p, s, j)
    BY <2>1, <2>2, <2>5, CumIs
  <2>. QED  BY <2>5, <2>6, <2>7 DEF AtLeast0
<1>. QED  BY <1>2, <1>3

-----------------------------------------------------------------------------
(* The allocation's periods.                                                  *)

\* Periods are numbered from one, each with a quantity and an end.
LEMMA PeriodsAre ==
    /\ DOMAIN Periods \subseteq Nat /\ \A k \in DOMAIN Periods : k >= 1
    /\ \A k \in DOMAIN Periods : Periods[k].qty \in Nat /\ Periods[k].to \in Nat /\ 1..k \subseteq DOMAIN Periods
<1>1. Periods \in Seq([from : Nat, to : Nat, qty : Nat, carry : BOOLEAN, reject : BOOLEAN])
  BY PromisingAssumption
<1>2. DOMAIN Periods = 1..Len(Periods) /\ Len(Periods) \in Nat
  BY <1>1
<1>3. \A k \in 1..Len(Periods) : 1..k \subseteq 1..Len(Periods)
  BY <1>2
<1>4. \A k \in 1..Len(Periods) : Periods[k].qty \in Nat /\ Periods[k].to \in Nat
  <2>1. PICK T : T = [from : Nat, to : Nat, qty : Nat, carry : BOOLEAN, reject : BOOLEAN] /\ Periods \in Seq(T)
    BY <1>1
  <2>2. \A t \in Seq(T) : \A k \in 1..Len(t) : t[k] \in T
    OBVIOUS
  <2>3. \A r \in T : r.qty \in Nat /\ r.to \in Nat
    BY <2>1
  <2>. QED  BY <2>1, <2>2, <2>3
<1>. QED  BY <1>2, <1>3, <1>4

\* The first period of a day.
LEMMA OwnPeriod ==
    ASSUME NEW d, PeriodsOf(d) # {}
    PROVE  Min(PeriodsOf(d)) \in DOMAIN Periods /\ Min(PeriodsOf(d)) \in Nat
<1>1. PeriodsOf(d) \subseteq DOMAIN Periods /\ PeriodsOf(d) \subseteq Nat
  BY PeriodsAre DEF PeriodsOf
<1>2. \E x \in PeriodsOf(d) : \A y \in PeriodsOf(d) : x <= y
  BY <1>1, LeastOf
<1>. QED  BY <1>1, <1>2 DEF Min

\* A day draws on periods that there are.
LEMMA ChainIs ==
    ASSUME NEW d
    PROVE  Chain(d) \in Seq(DOMAIN Periods)
<1>1. CASE PeriodsOf(d) = {}
  BY <1>1 DEF Chain
<1>2. CASE PeriodsOf(d) # {}
  <2>1. PICK own : own = Min(PeriodsOf(d)) /\ own \in DOMAIN Periods /\ own \in Nat
    BY <1>2, OwnPeriod
  <2>2. PICK c : c = [i \in 1..own |-> own + 1 - i]
    OBVIOUS
  <2>3. c \in Seq(DOMAIN Periods)
    <3>1. \A i \in 1..own : own + 1 - i \in 1..own
      BY <2>1
    <3>2. 1..own \subseteq DOMAIN Periods
      BY <2>1, PeriodsAre
    <3>3. c \in [1..own -> DOMAIN Periods]
      BY <2>2, <3>1, <3>2
    <3>. QED  BY <2>1, <3>3
  <2>4. <<own>> \in Seq(DOMAIN Periods)
    BY <2>1
  <2>5. Chain(d) = c \/ Chain(d) = <<own>>
    BY <1>2, <2>1, <2>2 DEF Chain
  <2>. QED  BY <2>3, <2>4, <2>5
<1>. QED  BY <1>1, <1>2

\* What is left of a period is never negative.
LEMMA LeftIs ==
    ASSUME NEW used \in Counts, NEW k \in DOMAIN Periods
    PROVE  used[k] \in Int /\ LeftOf(used, k) \in Nat
<1>1. used[k] \in Int /\ Periods[k].qty \in Nat
  BY PeriodsAre DEF Counts
<1>. QED  BY <1>1 DEF LeftOf, AtLeast0

\* Nor is what an allocation lets confirm on a day.
LEMMA CapIs ==
    ASSUME NEW p \in Pictures, NEW d
    PROVE  Cap(p, d) \in Nat
<1>1. CASE Periods = <<>>
  BY <1>1, PlentyIs DEF Cap
<1>2. CASE Periods # <<>>
  <2>1. PICK c : c = Chain(d) /\ c \in Seq(DOMAIN Periods)
    BY ChainIs
  <2>2. PICK f : f = [n \in DOMAIN c |-> LeftOf(p.used, c[n])]
    OBVIOUS
  <2>3. p.used \in Counts
    BY DEF Pictures
  <2>4. IsFiniteSet(DOMAIN c) /\ \A n \in DOMAIN c : c[n] \in DOMAIN Periods
    <3>1. DOMAIN c = 1..Len(c) /\ Len(c) \in Nat
      BY <2>1
    <3>. QED  BY <2>1, <3>1, FS_Interval
  <2>5. \A n \in DOMAIN c : f[n] \in Nat
    BY <2>2, <2>3, <2>4, LeftIs
  <2>6. SumFunctionOnSet(f, DOMAIN c) \in Nat
    BY <2>4, <2>5, SumNat
  <2>. QED  BY <1>2, <2>1, <2>2, <2>6 DEF Cap
<1>. QED  BY <1>1, <1>2

\* One period's part in counting keeps the kinds.
LEMMA CountingIs ==
    ASSUME NEW acc \in [used : Counts, left : Int], NEW k \in DOMAIN Periods, NEW q \in Int
    PROVE  Counting(acc, k, q) \in [used : Counts, left : Int]
<1>1. acc.used \in Counts /\ acc.left \in Int /\ acc.used[k] \in Int /\ LeftOf(acc.used, k) \in Int
  BY LeftIs
<1>2. PICK take : take = IF q > 0 THEN Fewer(acc.left, LeftOf(acc.used, k)) ELSE -Fewer(-acc.left, acc.used[k])
  OBVIOUS
<1>3. take \in Int
  BY <1>1, <1>2 DEF Fewer
<1>4. [acc.used EXCEPT ![k] = @ + take] \in Counts /\ acc.left - take \in Int
  BY <1>1, <1>3 DEF Counts
<1>. QED  BY <1>2, <1>4 DEF Counting

\* What is counted, or given back, is counted of the periods there are.
LEMMA UsedIs ==
    ASSUME NEW used \in Counts, NEW d, NEW q \in Int
    PROVE  UsedWith(used, d, q) \in Counts
<1>1. PICK c : c = Chain(d) /\ c \in Seq(DOMAIN Periods)
  BY ChainIs
<1>2. PICK n : n = Len(c) /\ n \in Nat /\ \A k \in 1..n : c[k] \in DOMAIN Periods
  BY <1>1
<1>3. PICK Accs, base, X : /\ Accs = [used : Counts, left : Int] /\ base = [used |-> used, left |-> q]
                           /\ X = [k \in 0..n |-> Accs]
  OBVIOUS
<1>4. base \in Accs /\ base \in X[0] /\ \A k \in 0..n : X[k] = Accs
  <2>1. base \in Accs
    BY <1>3
  <2>2. 0 \in 0..n
    BY <1>2
  <2>3. \A k \in 0..n : X[k] = Accs
    BY <1>3
  <2>. QED  BY <2>1, <2>2, <2>3
<1>5. \A k \in 1..n : X[k - 1] = Accs /\ X[k] = Accs /\ \A x \in X[k - 1] : Counting(x, c[k], q) \in X[k]
  <2>1. \A k \in 1..n : k - 1 \in 0..n /\ k \in 0..n
    BY <1>2
  <2>2. \A k \in 1..n : \A x \in Accs : Counting(x, c[k], q) \in Accs
    BY <1>2, <1>3, CountingIs
  <2>. QED  BY <1>4, <2>1, <2>2
<1>. DEFINE Is(u) == u = [k \in 0..n |-> IF k = 0 THEN {base} ELSE {Counting(acc, c[k], q) : acc \in u[k - 1]}]
<1>6. \E u : Is(u)
  <2>1. PICK st : st = [k \in 1..n |-> [x \in X[k - 1] |-> Counting(x, c[k], q)]]
    OBVIOUS
  <2>2. \A k \in 1..n : \A x \in X[k - 1] : st[k][x] = Counting(x, c[k], q)
    BY <2>1
  <2>3. \A k \in 1..n : \A x \in X[k - 1] : st[k][x] \in X[k]
    BY <1>5, <2>2
  <2>4. PICK u : Reached(u, n, X, st, base)
    BY <1>2, <1>4, <2>3, TurnsExist, Zenon
  <2>5. \A k \in 0..n : k # 0 => k \in 1..n /\ u[k - 1] \subseteq X[k - 1]
    BY <1>2, <2>4 DEF Reached
  <2>6. \A k \in 1..n : u[k] = {Counting(x, c[k], q) : x \in u[k - 1]}
    <3>. SUFFICES ASSUME NEW k \in 1..n PROVE u[k] = {Counting(x, c[k], q) : x \in u[k - 1]}
      OBVIOUS
    <3>1. \A y : y \in u[k] <=> \E x \in u[k - 1] : y = st[k][x]
      BY <2>4 DEF Reached
    <3>2. \A x \in u[k - 1] : st[k][x] = Counting(x, c[k], q)
      BY <1>2, <2>2, <2>5
    <3>. QED  BY <3>1, <3>2
  <2>7. u = [k \in 0..n |-> u[k]] /\ u[0] = {base}
    BY <2>4 DEF Reached
  <2>8. \A k \in 0..n : u[k] = IF k = 0 THEN {base} ELSE {Counting(x, c[k], q) : x \in u[k - 1]}
    BY <2>5, <2>6, <2>7
  <2>9. PICK w : w = [k \in 0..n |-> IF k = 0 THEN {base} ELSE {Counting(x, c[k], q) : x \in u[k - 1]}]
    OBVIOUS
  <2>10. w = u
    <3>1. \A k \in 0..n : w[k] = u[k]
      BY <2>8, <2>9
    <3>. QED  BY <2>7, <2>9, <3>1
  <2>. QED  BY <2>9, <2>10
<1>7. PICK u : u = (CHOOSE v : Is(v)) /\ Is(u)
  BY <1>6
<1>8. u[0] = {base} /\ \A k \in 1..n : u[k] = {Counting(x, c[k], q) : x \in u[k - 1]}
  <2>1. 0 \in 0..n /\ \A k \in 1..n : k \in 0..n /\ k # 0
    BY <1>2
  <2>. QED  BY <1>7, <2>1
<1>9. \A k \in 1..n : u[k - 1] \subseteq X[k - 1] /\ u[k - 1] # {} => u[k] \subseteq X[k] /\ u[k] # {}
  BY <1>5, <1>8
<1>. HIDE DEF Is
<1>10. (CHOOSE x \in u[n] : TRUE) \in X[n]
  BY <1>2, <1>4, <1>8, <1>9, TurnsIn
<1>11. PICK end : end = (CHOOSE x \in u[n] : TRUE) /\ end \in Accs
  BY <1>2, <1>4, <1>10
<1>12. end = InTurn(LAMBDA acc, k : Counting(acc, k, q), base, c)
  BY <1>2, <1>7, <1>11 DEF InTurn, Is
<1>13. UsedWith(used, d, q) = IF q = 0 \/ c = <<>> THEN used ELSE [end.used EXCEPT ![Head(c)] = @ + end.left]
  BY <1>1, <1>3, <1>12 DEF UsedWith
<1>14. c # <<>> => [end.used EXCEPT ![Head(c)] = @ + end.left] \in Counts
  <2>1. end.used \in Counts /\ end.left \in Int
    BY <1>3, <1>11
  <2>2. c # <<>> => Head(c) \in DOMAIN Periods
    BY <1>1
  <2>3. \A h \in DOMAIN Periods : [end.used EXCEPT ![h] = @ + end.left] \in Counts
    BY <2>1 DEF Counts
  <2>. QED  BY <2>2, <2>3
<1>. QED  BY <1>13, <1>14

-----------------------------------------------------------------------------
(* One order.                                                                 *)

\* A claim takes its quantity on its day, and no day from there on goes below its floor by what can be had.
LEMMA ClaimIs ==
    ASSUME supply \in Days, NEW floor \in Days, NEW p \in Floored(floor), NEW s \in Locations, NEW d \in Ahead,
           NEW q \in Nat, q <= Available(p, s, d)
    PROVE  /\ Claim(p, s, d, q) \in Floored(floor)
           /\ Claim(p, s, d, q).out = [p.out EXCEPT ![s][d] = @ + q]
<1>1. p \in Pictures /\ p.out \in Days /\ p.used \in Counts
  BY DEF Floored, Pictures
<1>2. CASE q = 0
  <2>1. [p.out EXCEPT ![s][d] = @ + q] = p.out
    <3>1. PICK b : b = [p.out EXCEPT ![s][d] = @ + q]
      OBVIOUS
    <3>2. p.out[s][d] + q = p.out[s][d]
      BY <1>1, <1>2 DEF Days
    <3>3. p.out \in [Locations -> [Ahead -> Int]]
      BY <1>1 DEF Days
    <3>4. b = p.out
      BY <3>1, <3>2, <3>3
    <3>. QED  BY <3>1, <3>4
  <2>. QED  BY <1>2, <2>1 DEF Claim
<1>3. CASE q # 0
  <2>1. PICK r : r = Claim(p, s, d, q) /\ r = [out |-> [p.out EXCEPT ![s][d] = @ + q], used |-> UsedWith(p.used, d, q)]
    BY <1>3 DEF Claim
  <2>2. r.out = [p.out EXCEPT ![s][d] = @ + q] /\ r \in Pictures
    <3>0. q \in Int /\ p.out \in Days
      BY <1>1
    <3>1. [p.out EXCEPT ![s][d] = @ + q] \in Days
      BY <3>0, AllWith, Zenon
    <3>2. UsedWith(p.used, d, q) \in Counts
      BY <1>1, UsedIs
    <3>. QED  BY <2>1, <3>1, <3>2 DEF Pictures
  <2>3. ASSUME NEW t \in Locations, NEW j \in Window(t)
        PROVE  Cum(r, t, j) >= Fewer(0, floor[t][j])
    <3>1. j \in Ahead
      BY DEF Window
    <3>2. Cum(p, t, j) >= Fewer(0, floor[t][j])
      BY DEF Floored
    <3>3. Cum(r, t, j) = IF t = s /\ d <= j THEN Cum(p, t, j) - q ELSE Cum(p, t, j)
      BY <1>1, <2>2, <3>1, CumWith
    <3>4. CASE t = s /\ d <= j
      <4>1. Available(p, s, d) \in Nat /\ Available(p, s, d) <= AtLeast0(Cum(p, s, j))
        BY <1>1, <3>4, AvailableIs
      <4>2. Cum(p, s, j) \in Int
        BY <1>1, <3>1, CumIs
      <4>3. Cum(p, s, j) - q >= 0
        BY <1>3, <4>1, <4>2 DEF AtLeast0
      <4>4. Fewer(0, floor[t][j]) \in Int /\ Fewer(0, floor[t][j]) <= 0
        <5>1. floor[t][j] \in Int
          BY <3>1 DEF Days
        <5>. QED  BY <5>1 DEF Fewer
      <4>. QED  BY <3>3, <3>4, <4>2, <4>3, <4>4
    <3>5. CASE ~(t = s /\ d <= j)
      BY <3>2, <3>3, <3>5
    <3>. QED  BY <3>4, <3>5
  <2>. QED  BY <2>1, <2>2, <2>3 DEF Floored
<1>. QED  BY <1>2, <1>3

\* More of the second of two is more of both.
LEMMA BothWith ==
    ASSUME NEW a \in Days, NEW b \in Days, NEW s \in Locations, NEW d \in Ahead, NEW q \in Int
    PROVE  With(Both(a, b), s, d, q) = Both(a, With(b, s, d, q))
<1>1. PICK o : o = One(s, d, q) /\ o \in Days
  BY AllOne
<1>2. With(Both(a, b), s, d, q) = Both(Both(a, b), o) /\ With(b, s, d, q) = Both(b, o)
  BY <1>1, AllBoth, WithOne
<1>3. \A t \in Locations, e \in Ahead : (a[t][e] + b[t][e]) + o[t][e] = a[t][e] + (b[t][e] + o[t][e])
  BY <1>1 DEF Days
<1>4. Both(Both(a, b), o) = Both(a, Both(b, o))
  BY <1>3 DEF Both
<1>. QED  BY <1>2, <1>4

\* With no lines it is what it was.
LEMMA BothNone ==
    ASSUME NEW a \in Days
    PROVE  Both(a, NoLines) = a
<1>1. \A t \in Locations, e \in Ahead : a[t][e] + NoLines[t][e] = a[t][e]
  BY DEF Days, NoLines
<1>2. a = [t \in Locations |-> [e \in Ahead |-> a[t][e]]]
  BY DEF Days
<1>. QED  BY <1>1, <1>2 DEF Both

\* Of the picture p, what is taken of q is claimed.
Claimed(p, floor, q) ==
    {acc \in [p : Floored(floor), at : Lines, left : Int] :
        acc.p.out = Both(p.out, acc.at) /\ InAll(acc.at) + acc.left = q}

\* While an order of q is checked.
Checked(p, floor, q) == {acc \in Claimed(p, floor, q) : acc.left \in Nat}

\* Taking what can be had leaves a picture in which no day a location checks is below its floor (atp.py, available).
LEMMA TakingIs ==
    ASSUME supply \in Days, NEW floor \in Days, NEW p \in Pictures, NEW q \in Int,
           NEW acc \in Claimed(p, floor, q),
           NEW s \in Locations, NEW d \in Ahead, NEW n \in Nat, n <= CanHave(acc.p, s, d), NEW r, r = Taking(acc, s, d, n)
    PROVE  r \in Claimed(p, floor, q) /\ r.left = acc.left - n /\ r.at = With(acc.at, s, d, n)
<1>1. /\ acc.p \in Floored(floor) /\ acc.p \in Pictures /\ acc.at \in Lines /\ acc.at \in Days /\ acc.left \in Int
      /\ p.out \in Days /\ acc.p.out = Both(p.out, acc.at) /\ InAll(acc.at) + acc.left = q
  BY LinesAreDays DEF Floored, Pictures, Claimed
<1>2. n <= Available(acc.p, s, d)
  <2>1. Available(acc.p, s, d) \in Nat /\ Cap(acc.p, d) \in Nat
    BY <1>1, AvailableIs, CapIs
  <2>. QED  BY <2>1 DEF CanHave, Fewer
<1>3. PICK c : c = Claim(acc.p, s, d, n) /\ c \in Floored(floor) /\ c.out = [acc.p.out EXCEPT ![s][d] = @ + n]
  <2>1. acc.p \in Floored(floor)
    BY <1>1
  <2>2. /\ Claim(acc.p, s, d, n) \in Floored(floor)
        /\ Claim(acc.p, s, d, n).out = [acc.p.out EXCEPT ![s][d] = @ + n]
    BY <1>2, <2>1, ClaimIs
  <2>. QED  BY <2>2
<1>4. PICK at : at = [acc.at EXCEPT ![s][d] = @ + n] /\ at \in Lines /\ InAll(at) = InAll(acc.at) + n
  <2>1. [acc.at EXCEPT ![s][d] = @ + n] \in Lines /\ InAll([acc.at EXCEPT ![s][d] = @ + n]) = InAll(acc.at) + n
    BY <1>1, AllWith
  <2>. QED  BY <2>1
<1>5. r = [p |-> c, at |-> at, left |-> acc.left - n]
  BY <1>3, <1>4 DEF Taking
<1>6. c.out = Both(p.out, at)
  <2>1. With(Both(p.out, acc.at), s, d, n) = Both(p.out, With(acc.at, s, d, n))
    BY <1>1, BothWith
  <2>2. c.out = With(acc.p.out, s, d, n) /\ at = With(acc.at, s, d, n)
    BY <1>3, <1>4 DEF With
  <2>. QED  BY <1>1, <2>1, <2>2
<1>7. InAll(acc.at) \in Int
  BY <1>1, AllIs
<1>8. InAll(at) + (acc.left - n) = q
  BY <1>1, <1>4, <1>7
<1>. QED  BY <1>1, <1>3, <1>4, <1>5, <1>6, <1>8 DEF Claimed, With

\* And so does taking all or some of it for an order, never more than is left to take.
LEMMA TakesIs ==
    ASSUME supply \in Days, NEW floor \in Days, NEW p \in Pictures, NEW q \in Nat,
           NEW acc \in Checked(p, floor, q), NEW o, NEW s \in Locations, NEW d \in Ahead
    PROVE  Takes(o, acc, s, d) \in Checked(p, floor, q)
<1>1. acc \in Claimed(p, floor, q) /\ acc.left \in Nat /\ acc.p \in Pictures
  BY DEF Checked, Claimed, Floored
<1>2. PICK a : a = CanHave(acc.p, s, d) /\ a \in Nat
  <2>1. Available(acc.p, s, d) \in Nat /\ Cap(acc.p, d) \in Nat
    BY <1>1, AvailableIs, CapIs
  <2>. QED  BY <2>1 DEF CanHave, Fewer
<1>3. PICK n : n = AllOrSome(o, acc.left, a) /\ n \in Nat /\ n <= a /\ n <= acc.left
  BY <1>1, <1>2 DEF AllOrSome, Fewer
<1>4. PICK r : r = Taking(acc, s, d, n) /\ r = Takes(o, acc, s, d)
  BY <1>2, <1>3 DEF Takes
<1>5. r \in Claimed(p, floor, q) /\ r.left = acc.left - n
  <2>1. q \in Int
    OBVIOUS
  <2>2. n \in Nat /\ n <= CanHave(acc.p, s, d)
    BY <1>2, <1>3
  <2>3. r = Taking(acc, s, d, n)
    BY <1>4
  <2>. QED  BY <1>1, <2>1, <2>2, <2>3, TakingIs
<1>6. r.left \in Nat
  BY <1>1, <1>3, <1>5
<1>. QED  BY <1>4, <1>5, <1>6 DEF Checked

\* From every location on the date asked.
LEMMA OnTimeIs ==
    ASSUME supply \in Days, NEW floor \in Days, NEW p \in Floored(floor), NEW q \in Nat,
           NEW o, o.date \in Ahead
    PROVE  OnTime(p, o, q) \in Checked(p, floor, q)
<1>1. PICK c : c = LocationsInOrder /\ c = [s \in Locations |-> s]
  BY DEF LocationsInOrder
<1>2. PICK n : n = Len(c) /\ n \in Nat /\ \A k \in 1..n : c[k] \in Locations
  <2>1. c \in Seq(Locations)
    BY <1>1, Horizons
  <2>. QED  BY <2>1
<1>3. PICK base, X : /\ base = [p |-> p, at |-> NoLines, left |-> q] /\ X = [k \in 0..n |-> Checked(p, floor, q)]
  OBVIOUS
<1>4. base \in X[0]
  <2>1. p \in Pictures /\ p.out \in Days
    BY DEF Floored, Pictures
  <2>2. Both(p.out, NoLines) = p.out /\ NoLines \in Lines /\ InAll(NoLines) = 0
    BY <2>1, BothNone, AllNone
  <2>3. base \in Checked(p, floor, q)
    BY <1>3, <2>2 DEF Checked, Claimed
  <2>4. 0 \in 0..n
    BY <1>2
  <2>. QED  BY <1>3, <2>3, <2>4
<1>5. \A k \in 1..n : \A x \in X[k - 1] : (IF Unconditional(c[k], o.date) THEN x ELSE Takes(o, x, c[k], o.date)) \in X[k]
  <2>1. \A k \in 1..n : k - 1 \in 0..n /\ k \in 0..n
    BY <1>2
  <2>2. p \in Pictures
    BY DEF Floored
  <2>3. \A k \in 1..n : \A x \in Checked(p, floor, q) : Takes(o, x, c[k], o.date) \in Checked(p, floor, q)
    BY <1>2, <2>2, TakesIs
  <2>. QED  BY <1>3, <2>1, <2>3
<1>. DEFINE Is(u) == u = [k \in 0..n |-> IF k = 0 THEN {base} ELSE {(IF Unconditional(c[k], o.date) THEN acc ELSE Takes(o, acc, c[k], o.date)) : acc \in u[k - 1]}]
<1>6. \E u : Is(u)
  <2>1. PICK st : st = [k \in 1..n |-> [x \in X[k - 1] |-> (IF Unconditional(c[k], o.date) THEN x ELSE Takes(o, x, c[k], o.date))]]
    OBVIOUS
  <2>2. \A k \in 1..n : \A x \in X[k - 1] : st[k][x] = (IF Unconditional(c[k], o.date) THEN x ELSE Takes(o, x, c[k], o.date))
    BY <2>1
  <2>3. \A k \in 1..n : \A x \in X[k - 1] : st[k][x] \in X[k]
    BY <1>5, <2>2
  <2>4. PICK u : Reached(u, n, X, st, base)
    BY <1>2, <1>4, <2>3, TurnsExist, Zenon
  <2>5. \A k \in 0..n : k # 0 => k \in 1..n /\ u[k - 1] \subseteq X[k - 1]
    BY <1>2, <2>4 DEF Reached
  <2>6. \A k \in 1..n : u[k] = {(IF Unconditional(c[k], o.date) THEN x ELSE Takes(o, x, c[k], o.date)) : x \in u[k - 1]}
    <3>. SUFFICES ASSUME NEW k \in 1..n PROVE u[k] = {(IF Unconditional(c[k], o.date) THEN x ELSE Takes(o, x, c[k], o.date)) : x \in u[k - 1]}
      OBVIOUS
    <3>1. \A y : y \in u[k] <=> \E x \in u[k - 1] : y = st[k][x]
      BY <2>4 DEF Reached
    <3>2. \A x \in u[k - 1] : st[k][x] = (IF Unconditional(c[k], o.date) THEN x ELSE Takes(o, x, c[k], o.date))
      BY <1>2, <2>2, <2>5
    <3>. QED  BY <3>1, <3>2
  <2>7. u = [k \in 0..n |-> u[k]] /\ u[0] = {base}
    BY <2>4 DEF Reached
  <2>8. \A k \in 0..n : u[k] = IF k = 0 THEN {base} ELSE {(IF Unconditional(c[k], o.date) THEN x ELSE Takes(o, x, c[k], o.date)) : x \in u[k - 1]}
    BY <2>5, <2>6, <2>7
  <2>9. PICK w : w = [k \in 0..n |-> IF k = 0 THEN {base} ELSE {(IF Unconditional(c[k], o.date) THEN x ELSE Takes(o, x, c[k], o.date)) : x \in u[k - 1]}]
    OBVIOUS
  <2>10. w = u
    <3>1. \A k \in 0..n : w[k] = u[k]
      BY <2>8, <2>9
    <3>. QED  BY <2>7, <2>9, <3>1
  <2>. QED  BY <2>9, <2>10
<1>7. PICK u : u = (CHOOSE v : Is(v)) /\ Is(u)
  BY <1>6
<1>8. u[0] = {base} /\ \A k \in 1..n : u[k] = {(IF Unconditional(c[k], o.date) THEN x ELSE Takes(o, x, c[k], o.date)) : x \in u[k - 1]}
  <2>1. 0 \in 0..n /\ \A k \in 1..n : k \in 0..n /\ k # 0
    BY <1>2
  <2>. QED  BY <1>7, <2>1
<1>9. \A k \in 1..n : u[k - 1] \subseteq X[k - 1] /\ u[k - 1] # {} => u[k] \subseteq X[k] /\ u[k] # {}
  BY <1>5, <1>8
<1>. HIDE DEF Is
<1>10. (CHOOSE x \in u[n] : TRUE) \in X[n]
  BY <1>2, <1>4, <1>8, <1>9, TurnsIn
<1>11. PICK end : end = (CHOOSE x \in u[n] : TRUE) /\ end \in X[n]
  BY <1>10
<1>12. end = InTurn(LAMBDA acc, s : (IF Unconditional(s, o.date) THEN acc ELSE Takes(o, acc, s, o.date)), base, c)
  BY <1>2, <1>7, <1>11 DEF InTurn, Is
<1>13. n \in 0..n
  BY <1>2
<1>. QED  BY <1>1, <1>3, <1>11, <1>12, <1>13 DEF OnTime

\* The days after it that are looked at are days ahead.
LEMMA LaterIs ==
    ASSUME NEW o, o.date \in Ahead
    PROVE  LaterDays(o) \in Seq(Ahead)
<1>1. PICK last : last = RejectedFrom(o) /\ last \in Nat /\ last <= Horizon + 1
  <2>1. CASE \E k \in PeriodsOf(o.date) : Periods[k].reject
    <3>1. PeriodsOf(o.date) # {}
      BY <2>1
    <3>2. PICK t : t = Periods[Min(PeriodsOf(o.date))].to /\ t \in Nat
      BY <3>1, OwnPeriod, PeriodsAre
    <3>3. RejectedFrom(o) = Fewer(t, Horizon + 1)
      BY <2>1, <3>2 DEF RejectedFrom
    <3>. QED  BY <3>2, <3>3, Horizons DEF Fewer
  <2>2. CASE ~\E k \in PeriodsOf(o.date) : Periods[k].reject
    BY <2>2, Horizons DEF RejectedFrom
  <2>. QED  BY <2>1, <2>2
<1>2. PICK n : n = last - o.date /\ n \in Int
  BY <1>1, Horizons
<1>3. \A i \in 1..n : o.date + i - 1 \in Ahead
  BY <1>1, <1>2, Horizons
<1>4. PICK c : c = [i \in 1..n |-> o.date + i - 1] /\ c = LaterDays(o)
  BY <1>1, <1>2 DEF LaterDays
<1>5. c \in [1..n -> Ahead]
  BY <1>3, <1>4
<1>6. CASE n \in Nat
  BY <1>4, <1>5, <1>6
<1>7. CASE n \notin Nat
  <2>1. 1..n = 1..0
    BY <1>2, <1>7
  <2>2. c \in [1..0 -> Ahead] /\ 0 \in Nat
    BY <1>5, <2>1
  <2>3. c \in Seq(Ahead)
    BY <2>2
  <2>. QED  BY <1>4, <2>3
<1>. QED  BY <1>6, <1>7

\* A check of an order takes no more than was asked of it, and no day a location checks goes below its floor by it.
LEMMA CheckIs ==
    ASSUME supply \in Days, NEW floor \in Days, NEW p \in Floored(floor), NEW q \in Nat,
           NEW o, o.date \in Ahead
    PROVE  Check(p, o, q) \in Checked(p, floor, q)
<1>1. PICK c : c = LaterDays(o) /\ c \in Seq(Ahead)
  BY LaterIs
<1>2. PICK n : n = Len(c) /\ n \in Nat /\ \A k \in 1..n : c[k] \in Ahead
  BY <1>1
<1>3. PICK base, X : /\ base = OnTime(p, o, q) /\ X = [k \in 0..n |-> Checked(p, floor, q)]
  OBVIOUS
<1>4. base \in X[0]
  <2>1. base \in Checked(p, floor, q)
    BY <1>3, OnTimeIs
  <2>2. 0 \in 0..n
    BY <1>2
  <2>. QED  BY <1>3, <2>1, <2>2
<1>5. \A k \in 1..n : \A x \in X[k - 1] : Takes(o, x, 1, c[k]) \in X[k]
  <2>1. \A k \in 1..n : k - 1 \in 0..n /\ k \in 0..n
    BY <1>2
  <2>2. p \in Pictures /\ 1 \in Locations
    BY Horizons DEF Floored
  <2>3. \A k \in 1..n : \A x \in Checked(p, floor, q) : Takes(o, x, 1, c[k]) \in Checked(p, floor, q)
    BY <1>2, <2>2, TakesIs
  <2>. QED  BY <1>3, <2>1, <2>3
<1>. DEFINE Is(u) == u = [k \in 0..n |-> IF k = 0 THEN {base} ELSE {Takes(o, acc, 1, c[k]) : acc \in u[k - 1]}]
<1>6. \E u : Is(u)
  <2>1. PICK st : st = [k \in 1..n |-> [x \in X[k - 1] |-> Takes(o, x, 1, c[k])]]
    OBVIOUS
  <2>2. \A k \in 1..n : \A x \in X[k - 1] : st[k][x] = Takes(o, x, 1, c[k])
    BY <2>1
  <2>3. \A k \in 1..n : \A x \in X[k - 1] : st[k][x] \in X[k]
    BY <1>5, <2>2
  <2>4. PICK u : Reached(u, n, X, st, base)
    BY <1>2, <1>4, <2>3, TurnsExist, Zenon
  <2>5. \A k \in 0..n : k # 0 => k \in 1..n /\ u[k - 1] \subseteq X[k - 1]
    BY <1>2, <2>4 DEF Reached
  <2>6. \A k \in 1..n : u[k] = {Takes(o, x, 1, c[k]) : x \in u[k - 1]}
    <3>. SUFFICES ASSUME NEW k \in 1..n PROVE u[k] = {Takes(o, x, 1, c[k]) : x \in u[k - 1]}
      OBVIOUS
    <3>1. \A y : y \in u[k] <=> \E x \in u[k - 1] : y = st[k][x]
      BY <2>4 DEF Reached
    <3>2. \A x \in u[k - 1] : st[k][x] = Takes(o, x, 1, c[k])
      BY <1>2, <2>2, <2>5
    <3>. QED  BY <3>1, <3>2
  <2>7. u = [k \in 0..n |-> u[k]] /\ u[0] = {base}
    BY <2>4 DEF Reached
  <2>8. \A k \in 0..n : u[k] = IF k = 0 THEN {base} ELSE {Takes(o, x, 1, c[k]) : x \in u[k - 1]}
    BY <2>5, <2>6, <2>7
  <2>9. PICK w : w = [k \in 0..n |-> IF k = 0 THEN {base} ELSE {Takes(o, x, 1, c[k]) : x \in u[k - 1]}]
    OBVIOUS
  <2>10. w = u
    <3>1. \A k \in 0..n : w[k] = u[k]
      BY <2>8, <2>9
    <3>. QED  BY <2>7, <2>9, <3>1
  <2>. QED  BY <2>9, <2>10
<1>7. PICK u : u = (CHOOSE v : Is(v)) /\ Is(u)
  BY <1>6
<1>8. u[0] = {base} /\ \A k \in 1..n : u[k] = {Takes(o, x, 1, c[k]) : x \in u[k - 1]}
  <2>1. 0 \in 0..n /\ \A k \in 1..n : k \in 0..n /\ k # 0
    BY <1>2
  <2>. QED  BY <1>7, <2>1
<1>9. \A k \in 1..n : u[k - 1] \subseteq X[k - 1] /\ u[k - 1] # {} => u[k] \subseteq X[k] /\ u[k] # {}
  BY <1>5, <1>8
<1>. HIDE DEF Is
<1>10. (CHOOSE x \in u[n] : TRUE) \in X[n]
  BY <1>2, <1>4, <1>8, <1>9, TurnsIn
<1>11. PICK end : end = (CHOOSE x \in u[n] : TRUE) /\ end \in X[n]
  BY <1>10
<1>12. end = InTurn(LAMBDA acc, d : Takes(o, acc, 1, d), base, c)
  BY <1>2, <1>7, <1>11 DEF InTurn, Is
<1>13. n \in 0..n
  BY <1>2
<1>. QED  BY <1>1, <1>3, <1>11, <1>12, <1>13 DEF Check

\* Quantities are alike when they are on every day at every location.
LEMMA DaysAlike ==
    ASSUME NEW a \in Days, NEW b \in Days, \A s \in Locations, d \in Ahead : a[s][d] = b[s][d]
    PROVE  a = b
<1>1. \A s \in Locations : a[s] = b[s]
  <2>1. \A s \in Locations : a[s] \in [Ahead -> Int] /\ b[s] \in [Ahead -> Int]
    BY DEF Days
  <2>. QED  BY <2>1
<1>. QED  BY <1>1 DEF Days

\* What all of them have confirmed.
Total(ats) == [s \in Locations |-> [d \in Ahead |->
                 SumFunctionOnSet([i \in DOMAIN ats |-> ats[i][s][d]], DOMAIN ats)]]

\* What all have is, on a day at a location, the sum of what each has.
LEMMA TotalIs ==
    ASSUME NEW I, IsFiniteSet(I), NEW ats \in [I -> Days]
    PROVE  /\ Total(ats) \in Days /\ (ats \in [I -> Lines] => Total(ats) \in Lines)
           /\ \A s \in Locations, d \in Ahead : Total(ats)[s][d] = SumFunctionOnSet([i \in I |-> ats[i][s][d]], I)
<1>1. DOMAIN ats = I
  OBVIOUS
<1>2. \A s \in Locations, d \in Ahead : Total(ats)[s][d] = SumFunctionOnSet([i \in I |-> ats[i][s][d]], I)
  BY <1>1 DEF Total
<1>3. ASSUME NEW s \in Locations, NEW d \in Ahead
      PROVE  /\ SumFunctionOnSet([i \in I |-> ats[i][s][d]], I) \in Int
             /\ ats \in [I -> Lines] => SumFunctionOnSet([i \in I |-> ats[i][s][d]], I) \in Nat
  <2>1. PICK f : f = [i \in I |-> ats[i][s][d]]
    OBVIOUS
  <2>2. \A i \in I : f[i] \in Int /\ (ats \in [I -> Lines] => f[i] \in Nat)
    <3>1. \A i \in I : ats[i] \in Days /\ (ats \in [I -> Lines] => ats[i] \in Lines)
      OBVIOUS
    <3>. QED  BY <2>1, <3>1 DEF Days, Lines
  <2>. QED  BY <2>1, <2>2, SumInt, SumNat
<1>4. Total(ats) \in Days /\ (ats \in [I -> Lines] => Total(ats) \in Lines)
  BY <1>1, <1>3 DEF Total, Days, Lines
<1>. QED  BY <1>2, <1>4

\* When one has another quantity, all have as much more or less.
LEMMA TotalChanged ==
    ASSUME NEW I, IsFiniteSet(I), NEW ats \in [I -> Days], NEW bts \in [I -> Days], NEW i \in I,
           \A j \in I \ {i} : bts[j] = ats[j], NEW s \in Locations, NEW d \in Ahead
    PROVE  Total(bts)[s][d] = Total(ats)[s][d] - ats[i][s][d] + bts[i][s][d]
<1>1. PICK f, g : f = [j \in I |-> ats[j][s][d]] /\ g = [j \in I |-> bts[j][s][d]]
  OBVIOUS
<1>2. \A j \in I : f[j] \in Int /\ g[j] \in Int
  <2>1. \A j \in I : ats[j] \in Days /\ bts[j] \in Days
    OBVIOUS
  <2>. QED  BY <1>1, <2>1 DEF Days
<1>3. \A j \in I \ {i} : f[j] = g[j]
  BY <1>1
<1>4. SumFunctionOnSet(g, I) = SumFunctionOnSet(f, I) - f[i] + g[i]
  BY <1>2, <1>3, SumChanged
<1>5. Total(ats)[s][d] = SumFunctionOnSet(f, I) /\ Total(bts)[s][d] = SumFunctionOnSet(g, I)
  BY <1>1, TotalIs
<1>6. f[i] = ats[i][s][d] /\ g[i] = bts[i][s][d]
  BY <1>1
<1>. QED  BY <1>4, <1>5, <1>6

\* When nobody has more, all have no more.
LEMMA TotalLeq ==
    ASSUME NEW I, IsFiniteSet(I), NEW ats \in [I -> Days], NEW bts \in [I -> Days],
           NEW s \in Locations, NEW d \in Ahead, \A j \in I : ats[j][s][d] <= bts[j][s][d]
    PROVE  Total(ats)[s][d] <= Total(bts)[s][d]
<1>1. PICK f, g : f = [j \in I |-> ats[j][s][d]] /\ g = [j \in I |-> bts[j][s][d]]
  OBVIOUS
<1>2. \A j \in I : f[j] \in Int /\ g[j] \in Int /\ f[j] <= g[j]
  <2>1. \A j \in I : ats[j] \in Days /\ bts[j] \in Days
    OBVIOUS
  <2>. QED  BY <1>1, <2>1 DEF Days
<1>3. SumFunctionOnSet(f, I) <= SumFunctionOnSet(g, I)
  BY <1>2, SumLeq
<1>5. Total(ats)[s][d] = SumFunctionOnSet(f, I) /\ Total(bts)[s][d] = SumFunctionOnSet(g, I)
  BY <1>1, TotalIs
<1>. QED  BY <1>3, <1>5

\* What is registered is promised, covered or not.
LEMMA RegisteringIs ==
    ASSUME NEW p \in Pictures, NEW at \in Days
    PROVE  Registering(p, at) \in Pictures /\ Registering(p, at).out = Both(p.out, at)
<1>1. PICK c : c = DaysInOrder /\ c = [k \in 1..(Horizon + 1) |-> k - 1]
  BY DEF DaysInOrder
<1>2. PICK n : n = Len(c) /\ n \in Nat /\ \A k \in 1..n : c[k] \in Ahead
  <2>1. Horizon + 1 \in Nat /\ \A k \in 1..(Horizon + 1) : k - 1 \in Ahead
    BY Horizons
  <2>2. c \in [1..(Horizon + 1) -> Ahead]
    BY <1>1, <2>1
  <2>3. c \in Seq(Ahead)
    BY <2>1, <2>2
  <2>. QED  BY <2>3
<1>3. PICK base, X : base = p.used /\ X = [k \in 0..n |-> Counts]
  OBVIOUS
<1>4. base \in X[0]
  <2>1. 0 \in 0..n /\ base \in Counts
    BY <1>2, <1>3 DEF Pictures
  <2>. QED  BY <1>3, <2>1
<1>5. \A k \in 1..n : \A x \in X[k - 1] : UsedWith(x, c[k], OnDay(at, c[k])) \in X[k]
  <2>1. \A k \in 1..n : k - 1 \in 0..n /\ k \in 0..n
    BY <1>2
  <2>2. \A k \in 1..n : OnDay(at, c[k]) \in Int
    BY <1>2, DayIs
  <2>3. \A k \in 1..n : \A x \in Counts : UsedWith(x, c[k], OnDay(at, c[k])) \in Counts
    BY <2>2, UsedIs
  <2>. QED  BY <1>3, <2>1, <2>3
<1>. DEFINE Is(u) == u = [k \in 0..n |-> IF k = 0 THEN {base} ELSE {UsedWith(used, c[k], OnDay(at, c[k])) : used \in u[k - 1]}]
<1>6. \E u : Is(u)
  <2>1. PICK st : st = [k \in 1..n |-> [x \in X[k - 1] |-> UsedWith(x, c[k], OnDay(at, c[k]))]]
    OBVIOUS
  <2>2. \A k \in 1..n : \A x \in X[k - 1] : st[k][x] = UsedWith(x, c[k], OnDay(at, c[k]))
    BY <2>1
  <2>3. \A k \in 1..n : \A x \in X[k - 1] : st[k][x] \in X[k]
    BY <1>5, <2>2
  <2>4. PICK u : Reached(u, n, X, st, base)
    BY <1>2, <1>4, <2>3, TurnsExist, Zenon
  <2>5. \A k \in 0..n : k # 0 => k \in 1..n /\ u[k - 1] \subseteq X[k - 1]
    BY <1>2, <2>4 DEF Reached
  <2>6. \A k \in 1..n : u[k] = {UsedWith(x, c[k], OnDay(at, c[k])) : x \in u[k - 1]}
    <3>. SUFFICES ASSUME NEW k \in 1..n PROVE u[k] = {UsedWith(x, c[k], OnDay(at, c[k])) : x \in u[k - 1]}
      OBVIOUS
    <3>1. \A y : y \in u[k] <=> \E x \in u[k - 1] : y = st[k][x]
      BY <2>4 DEF Reached
    <3>2. \A x \in u[k - 1] : st[k][x] = UsedWith(x, c[k], OnDay(at, c[k]))
      BY <1>2, <2>2, <2>5
    <3>. QED  BY <3>1, <3>2
  <2>7. u = [k \in 0..n |-> u[k]] /\ u[0] = {base}
    BY <2>4 DEF Reached
  <2>8. \A k \in 0..n : u[k] = IF k = 0 THEN {base} ELSE {UsedWith(x, c[k], OnDay(at, c[k])) : x \in u[k - 1]}
    BY <2>5, <2>6, <2>7
  <2>9. PICK w : w = [k \in 0..n |-> IF k = 0 THEN {base} ELSE {UsedWith(x, c[k], OnDay(at, c[k])) : x \in u[k - 1]}]
    OBVIOUS
  <2>10. w = u
    <3>1. \A k \in 0..n : w[k] = u[k]
      BY <2>8, <2>9
    <3>. QED  BY <2>7, <2>9, <3>1
  <2>. QED  BY <2>9, <2>10
<1>7. PICK u : u = (CHOOSE v : Is(v)) /\ Is(u)
  BY <1>6
<1>8. u[0] = {base} /\ \A k \in 1..n : u[k] = {UsedWith(x, c[k], OnDay(at, c[k])) : x \in u[k - 1]}
  <2>1. 0 \in 0..n /\ \A k \in 1..n : k \in 0..n /\ k # 0
    BY <1>2
  <2>. QED  BY <1>7, <2>1
<1>9. \A k \in 1..n : u[k - 1] \subseteq X[k - 1] /\ u[k - 1] # {} => u[k] \subseteq X[k] /\ u[k] # {}
  <2>. SUFFICES ASSUME NEW k \in 1..n, u[k - 1] \subseteq X[k - 1], u[k - 1] # {} PROVE u[k] \subseteq X[k] /\ u[k] # {}
    OBVIOUS
  <2>1. \A x \in u[k - 1] : UsedWith(x, c[k], OnDay(at, c[k])) \in X[k]
    BY <1>5
  <2>2. u[k] = {UsedWith(x, c[k], OnDay(at, c[k])) : x \in u[k - 1]}
    BY <1>8
  <2>. QED  BY <2>1, <2>2
<1>. HIDE DEF Is
<1>10. (CHOOSE x \in u[n] : TRUE) \in X[n]
  BY <1>2, <1>4, <1>8, <1>9, TurnsIn
<1>11. PICK end : end = (CHOOSE x \in u[n] : TRUE) /\ end \in X[n]
  BY <1>10
<1>12. end = InTurn(LAMBDA used, d : UsedWith(used, d, OnDay(at, d)), base, c)
  BY <1>2, <1>7, <1>11 DEF InTurn, Is
<1>13. end \in Counts
  <2>1. n \in 0..n
    BY <1>2
  <2>. QED  BY <1>3, <1>11, <2>1
<1>14. PICK b : b = Both(p.out, at) /\ b \in Days
  <2>1. p.out \in Days
    BY DEF Pictures
  <2>. QED  BY <2>1, AllBoth
<1>15. Registering(p, at) = [out |-> b, used |-> end]
  BY <1>1, <1>3, <1>12, <1>14 DEF Registering
<1>. QED  BY <1>13, <1>14, <1>15 DEF Pictures

\* What has been registered of some of them with the first k looked at.
RegisteredTo(os, which, k) == [i \in DOMAIN os |-> IF i <= k /\ i \in which THEN os[i].at ELSE NoLines]

\* Once some orders are registered, what they have confirmed in all is promised.
LEMMA RegisteringOfIs ==
    ASSUME NEW n \in Nat, NEW os, DOMAIN os = 1..n, NEW which, \A i \in 1..n : os[i].at \in Days
    PROVE  /\ RegisteringOf(os, which) \in Pictures
           /\ RegisteringOf(os, which).out = Total(RegisteredTo(os, which, n))
<1>1. PICK c : c = InOrder(os) /\ c = [i \in 1..n |-> i]
  BY DEF InOrder
<1>2. n = Len(c) /\ \A k \in 1..n : c[k] = k
  <2>1. c \in Seq(1..n)
    BY <1>1
  <2>. QED  BY <1>1, <2>1
<1>3. PICK base, X : /\ base = NothingPromised
                     /\ X = [k \in 0..n |-> {acc \in Pictures : acc.out = Total(RegisteredTo(os, which, k))}]
  OBVIOUS
<1>a. NoLines \in Days /\ IsFiniteSet(1..n)
  BY AllNone, LinesAreDays, FS_Interval
<1>b. \A k \in 0..n : /\ RegisteredTo(os, which, k) \in [1..n -> Days]
                      /\ \A i \in 1..n : RegisteredTo(os, which, k)[i] = IF i <= k /\ i \in which THEN os[i].at ELSE NoLines
  BY <1>a DEF RegisteredTo
<1>4. base \in X[0]
  <2>0. 0 \in 0..n
    OBVIOUS
  <2>1. NoLines \in Days /\ [k \in DOMAIN Periods |-> 0] \in Counts
    BY <1>a DEF Counts
  <2>2. base \in Pictures /\ base.out = NoLines
    BY <1>3, <2>1 DEF NothingPromised, Pictures
  <2>3. PICK t : t = RegisteredTo(os, which, 0) /\ t \in [1..n -> Days] /\ \A i \in 1..n : t[i] = NoLines
    BY <1>b, <2>0
  <2>4. ASSUME NEW s \in Locations, NEW d \in Ahead PROVE Total(t)[s][d] = NoLines[s][d]
    <3>1. PICK f : f = [i \in 1..n |-> t[i][s][d]]
      OBVIOUS
    <3>2. \A i \in 1..n : f[i] = 0
      BY <2>3, <3>1 DEF NoLines
    <3>3. SumFunctionOnSet(f, 1..n) = 0
      BY <1>a, <3>2, SumZero
    <3>. QED  BY <1>a, <2>3, <3>1, <3>3, TotalIs DEF NoLines
  <2>5. Total(t) = NoLines
    <3>1. Total(t) \in Days
      BY <1>a, <2>3, TotalIs
    <3>. QED  BY <2>1, <2>4, <3>1, DaysAlike
  <2>. QED  BY <1>3, <2>0, <2>2, <2>3, <2>5
<1>5. \A k \in 1..n : \A x \in X[k - 1] : (IF c[k] \in which THEN Registering(x, os[c[k]].at) ELSE x) \in X[k]
  <2>. SUFFICES ASSUME NEW k \in 1..n, NEW x \in X[k - 1]
                PROVE  (IF k \in which THEN Registering(x, os[k].at) ELSE x) \in X[k]
    BY <1>2
  <2>0. k - 1 \in 0..n /\ k \in 0..n /\ \A i \in 1..n : i # k => (i <= k - 1 <=> i <= k)
    OBVIOUS
  <2>1. PICK t, t1 : /\ t = RegisteredTo(os, which, k - 1) /\ t1 = RegisteredTo(os, which, k)
                     /\ t \in [1..n -> Days] /\ t1 \in [1..n -> Days] /\ t[k] = NoLines
                     /\ t1[k] = (IF k \in which THEN os[k].at ELSE NoLines)
                     /\ \A i \in (1..n) \ {k} : t1[i] = t[i]
    BY <1>b, <2>0
  <2>2. x \in Pictures /\ x.out = Total(t)
    BY <1>3, <2>0, <2>1
  <2>3. Total(t1) \in Days /\ Total(t) \in Days
    BY <1>a, <2>1, TotalIs
  <2>4. ASSUME NEW s \in Locations, NEW d \in Ahead
        PROVE  Total(t1)[s][d] = Total(t)[s][d] - 0 + t1[k][s][d] /\ Total(t)[s][d] \in Int
    <3>1. Total(t1)[s][d] = Total(t)[s][d] - t[k][s][d] + t1[k][s][d]
      BY <1>a, <2>1, TotalChanged
    <3>2. t[k][s][d] = 0
      BY <2>1 DEF NoLines
    <3>3. Total(t)[s][d] \in Int
      BY <2>3 DEF Days
    <3>. QED  BY <3>1, <3>2, <3>3
  <2>5. CASE k \in which
    <3>1. PICK a : a = os[k].at /\ a \in Days /\ t1[k] = a
      BY <2>1, <2>5
    <3>2. PICK r : r = Registering(x, a) /\ r \in Pictures /\ r.out = Both(Total(t), a)
      BY <2>2, <3>1, RegisteringIs
    <3>3. \A s \in Locations, d \in Ahead : Both(Total(t), a)[s][d] = Total(t1)[s][d]
      <4>1. \A s \in Locations, d \in Ahead : a[s][d] \in Int
        BY <3>1 DEF Days
      <4>2. \A s \in Locations, d \in Ahead : Both(Total(t), a)[s][d] = Total(t)[s][d] + a[s][d]
        BY <2>3, <3>1, AllBoth
      <4>. QED  BY <2>4, <3>1, <4>1, <4>2
    <3>4. Both(Total(t), a) = Total(t1)
      <4>1. Both(Total(t), a) \in Days
        BY <2>3, <3>1, AllBoth
      <4>. QED  BY <2>3, <3>3, <4>1, DaysAlike
    <3>5. r \in X[k]
      BY <1>3, <2>0, <2>1, <3>2, <3>4
    <3>. QED  BY <2>5, <3>1, <3>2, <3>5
  <2>6. CASE k \notin which
    <3>1. \A s \in Locations, d \in Ahead : Total(t1)[s][d] = Total(t)[s][d]
      BY <2>1, <2>4, <2>6 DEF NoLines
    <3>2. Total(t1) = Total(t)
      BY <2>3, <3>1, DaysAlike
    <3>. QED  BY <1>3, <2>0, <2>1, <2>2, <2>6, <3>2
  <2>. QED  BY <2>5, <2>6
<1>. DEFINE Is(u) == u = [k \in 0..n |-> IF k = 0 THEN {base} ELSE {(IF c[k] \in which THEN Registering(acc, os[c[k]].at) ELSE acc) : acc \in u[k - 1]}]
<1>6. \E u : Is(u)
  <2>1. PICK st : st = [k \in 1..n |-> [x \in X[k - 1] |-> (IF c[k] \in which THEN Registering(x, os[c[k]].at) ELSE x)]]
    OBVIOUS
  <2>2. \A k \in 1..n : \A x \in X[k - 1] : st[k][x] = (IF c[k] \in which THEN Registering(x, os[c[k]].at) ELSE x)
    BY <2>1
  <2>3. \A k \in 1..n : \A x \in X[k - 1] : st[k][x] \in X[k]
    BY <1>5, <2>2
  <2>4. PICK u : Reached(u, n, X, st, base)
    BY <1>4, <2>3, TurnsExist, Zenon
  <2>5. \A k \in 0..n : k # 0 => k \in 1..n /\ u[k - 1] \subseteq X[k - 1]
    BY <1>2, <2>4 DEF Reached
  <2>6. \A k \in 1..n : u[k] = {(IF c[k] \in which THEN Registering(x, os[c[k]].at) ELSE x) : x \in u[k - 1]}
    <3>. SUFFICES ASSUME NEW k \in 1..n PROVE u[k] = {(IF c[k] \in which THEN Registering(x, os[c[k]].at) ELSE x) : x \in u[k - 1]}
      OBVIOUS
    <3>1. \A y : y \in u[k] <=> \E x \in u[k - 1] : y = st[k][x]
      BY <2>4 DEF Reached
    <3>2. \A x \in u[k - 1] : st[k][x] = (IF c[k] \in which THEN Registering(x, os[c[k]].at) ELSE x)
      BY <1>2, <2>2, <2>5
    <3>. QED  BY <3>1, <3>2
  <2>7. u = [k \in 0..n |-> u[k]] /\ u[0] = {base}
    BY <2>4 DEF Reached
  <2>8. \A k \in 0..n : u[k] = IF k = 0 THEN {base} ELSE {(IF c[k] \in which THEN Registering(x, os[c[k]].at) ELSE x) : x \in u[k - 1]}
    BY <2>5, <2>6, <2>7
  <2>9. PICK w : w = [k \in 0..n |-> IF k = 0 THEN {base} ELSE {(IF c[k] \in which THEN Registering(x, os[c[k]].at) ELSE x) : x \in u[k - 1]}]
    OBVIOUS
  <2>10. w = u
    <3>1. \A k \in 0..n : w[k] = u[k]
      BY <2>8, <2>9
    <3>. QED  BY <2>7, <2>9, <3>1
  <2>. QED  BY <2>9, <2>10
<1>7. PICK u : u = (CHOOSE v : Is(v)) /\ Is(u)
  BY <1>6
<1>8. u[0] = {base} /\ \A k \in 1..n : u[k] = {(IF c[k] \in which THEN Registering(x, os[c[k]].at) ELSE x) : x \in u[k - 1]}
  <2>1. 0 \in 0..n /\ \A k \in 1..n : k \in 0..n /\ k # 0
    BY <1>2
  <2>. QED  BY <1>7, <2>1
<1>9. \A k \in 1..n : u[k - 1] \subseteq X[k - 1] /\ u[k - 1] # {} => u[k] \subseteq X[k] /\ u[k] # {}
  <2>. SUFFICES ASSUME NEW k \in 1..n, u[k - 1] \subseteq X[k - 1], u[k - 1] # {} PROVE u[k] \subseteq X[k] /\ u[k] # {}
    OBVIOUS
  <2>1. \A x \in u[k - 1] : (IF c[k] \in which THEN Registering(x, os[c[k]].at) ELSE x) \in X[k]
    BY <1>5
  <2>2. u[k] = {(IF c[k] \in which THEN Registering(x, os[c[k]].at) ELSE x) : x \in u[k - 1]}
    BY <1>8
  <2>. QED  BY <2>1, <2>2
<1>. HIDE DEF Is
<1>10. (CHOOSE x \in u[n] : TRUE) \in X[n]
  BY <1>2, <1>4, <1>8, <1>9, TurnsIn
<1>11. PICK end : end = (CHOOSE x \in u[n] : TRUE) /\ end \in X[n]
  BY <1>10
<1>12. end = InTurn(LAMBDA acc, i : (IF i \in which THEN Registering(acc, os[i].at) ELSE acc), base, c)
  BY <1>2, <1>7, <1>11 DEF InTurn, Is
<1>13. n \in 0..n
  OBVIOUS
<1>14. end \in Pictures /\ end.out = Total(RegisteredTo(os, which, n))
  BY <1>3, <1>11, <1>13
<1>. QED  BY <1>1, <1>3, <1>12, <1>14 DEF RegisteringOf

\* Locations are run through from the first to the last.
LEMMA LocationsRun ==
    /\ LocationsInOrder = [s \in 1..Len(Lead) |-> s] /\ Len(LocationsInOrder) = Len(Lead)
    /\ \A s \in Locations : LocationsInOrder[s] = s
<1>1. LocationsInOrder = [s \in 1..Len(Lead) |-> s] /\ Len(Lead) \in Nat /\ Locations = 1..Len(Lead)
  BY Horizons DEF LocationsInOrder
<1>2. PICK c : c = [s \in 1..Len(Lead) |-> s]
  OBVIOUS
<1>3. c \in Seq(1..Len(Lead)) /\ \A s \in 1..Len(Lead) : c[s] = s
  BY <1>1, <1>2
<1>4. Len(c) = Len(Lead)
  BY <1>1, <1>2, <1>3
<1>. QED  BY <1>1, <1>2, <1>3, <1>4

\* And the days ahead from the first to the last.
LEMMA DaysRun ==
    /\ DaysInOrder = [k \in 1..(Horizon + 1) |-> k - 1] /\ Len(DaysInOrder) = Horizon + 1
    /\ Horizon + 1 \in Nat /\ \A k \in 1..(Horizon + 1) : DaysInOrder[k] = k - 1 /\ k - 1 \in Ahead
<1>1. Horizon + 1 \in Nat /\ \A k \in 1..(Horizon + 1) : k - 1 \in Ahead
  BY Horizons
<1>2. PICK c : c = DaysInOrder /\ c = [k \in 1..(Horizon + 1) |-> k - 1]
  BY DEF DaysInOrder
<1>3. c \in [1..(Horizon + 1) -> Ahead] /\ \A k \in 1..(Horizon + 1) : c[k] = k - 1
  BY <1>1, <1>2
<1>4. c \in Seq(Ahead)
  BY <1>1, <1>3
<1>5. Len(c) = Horizon + 1
  BY <1>1, <1>3, <1>4
<1>. QED  BY <1>1, <1>2, <1>3, <1>5

\* Of what was confirmed, all before a day and at the first k locations on the day is taken back as far as can be.
RetakenTo(p, floor, at, d, k) ==
    {acc \in Claimed(p, floor, 0) : \A s \in Locations, e \in Ahead :
        /\ acc.at[s][e] <= at[s][e]
        /\ e > d \/ (e = d /\ s > k) => acc.at[s][e] = 0}

\* At one location on one day no more is taken back than was confirmed there.
LEMMA RetakingIs ==
    ASSUME supply \in Days, NEW floor \in Days, NEW p \in Pictures, NEW at \in Lines, NEW d \in Ahead, NEW s \in Locations,
           NEW acc \in RetakenTo(p, floor, at, d, s - 1)
    PROVE  Retaking(acc, at, s, d) \in RetakenTo(p, floor, at, d, s)
<1>1. acc \in Claimed(p, floor, 0) /\ acc.p \in Pictures /\ acc.at \in Lines
  BY DEF RetakenTo, Claimed, Floored
<1>2. PICK n : n = Fewer(at[s][d], CanHave(acc.p, s, d)) /\ n \in Nat /\ n <= CanHave(acc.p, s, d) /\ n <= at[s][d]
  <2>1. Available(acc.p, s, d) \in Nat /\ Cap(acc.p, d) \in Nat
    BY <1>1, AvailableIs, CapIs
  <2>2. at[s][d] \in Nat
    BY DEF Lines
  <2>. QED  BY <2>1, <2>2 DEF CanHave, Fewer
<1>3. PICK r : r = Taking(acc, s, d, n) /\ r = Retaking(acc, at, s, d)
  BY <1>2 DEF Retaking
<1>4. r \in Claimed(p, floor, 0) /\ r.at = With(acc.at, s, d, n)
  <2>1. 0 \in Int
    OBVIOUS
  <2>2. n \in Nat /\ n <= CanHave(acc.p, s, d) /\ r = Taking(acc, s, d, n)
    BY <1>2, <1>3
  <2>. QED  BY <1>1, <2>1, <2>2, TakingIs
<1>5. \A t \in Locations, e \in Ahead : r.at[t][e] = IF t = s /\ e = d THEN acc.at[t][e] + n ELSE acc.at[t][e]
  <2>1. PICK b : b = With(acc.at, s, d, n)
    OBVIOUS
  <2>2. \A t \in Locations, e \in Ahead : b[t][e] = IF t = s /\ e = d THEN acc.at[t][e] + n ELSE acc.at[t][e]
    BY <1>1, <2>1 DEF With, Lines
  <2>. QED  BY <1>4, <2>1, <2>2
<1>6. s \in Nat /\ d \in Nat /\ \A t \in Locations, e \in Ahead : t \in Nat /\ e \in Nat
  BY Horizons
<1>7. acc.at[s][d] = 0
  <2>1. s > s - 1 /\ d = d
    BY <1>6
  <2>. QED  BY <2>1 DEF RetakenTo
<1>8. ASSUME NEW t \in Locations, NEW e \in Ahead
      PROVE  r.at[t][e] <= at[t][e] /\ (e > d \/ (e = d /\ t > s) => r.at[t][e] = 0)
  <2>1. CASE t = s /\ e = d
    <3>1. r.at[t][e] = 0 + n
      BY <1>5, <1>7, <2>1
    <3>2. ~(e > d) /\ ~(t > s)
      BY <1>6, <2>1
    <3>. QED  BY <1>2, <2>1, <3>1, <3>2
  <2>2. CASE ~(t = s /\ e = d)
    <3>1. r.at[t][e] = acc.at[t][e]
      BY <1>5, <2>2
    <3>2. e > d \/ (e = d /\ t > s) => e > d \/ (e = d /\ t > s - 1)
      BY <1>6
    <3>3. acc.at[t][e] <= at[t][e] /\ (e > d \/ (e = d /\ t > s - 1) => acc.at[t][e] = 0)
      BY DEF RetakenTo
    <3>. QED  BY <3>1, <3>2, <3>3
  <2>. QED  BY <2>1, <2>2
<1>. QED  BY <1>3, <1>4, <1>8 DEF RetakenTo

\* Nor on one day at all of them.
LEMMA RetakingOnIs ==
    ASSUME supply \in Days, NEW floor \in Days, NEW p \in Pictures, NEW at \in Lines, NEW d \in Ahead,
           NEW base \in RetakenTo(p, floor, at, d, 0)
    PROVE  RetakingOn(base, at, d) \in RetakenTo(p, floor, at, d + 1, 0)
<1>1. PICK c : c = LocationsInOrder
  OBVIOUS
<1>2. PICK n : n = Len(c) /\ n = Len(Lead) /\ n \in Nat /\ \A k \in 1..n : c[k] = k /\ k \in Locations
  BY <1>1, LocationsRun, Horizons
<1>3. PICK X : X = [k \in 0..n |-> RetakenTo(p, floor, at, d, k)]
  OBVIOUS
<1>4. base \in X[0]
  BY <1>2, <1>3
<1>5. \A k \in 1..n : \A x \in X[k - 1] : Retaking(x, at, c[k], d) \in X[k]
  <2>. SUFFICES ASSUME NEW k \in 1..n, NEW x \in X[k - 1] PROVE Retaking(x, at, k, d) \in X[k]
    BY <1>2
  <2>1. k - 1 \in 0..n /\ k \in 0..n /\ k \in Locations
    BY <1>2
  <2>2. x \in RetakenTo(p, floor, at, d, k - 1)
    BY <1>3, <2>1
  <2>3. Retaking(x, at, k, d) \in RetakenTo(p, floor, at, d, k)
    BY <2>1, <2>2, RetakingIs
  <2>. QED  BY <1>3, <2>1, <2>3
<1>. DEFINE Is(u) == u = [k \in 0..n |-> IF k = 0 THEN {base} ELSE {Retaking(on, at, c[k], d) : on \in u[k - 1]}]
<1>6. \E u : Is(u)
  <2>1. PICK st : st = [k \in 1..n |-> [x \in X[k - 1] |-> Retaking(x, at, c[k], d)]]
    OBVIOUS
  <2>2. \A k \in 1..n : \A x \in X[k - 1] : st[k][x] = Retaking(x, at, c[k], d)
    BY <2>1
  <2>3. \A k \in 1..n : \A x \in X[k - 1] : st[k][x] \in X[k]
    BY <1>5, <2>2
  <2>4. PICK u : Reached(u, n, X, st, base)
    BY <1>2, <1>4, <2>3, TurnsExist, Zenon
  <2>5. \A k \in 0..n : k # 0 => k \in 1..n /\ u[k - 1] \subseteq X[k - 1]
    BY <1>2, <2>4 DEF Reached
  <2>6. \A k \in 1..n : u[k] = {Retaking(x, at, c[k], d) : x \in u[k - 1]}
    <3>. SUFFICES ASSUME NEW k \in 1..n PROVE u[k] = {Retaking(x, at, c[k], d) : x \in u[k - 1]}
      OBVIOUS
    <3>1. \A y : y \in u[k] <=> \E x \in u[k - 1] : y = st[k][x]
      BY <2>4 DEF Reached
    <3>2. \A x \in u[k - 1] : st[k][x] = Retaking(x, at, c[k], d)
      BY <1>2, <2>2, <2>5
    <3>. QED  BY <3>1, <3>2
  <2>7. u = [k \in 0..n |-> u[k]] /\ u[0] = {base}
    BY <2>4 DEF Reached
  <2>8. \A k \in 0..n : u[k] = IF k = 0 THEN {base} ELSE {Retaking(x, at, c[k], d) : x \in u[k - 1]}
    BY <2>5, <2>6, <2>7
  <2>9. PICK w : w = [k \in 0..n |-> IF k = 0 THEN {base} ELSE {Retaking(x, at, c[k], d) : x \in u[k - 1]}]
    OBVIOUS
  <2>10. w = u
    <3>1. \A k \in 0..n : w[k] = u[k]
      BY <2>8, <2>9
    <3>. QED  BY <2>7, <2>9, <3>1
  <2>. QED  BY <2>9, <2>10
<1>7. PICK u : u = (CHOOSE v : Is(v)) /\ Is(u)
  BY <1>6
<1>8. u[0] = {base} /\ \A k \in 1..n : u[k] = {Retaking(x, at, c[k], d) : x \in u[k - 1]}
  <2>1. 0 \in 0..n /\ \A k \in 1..n : k \in 0..n /\ k # 0
    BY <1>2
  <2>. QED  BY <1>7, <2>1
<1>9. \A k \in 1..n : u[k - 1] \subseteq X[k - 1] /\ u[k - 1] # {} => u[k] \subseteq X[k] /\ u[k] # {}
  <2>. SUFFICES ASSUME NEW k \in 1..n, u[k - 1] \subseteq X[k - 1], u[k - 1] # {} PROVE u[k] \subseteq X[k] /\ u[k] # {}
    OBVIOUS
  <2>1. \A x \in u[k - 1] : Retaking(x, at, c[k], d) \in X[k]
    BY <1>5
  <2>2. u[k] = {Retaking(x, at, c[k], d) : x \in u[k - 1]}
    BY <1>8
  <2>. QED  BY <2>1, <2>2
<1>. HIDE DEF Is
<1>10. (CHOOSE x \in u[n] : TRUE) \in X[n]
  BY <1>2, <1>4, <1>8, <1>9, TurnsIn
<1>11. PICK end : end = (CHOOSE x \in u[n] : TRUE) /\ end \in X[n]
  BY <1>10
<1>12. end = InTurn(LAMBDA on, s : Retaking(on, at, s, d), base, c)
  <2>1. n = Len(c) /\ u = CHOOSE v : Is(v)
    BY <1>2, <1>7
  <2>. QED  BY <1>11, <2>1 DEF InTurn, Is
<1>13. end \in RetakenTo(p, floor, at, d, n)
  <2>1. n \in 0..n
    BY <1>2
  <2>. QED  BY <1>3, <1>11, <2>1
<1>14. ASSUME NEW s \in Locations, NEW e \in Ahead, e > d + 1 \/ (e = d + 1 /\ s > 0)
       PROVE  end.at[s][e] = 0
  <2>1. e > d
    BY <1>14, Horizons
  <2>. QED  BY <1>13, <2>1 DEF RetakenTo
<1>15. end \in RetakenTo(p, floor, at, d + 1, 0)
  BY <1>13, <1>14 DEF RetakenTo
<1>. QED  BY <1>1, <1>12, <1>15 DEF RetakingOn

\* What is taken back is of what there was, and claimed.
LEMMA ReclaimingIs ==
    ASSUME supply \in Days, NEW floor \in Days, NEW p \in Floored(floor), NEW at \in Lines, NEW r, r = Reclaiming(p, at)
    PROVE  /\ r.p \in Floored(floor) /\ r.at \in Lines /\ r.p.out = Both(p.out, r.at)
           /\ \A s \in Locations, e \in Ahead : r.at[s][e] <= at[s][e]
<1>1. PICK c : c = DaysInOrder
  OBVIOUS
<1>2. PICK n : n = Len(c) /\ n = Horizon + 1 /\ n \in Nat /\ \A k \in 1..n : c[k] = k - 1 /\ k - 1 \in Ahead
  BY <1>1, DaysRun
<1>3. PICK base, X : /\ base = [p |-> p, at |-> NoLines, left |-> 0]
                     /\ X = [k \in 0..n |-> RetakenTo(p, floor, at, k, 0)]
  OBVIOUS
<1>a. p \in Pictures /\ p.out \in Days
  BY DEF Floored, Pictures
<1>4. base \in X[0]
  <2>1. Both(p.out, NoLines) = p.out /\ NoLines \in Lines /\ InAll(NoLines) = 0
    BY <1>a, BothNone, AllNone
  <2>2. base \in Claimed(p, floor, 0)
    BY <1>3, <2>1 DEF Claimed
  <2>3. \A s \in Locations, e \in Ahead : base.at[s][e] = 0 /\ at[s][e] >= 0
    BY <1>3 DEF NoLines, Lines
  <2>4. base \in RetakenTo(p, floor, at, 0, 0)
    BY <2>2, <2>3 DEF RetakenTo
  <2>5. 0 \in 0..n
    BY <1>2
  <2>. QED  BY <1>3, <2>4, <2>5
<1>5. \A k \in 1..n : \A x \in X[k - 1] : RetakingOn(x, at, c[k]) \in X[k]
  <2>. SUFFICES ASSUME NEW k \in 1..n, NEW x \in X[k - 1] PROVE RetakingOn(x, at, k - 1) \in X[k]
    BY <1>2
  <2>1. k - 1 \in 0..n /\ k \in 0..n /\ k - 1 \in Ahead /\ (k - 1) + 1 = k
    BY <1>2
  <2>2. x \in RetakenTo(p, floor, at, k - 1, 0)
    BY <1>3, <2>1
  <2>3. RetakingOn(x, at, k - 1) \in RetakenTo(p, floor, at, (k - 1) + 1, 0)
    BY <1>a, <2>1, <2>2, RetakingOnIs
  <2>. QED  BY <1>3, <2>1, <2>3
<1>. DEFINE Is(u) == u = [k \in 0..n |-> IF k = 0 THEN {base} ELSE {RetakingOn(acc, at, c[k]) : acc \in u[k - 1]}]
<1>6. \E u : Is(u)
  <2>1. PICK st : st = [k \in 1..n |-> [x \in X[k - 1] |-> RetakingOn(x, at, c[k])]]
    OBVIOUS
  <2>2. \A k \in 1..n : \A x \in X[k - 1] : st[k][x] = RetakingOn(x, at, c[k])
    BY <2>1
  <2>3. \A k \in 1..n : \A x \in X[k - 1] : st[k][x] \in X[k]
    BY <1>5, <2>2
  <2>4. PICK u : Reached(u, n, X, st, base)
    BY <1>2, <1>4, <2>3, TurnsExist, Zenon
  <2>5. \A k \in 0..n : k # 0 => k \in 1..n /\ u[k - 1] \subseteq X[k - 1]
    BY <1>2, <2>4 DEF Reached
  <2>6. \A k \in 1..n : u[k] = {RetakingOn(x, at, c[k]) : x \in u[k - 1]}
    <3>. SUFFICES ASSUME NEW k \in 1..n PROVE u[k] = {RetakingOn(x, at, c[k]) : x \in u[k - 1]}
      OBVIOUS
    <3>1. \A y : y \in u[k] <=> \E x \in u[k - 1] : y = st[k][x]
      BY <2>4 DEF Reached
    <3>2. \A x \in u[k - 1] : st[k][x] = RetakingOn(x, at, c[k])
      BY <1>2, <2>2, <2>5
    <3>. QED  BY <3>1, <3>2
  <2>7. u = [k \in 0..n |-> u[k]] /\ u[0] = {base}
    BY <2>4 DEF Reached
  <2>8. \A k \in 0..n : u[k] = IF k = 0 THEN {base} ELSE {RetakingOn(x, at, c[k]) : x \in u[k - 1]}
    BY <2>5, <2>6, <2>7
  <2>9. PICK w : w = [k \in 0..n |-> IF k = 0 THEN {base} ELSE {RetakingOn(x, at, c[k]) : x \in u[k - 1]}]
    OBVIOUS
  <2>10. w = u
    <3>1. \A k \in 0..n : w[k] = u[k]
      BY <2>8, <2>9
    <3>. QED  BY <2>7, <2>9, <3>1
  <2>. QED  BY <2>9, <2>10
<1>7. PICK u : u = (CHOOSE v : Is(v)) /\ Is(u)
  BY <1>6
<1>8. u[0] = {base} /\ \A k \in 1..n : u[k] = {RetakingOn(x, at, c[k]) : x \in u[k - 1]}
  <2>1. 0 \in 0..n /\ \A k \in 1..n : k \in 0..n /\ k # 0
    BY <1>2
  <2>. QED  BY <1>7, <2>1
<1>9. \A k \in 1..n : u[k - 1] \subseteq X[k - 1] /\ u[k - 1] # {} => u[k] \subseteq X[k] /\ u[k] # {}
  <2>. SUFFICES ASSUME NEW k \in 1..n, u[k - 1] \subseteq X[k - 1], u[k - 1] # {} PROVE u[k] \subseteq X[k] /\ u[k] # {}
    OBVIOUS
  <2>1. \A x \in u[k - 1] : RetakingOn(x, at, c[k]) \in X[k]
    BY <1>5
  <2>2. u[k] = {RetakingOn(x, at, c[k]) : x \in u[k - 1]}
    BY <1>8
  <2>. QED  BY <2>1, <2>2
<1>. HIDE DEF Is
<1>10. (CHOOSE x \in u[n] : TRUE) \in X[n]
  BY <1>2, <1>4, <1>8, <1>9, TurnsIn
<1>11. PICK end : end = (CHOOSE x \in u[n] : TRUE) /\ end \in X[n]
  BY <1>10
<1>12. end = InTurn(LAMBDA acc, d : RetakingOn(acc, at, d), base, c)
  <2>1. n = Len(c) /\ u = CHOOSE v : Is(v)
    BY <1>2, <1>7
  <2>. QED  BY <1>11, <2>1 DEF InTurn, Is
<1>13. end \in RetakenTo(p, floor, at, n, 0)
  <2>1. n \in 0..n
    BY <1>2
  <2>. QED  BY <1>3, <1>11, <2>1
<1>14. r = end
  BY <1>1, <1>3, <1>12 DEF Reclaiming
<1>. QED  BY <1>13, <1>14 DEF RetakenTo, Claimed

-----------------------------------------------------------------------------
(* Orders as they were entered.                                               *)

\* Orders as they may stand: one that was asked for, with no more confirmed than it asks for.
Entered == {o \in {Taken(a, at) : a \in Asked, at \in Lines} : InAll(o.at) <= o.qty}

\* What an order is, and that it stays one with other lines confirmed.
LEMMA EnteredIs ==
    ASSUME NEW o \in Entered
    PROVE  /\ o.at \in Lines /\ o.qty \in Nat /\ o.date \in Ahead /\ o.priority \in Int /\ InAll(o.at) <= o.qty
           /\ \E a \in Asked : o = Taken(a, o.at)
           /\ \A at \in Lines : InAll(at) <= o.qty => [o EXCEPT !.at = at] \in Entered
<1>1. PICK a \in Asked, at \in Lines : o = Taken(a, at) /\ InAll(o.at) <= o.qty
  BY DEF Entered
<1>2. a \in [qty : Nat \ {0}, date : 0..Horizon, complete : BOOLEAN, priority : Int]
  BY PromisingAssumption
<1>3. o.at = at /\ o.qty = a.qty /\ o.date = a.date /\ o.priority = a.priority
  BY <1>1 DEF Taken
<1>4. ASSUME NEW b \in Lines, InAll(b) <= o.qty PROVE [o EXCEPT !.at = b] \in Entered
  <2>1. [o EXCEPT !.at = b] = Taken(a, b)
    BY <1>1 DEF Taken
  <2>2. Taken(a, b).at = b /\ Taken(a, b).qty = a.qty
    BY DEF Taken
  <2>. QED  BY <1>3, <1>4, <2>1, <2>2 DEF Entered
<1>. QED  BY <1>1, <1>2, <1>3, <1>4 DEF Ahead

\* What each has confirmed, and what is left by a day at a location when it ships.
Promised(os) == [i \in DOMAIN os |-> os[i].at]
Floors(os) == [s \in Locations |-> [d \in Ahead |-> Balance(os, s, d)]]

\* A sequence of orders, and what they have confirmed.
LEMMA OrdersAre ==
    ASSUME NEW os \in Seq(Entered)
    PROVE  /\ Len(os) \in Nat /\ DOMAIN os = 1..Len(os) /\ IsFiniteSet(DOMAIN os)
           /\ \A i \in DOMAIN os : os[i] \in Entered /\ os[i].at \in Lines /\ os[i].at \in Days
           /\ Promised(os) \in [DOMAIN os -> Lines] /\ Promised(os) \in [DOMAIN os -> Days]
           /\ Total(Promised(os)) \in Lines /\ Total(Promised(os)) \in Days
<1>1. Len(os) \in Nat /\ DOMAIN os = 1..Len(os) /\ \A i \in DOMAIN os : os[i] \in Entered
  OBVIOUS
<1>2. IsFiniteSet(DOMAIN os)
  BY <1>1, FS_Interval
<1>3. \A i \in DOMAIN os : os[i].at \in Lines /\ os[i].at \in Days
  BY <1>1, EnteredIs, LinesAreDays
<1>4. Promised(os) \in [DOMAIN os -> Lines] /\ Promised(os) \in [DOMAIN os -> Days]
  BY <1>3 DEF Promised
<1>5. Total(Promised(os)) \in Lines /\ Total(Promised(os)) \in Days
  BY <1>2, <1>4, TotalIs
<1>. QED  BY <1>1, <1>2, <1>3, <1>4, <1>5

\* What is left is what has come less what is promised.
LEMMA BalanceIs ==
    ASSUME supply \in Days, NEW os \in Seq(Entered), NEW p \in Pictures, NEW s \in Locations, NEW j \in Ahead
    PROVE  /\ Balance(os, s, j) \in Int /\ Cum(p, s, j) \in Int
           /\ (\A d \in Ahead : p.out[s][d] <= Total(Promised(os))[s][d]) => Cum(p, s, j) >= Balance(os, s, j)
           /\ (\A d \in Ahead : Total(Promised(os))[s][d] <= p.out[s][d]) => Balance(os, s, j) >= Cum(p, s, j)
<1>1. PICK t : t = Total(Promised(os)) /\ t \in Days
  BY OrdersAre
<1>2. PICK r : r = [out |-> t, used |-> p.used] /\ r \in Pictures /\ r.out = t
  <2>1. [out |-> t, used |-> p.used] \in Pictures
    BY <1>1 DEF Pictures
  <2>. QED  BY <2>1
<1>3. \A d \in Ahead : t[s][d] = PromisedOf(os, s, d)
  <2>. SUFFICES ASSUME NEW d \in Ahead PROVE t[s][d] = PromisedOf(os, s, d)
    OBVIOUS
  <2>1. t[s][d] = SumFunctionOnSet([i \in DOMAIN os |-> Promised(os)[i][s][d]], DOMAIN os)
    BY <1>1, OrdersAre, TotalIs
  <2>2. PICK f : f = [i \in DOMAIN os |-> Promised(os)[i][s][d]] /\ f = [i \in DOMAIN os |-> os[i].at[s][d]]
    BY DEF Promised
  <2>. QED  BY <2>1, <2>2 DEF PromisedOf
<1>4. Balance(os, s, j) = Cum(r, s, j)
  <2>1. PICK f : f = [d \in 0..j |-> supply[s][d] - r.out[s][d]]
    OBVIOUS
  <2>2. f = [d \in 0..j |-> supply[s][d] - PromisedOf(os, s, d)]
    <3>1. \A d \in 0..j : r.out[s][d] = PromisedOf(os, s, d)
      BY <1>2, <1>3, FirstDays
    <3>. QED  BY <2>1, <3>1
  <2>. QED  BY <2>1, <2>2 DEF Balance, Cum
<1>5. Cum(r, s, j) \in Int /\ Cum(p, s, j) \in Int
  BY <1>2, CumIs
<1>6. (\A d \in Ahead : p.out[s][d] <= t[s][d]) => Cum(r, s, j) <= Cum(p, s, j)
  BY <1>2, CumLess
<1>7. (\A d \in Ahead : t[s][d] <= p.out[s][d]) => Cum(p, s, j) <= Cum(r, s, j)
  BY <1>2, CumLess
<1>. QED  BY <1>1, <1>4, <1>5, <1>6, <1>7

\* What is left by a day is a number.
LEMMA FloorsAre ==
    ASSUME supply \in Days, NEW os \in Seq(Entered)
    PROVE  Floors(os) \in Days
<1>1. NothingPromised \in Pictures
  <2>1. NoLines \in Days /\ [k \in DOMAIN Periods |-> 0] \in Counts
    BY AllNone, LinesAreDays DEF Counts
  <2>. QED  BY <2>1 DEF NothingPromised, Pictures
<1>2. \A s \in Locations, d \in Ahead : Balance(os, s, d) \in Int
  BY <1>1, BalanceIs
<1>. QED  BY <1>2 DEF Floors, Days

\* Who has promised no more than was promised leaves no day below what was left.
LEMMA FlooredIs ==
    ASSUME supply \in Days, NEW os \in Seq(Entered), NEW p \in Pictures,
           \A s \in Locations, d \in Ahead : p.out[s][d] <= Total(Promised(os))[s][d]
    PROVE  p \in Floored(Floors(os))
<1>. SUFFICES ASSUME NEW s \in Locations, NEW j \in Window(s) PROVE Cum(p, s, j) >= Fewer(0, Floors(os)[s][j])
  BY DEF Floored
<1>1. j \in Ahead
  BY DEF Window
<1>2. Floors(os)[s][j] = Balance(os, s, j)
  BY <1>1 DEF Floors
<1>3. Cum(p, s, j) >= Balance(os, s, j) /\ Cum(p, s, j) \in Int /\ Balance(os, s, j) \in Int
  BY <1>1, BalanceIs
<1>. QED  BY <1>2, <1>3 DEF Fewer

\* And the other way round.
LEMMA FloorsHold ==
    ASSUME supply \in Days, NEW os \in Seq(Entered), NEW now \in Seq(Entered), NEW p \in Floored(Floors(os)),
           \A s \in Locations, d \in Ahead : Total(Promised(now))[s][d] <= p.out[s][d]
    PROVE  \A s \in Locations : \A j \in Window(s) : Balance(now, s, j) >= 0 \/ Balance(now, s, j) >= Balance(os, s, j)
<1>. SUFFICES ASSUME NEW s \in Locations, NEW j \in Window(s)
              PROVE  Balance(now, s, j) >= 0 \/ Balance(now, s, j) >= Balance(os, s, j)
  OBVIOUS
<1>1. j \in Ahead /\ p \in Pictures
  BY DEF Window, Floored
<1>2. Floors(os)[s][j] = Balance(os, s, j)
  BY <1>1 DEF Floors
<1>3. Balance(now, s, j) >= Cum(p, s, j) /\ Cum(p, s, j) \in Int /\ Balance(now, s, j) \in Int
  BY <1>1, BalanceIs
<1>4. Balance(os, s, j) \in Int
  BY <1>1, BalanceIs
<1>5. Cum(p, s, j) >= Fewer(0, Balance(os, s, j))
  BY <1>2 DEF Floored
<1>. QED  BY <1>3, <1>4, <1>5 DEF Fewer

\* One of them has other lines now.
Puts(os, i, at, now) ==
    /\ os \in Seq(Entered) /\ i \in DOMAIN os /\ at \in Lines /\ InAll(at) <= os[i].qty
    /\ now = [os EXCEPT ![i].at = at]

\* All have as much more or less as the one.
LEMMA PutIs ==
    ASSUME NEW os, NEW i, NEW at, NEW now, Puts(os, i, at, now)
    PROVE  /\ now \in Seq(Entered) /\ Len(now) = Len(os) /\ DOMAIN now = DOMAIN os
           /\ now[i].at = at /\ \A j \in DOMAIN os \ {i} : now[j] = os[j]
           /\ \A s \in Locations, d \in Ahead :
                  Total(Promised(now))[s][d] = Total(Promised(os))[s][d] - os[i].at[s][d] + at[s][d]
<1>0. /\ os \in Seq(Entered) /\ i \in DOMAIN os /\ at \in Lines /\ InAll(at) <= os[i].qty
      /\ now = [os EXCEPT ![i].at = at]
  BY DEF Puts
<1>1. PICK n : n = Len(os) /\ n \in Nat /\ DOMAIN os = 1..n /\ IsFiniteSet(1..n)
  BY <1>0, OrdersAre
<1>2. PICK o : o = [os[i] EXCEPT !.at = at] /\ o \in Entered /\ o.at = at
  <2>1. os[i] \in Entered
    BY <1>0
  <2>2. [os[i] EXCEPT !.at = at] \in Entered
    BY <1>0, <2>1, EnteredIs
  <2>3. [os[i] EXCEPT !.at = at].at = at
    <3>1. PICK a : os[i] = Taken(a, os[i].at)
      BY <2>1, EnteredIs
    <3>2. [Taken(a, os[i].at) EXCEPT !.at = at].at = at
      BY DEF Taken
    <3>. QED  BY <3>1, <3>2
  <2>. QED  BY <2>2, <2>3
<1>3. now = [os EXCEPT ![i] = o]
  BY <1>0, <1>2
<1>4. now \in [1..n -> Entered] /\ now[i] = o /\ \A j \in (1..n) \ {i} : now[j] = os[j]
  BY <1>0, <1>1, <1>2, <1>3
<1>5. now \in Seq(Entered) /\ Len(now) = n /\ DOMAIN now = 1..n
  BY <1>1, <1>4
<1>6. PICK a, b : /\ a = Promised(os) /\ b = Promised(now) /\ a \in [1..n -> Days] /\ b \in [1..n -> Days]
                  /\ a[i] = os[i].at /\ b[i] = at /\ \A j \in (1..n) \ {i} : b[j] = a[j]
  <2>1. Promised(os) \in [1..n -> Days] /\ Promised(now) \in [1..n -> Days]
    BY <1>0, <1>1, <1>5, OrdersAre
  <2>2. Promised(os)[i] = os[i].at /\ Promised(now)[i] = at
    BY <1>0, <1>1, <1>2, <1>4, <1>5 DEF Promised
  <2>3. \A j \in (1..n) \ {i} : Promised(now)[j] = Promised(os)[j]
    BY <1>1, <1>4, <1>5 DEF Promised
  <2>. QED  BY <2>1, <2>2, <2>3
<1>7. ASSUME NEW s \in Locations, NEW d \in Ahead
      PROVE  Total(Promised(now))[s][d] = Total(Promised(os))[s][d] - os[i].at[s][d] + at[s][d]
  <2>1. Total(b)[s][d] = Total(a)[s][d] - a[i][s][d] + b[i][s][d]
    <3>1. PICK I : I = 1..n
      OBVIOUS
    <3>2. IsFiniteSet(I) /\ a \in [I -> Days] /\ b \in [I -> Days] /\ i \in I /\ \A j \in I \ {i} : b[j] = a[j]
      BY <1>0, <1>1, <1>6, <3>1
    <3>. QED  BY <3>2, TotalChanged
  <2>. QED  BY <1>6, <2>1
<1>. QED  BY <1>1, <1>2, <1>4, <1>5, <1>7

\* An entry run that has come to the k-th order.
EntryTo(os, floor, k) ==
    {acc \in [p : Floored(floor), os : Seq(Entered)] :
        /\ Len(acc.os) = Len(os) /\ acc.p.out = Total(Promised(acc.os))
        /\ \A i \in DOMAIN os : /\ i > k => acc.os[i] = os[i]
                                /\ \A s \in Locations, d \in Ahead : os[i].at[s][d] <= acc.os[i].at[s][d]}

\* One order more in an entry run: who has a promise keeps it, the others are checked in what is left.
LEMMA EntryStep ==
    ASSUME supply \in Days, NEW os \in Seq(Entered), NEW floor \in Days, NEW k \in DOMAIN os,
           NEW acc \in EntryTo(os, floor, k - 1), NEW next,
           next = IF HasPromise(os[k]) THEN acc ELSE Confirming(acc, k, Check(acc.p, os[k], os[k].qty))
    PROVE  next \in EntryTo(os, floor, k)
<1>1. k \in Nat /\ \A i \in DOMAIN os : i \in Nat
  BY OrdersAre
<1>2. /\ acc \in [p : Floored(floor), os : Seq(Entered)] /\ Len(acc.os) = Len(os) /\ acc.p.out = Total(Promised(acc.os))
      /\ \A i \in DOMAIN os : /\ i > k - 1 => acc.os[i] = os[i]
                              /\ \A s \in Locations, d \in Ahead : os[i].at[s][d] <= acc.os[i].at[s][d]
  BY DEF EntryTo
<1>3. CASE HasPromise(os[k])
  <2>1. \A i \in DOMAIN os : i > k => i > k - 1
    BY <1>1
  <2>. QED  BY <1>2, <1>3, <2>1 DEF EntryTo
<1>4. CASE ~HasPromise(os[k])
  <2>1. acc.p \in Floored(floor) /\ acc.p.out \in Days /\ acc.os \in Seq(Entered) /\ DOMAIN acc.os = DOMAIN os
    <3>1. acc.p \in Floored(floor) /\ acc.os \in Seq(Entered)
      BY <1>2
    <3>2. DOMAIN acc.os = DOMAIN os
      BY <1>2, <3>1, OrdersAre
    <3>. QED  BY <3>1, <3>2 DEF Floored, Pictures
  <2>2. acc.os[k] = os[k] /\ os[k].at = NoLines /\ os[k] \in Entered
    <3>1. k > k - 1
      BY <1>1
    <3>. QED  BY <1>2, <1>4, <3>1 DEF HasPromise
  <2>3. os[k].qty \in Nat /\ os[k].date \in Ahead
    BY <2>2, EnteredIs
  <2>4. PICK r : r = Check(acc.p, os[k], os[k].qty) /\ r \in Checked(acc.p, floor, os[k].qty)
    BY <2>1, <2>3, CheckIs
  <2>5. /\ r.p \in Floored(floor) /\ r.at \in Lines /\ r.p.out = Both(acc.p.out, r.at)
        /\ InAll(r.at) + r.left = os[k].qty /\ r.left \in Nat
    BY <2>4 DEF Checked, Claimed
  <2>6. InAll(r.at) <= os[k].qty
    <3>1. InAll(r.at) \in Int
      BY <2>5, LinesAreDays, AllIs
    <3>. QED  BY <2>3, <2>5, <3>1
  <2>7. PICK now : now = [acc.os EXCEPT ![k].at = r.at]
    OBVIOUS
  <2>8. /\ now \in Seq(Entered) /\ Len(now) = Len(acc.os) /\ DOMAIN now = DOMAIN acc.os
        /\ now[k].at = r.at /\ \A j \in DOMAIN acc.os \ {k} : now[j] = acc.os[j]
        /\ \A s \in Locations, d \in Ahead :
               Total(Promised(now))[s][d] = Total(Promised(acc.os))[s][d] - acc.os[k].at[s][d] + r.at[s][d]
    <3>1. PICK w, at : w = acc.os /\ at = r.at
      OBVIOUS
    <3>2. Puts(w, k, at, now)
      BY <2>1, <2>2, <2>5, <2>6, <2>7, <3>1 DEF Puts
    <3>3. /\ now \in Seq(Entered) /\ Len(now) = Len(w) /\ DOMAIN now = DOMAIN w
          /\ now[k].at = at /\ \A j \in DOMAIN w \ {k} : now[j] = w[j]
          /\ \A s \in Locations, d \in Ahead :
                 Total(Promised(now))[s][d] = Total(Promised(w))[s][d] - w[k].at[s][d] + at[s][d]
      BY <3>2, PutIs
    <3>. QED  BY <3>1, <3>3
  <2>9. r.p.out = Total(Promised(now))
    <3>1. r.at \in Days /\ Total(Promised(now)) \in Days /\ Total(Promised(acc.os)) \in Days
      BY <2>1, <2>5, <2>8, LinesAreDays, OrdersAre
    <3>2. Both(acc.p.out, r.at) \in Days
      BY <2>1, <3>1, AllBoth
    <3>3. \A s \in Locations, d \in Ahead : Both(acc.p.out, r.at)[s][d] = Total(Promised(now))[s][d]
      <4>. SUFFICES ASSUME NEW s \in Locations, NEW d \in Ahead
                    PROVE  Both(acc.p.out, r.at)[s][d] = Total(Promised(now))[s][d]
        OBVIOUS
      <4>1. Both(acc.p.out, r.at)[s][d] = acc.p.out[s][d] + r.at[s][d]
        BY <2>1, <3>1, AllBoth
      <4>2. Total(Promised(now))[s][d] = acc.p.out[s][d] - 0 + r.at[s][d]
        <5>1. acc.os[k].at[s][d] = 0
          BY <2>2 DEF NoLines
        <5>. QED  BY <1>2, <2>8, <5>1
      <4>3. acc.p.out[s][d] \in Int /\ r.at[s][d] \in Int
        BY <2>1, <3>1 DEF Days
      <4>. QED  BY <4>1, <4>2, <4>3
    <3>. QED  BY <2>5, <3>1, <3>2, <3>3, DaysAlike
  <2>10. ASSUME NEW i \in DOMAIN os
         PROVE  /\ i > k => now[i] = os[i]
                /\ \A s \in Locations, d \in Ahead : os[i].at[s][d] <= now[i].at[s][d]
    <3>1. CASE i = k
      <4>1. \A s \in Locations, d \in Ahead : os[i].at[s][d] = 0 /\ now[i].at[s][d] >= 0
        BY <2>2, <2>5, <2>8, <3>1 DEF NoLines, Lines
      <4>. QED  BY <1>1, <3>1, <4>1
    <3>2. CASE i # k
      <4>1. now[i] = acc.os[i] /\ (i > k => i > k - 1)
        BY <1>1, <2>1, <2>8, <3>2
      <4>. QED  BY <1>2, <4>1
    <3>. QED  BY <3>1, <3>2
  <2>11. next = [p |-> r.p, os |-> now]
    BY <1>4, <2>4, <2>7 DEF Confirming
  <2>12. Len(now) = Len(os)
    BY <1>2, <2>8
  <2>. QED  BY <2>5, <2>8, <2>9, <2>10, <2>11, <2>12 DEF EntryTo
<1>. QED  BY <1>3, <1>4

\* What an entry run leaves is promised within what there is, and nobody has less of it than before.
LEMMA EntryIs ==
    ASSUME supply \in Days, NEW os \in Seq(Entered), NEW was \in Seq(Entered),
           \A s \in Locations, d \in Ahead : Total(Promised(os))[s][d] <= Total(Promised(was))[s][d]
    PROVE  Entry(os) \in EntryTo(os, Floors(was), Len(os))
<1>1. PICK c : c = InOrder(os)
  OBVIOUS
<1>2. PICK n : n = Len(c) /\ n = Len(os) /\ n \in Nat /\ DOMAIN os = 1..n /\ \A k \in 1..n : c[k] = k
  <2>1. PICK n : n = Len(os) /\ n \in Nat /\ DOMAIN os = 1..n
    BY OrdersAre
  <2>2. c = [k \in 1..n |-> k]
    BY <1>1, <2>1 DEF InOrder
  <2>3. c \in Seq(1..n) /\ Len(c) = n
    BY <2>1, <2>2
  <2>. QED  BY <2>1, <2>2, <2>3
<1>3. PICK floor, which, base, X :
          /\ floor = Floors(was) /\ which = {i \in DOMAIN os : HasPromise(os[i])}
          /\ base = [p |-> RegisteringOf(os, which), os |-> os]
          /\ X = [k \in 0..n |-> EntryTo(os, floor, k)]
  OBVIOUS
<1>a. floor \in Days
  BY <1>3, FloorsAre
<1>4. base \in X[0]
  <2>1. /\ RegisteringOf(os, which) \in Pictures
        /\ RegisteringOf(os, which).out = Total(RegisteredTo(os, which, n))
    <3>1. \A i \in 1..n : os[i].at \in Days
      BY <1>2, OrdersAre
    <3>. QED  BY <1>2, <3>1, RegisteringOfIs
  <2>2. RegisteredTo(os, which, n) = Promised(os)
    <3>1. \A i \in DOMAIN os : (IF i <= n /\ i \in which THEN os[i].at ELSE NoLines) = os[i].at
      BY <1>2, <1>3 DEF HasPromise
    <3>. QED  BY <3>1 DEF RegisteredTo, Promised
  <2>3. PICK p : p = RegisteringOf(os, which) /\ p \in Pictures /\ p.out = Total(Promised(os))
    BY <2>1, <2>2
  <2>4. p \in Floored(floor)
    BY <1>3, <2>3, FlooredIs
  <2>5. \A i \in DOMAIN os : \A s \in Locations, d \in Ahead : os[i].at[s][d] <= os[i].at[s][d]
    <3>1. \A i \in DOMAIN os : os[i].at \in Lines
      BY OrdersAre
    <3>. QED  BY <3>1 DEF Lines
  <2>6. base \in EntryTo(os, floor, 0)
    BY <1>3, <2>3, <2>4, <2>5 DEF EntryTo
  <2>7. 0 \in 0..n
    BY <1>2
  <2>. QED  BY <1>3, <2>6, <2>7
<1>5. \A k \in 1..n : \A x \in X[k - 1] :
          (IF HasPromise(os[c[k]]) THEN x ELSE Confirming(x, c[k], Check(x.p, os[c[k]], os[c[k]].qty))) \in X[k]
  <2>. SUFFICES ASSUME NEW k \in 1..n, NEW x \in X[k - 1]
                PROVE  (IF HasPromise(os[k]) THEN x ELSE Confirming(x, k, Check(x.p, os[k], os[k].qty))) \in X[k]
    BY <1>2
  <2>1. k - 1 \in 0..n /\ k \in 0..n /\ k \in DOMAIN os
    BY <1>2
  <2>2. x \in EntryTo(os, floor, k - 1)
    BY <1>3, <2>1
  <2>3. PICK next : next = IF HasPromise(os[k]) THEN x ELSE Confirming(x, k, Check(x.p, os[k], os[k].qty))
    OBVIOUS
  <2>4. next \in EntryTo(os, floor, k)
    BY <1>a, <2>1, <2>2, <2>3, EntryStep
  <2>. QED  BY <1>3, <2>1, <2>3, <2>4
<1>. DEFINE Is(u) == u = [k \in 0..n |-> IF k = 0 THEN {base} ELSE {(IF HasPromise(os[c[k]]) THEN acc ELSE Confirming(acc, c[k], Check(acc.p, os[c[k]], os[c[k]].qty))) : acc \in u[k - 1]}]
<1>6. \E u : Is(u)
  <2>1. PICK st : st = [k \in 1..n |-> [x \in X[k - 1] |-> (IF HasPromise(os[c[k]]) THEN x ELSE Confirming(x, c[k], Check(x.p, os[c[k]], os[c[k]].qty)))]]
    OBVIOUS
  <2>2. \A k \in 1..n : \A x \in X[k - 1] : st[k][x] = (IF HasPromise(os[c[k]]) THEN x ELSE Confirming(x, c[k], Check(x.p, os[c[k]], os[c[k]].qty)))
    BY <2>1
  <2>3. \A k \in 1..n : \A x \in X[k - 1] : st[k][x] \in X[k]
    BY <1>5, <2>2
  <2>4. PICK u : Reached(u, n, X, st, base)
    BY <1>2, <1>4, <2>3, TurnsExist, Zenon
  <2>5. \A k \in 0..n : k # 0 => k \in 1..n /\ u[k - 1] \subseteq X[k - 1]
    BY <1>2, <2>4 DEF Reached
  <2>6. \A k \in 1..n : u[k] = {(IF HasPromise(os[c[k]]) THEN x ELSE Confirming(x, c[k], Check(x.p, os[c[k]], os[c[k]].qty))) : x \in u[k - 1]}
    <3>. SUFFICES ASSUME NEW k \in 1..n PROVE u[k] = {(IF HasPromise(os[c[k]]) THEN x ELSE Confirming(x, c[k], Check(x.p, os[c[k]], os[c[k]].qty))) : x \in u[k - 1]}
      OBVIOUS
    <3>1. \A y : y \in u[k] <=> \E x \in u[k - 1] : y = st[k][x]
      BY <2>4 DEF Reached
    <3>2. \A x \in u[k - 1] : st[k][x] = (IF HasPromise(os[c[k]]) THEN x ELSE Confirming(x, c[k], Check(x.p, os[c[k]], os[c[k]].qty)))
      BY <1>2, <2>2, <2>5
    <3>. QED  BY <3>1, <3>2
  <2>7. u = [k \in 0..n |-> u[k]] /\ u[0] = {base}
    BY <2>4 DEF Reached
  <2>8. \A k \in 0..n : u[k] = IF k = 0 THEN {base} ELSE {(IF HasPromise(os[c[k]]) THEN x ELSE Confirming(x, c[k], Check(x.p, os[c[k]], os[c[k]].qty))) : x \in u[k - 1]}
    BY <2>5, <2>6, <2>7
  <2>9. PICK w : w = [k \in 0..n |-> IF k = 0 THEN {base} ELSE {(IF HasPromise(os[c[k]]) THEN x ELSE Confirming(x, c[k], Check(x.p, os[c[k]], os[c[k]].qty))) : x \in u[k - 1]}]
    OBVIOUS
  <2>10. w = u
    <3>1. \A k \in 0..n : w[k] = u[k]
      BY <2>8, <2>9
    <3>. QED  BY <2>7, <2>9, <3>1
  <2>. QED  BY <2>9, <2>10
<1>7. PICK u : u = (CHOOSE v : Is(v)) /\ Is(u)
  BY <1>6
<1>8. u[0] = {base} /\ \A k \in 1..n : u[k] = {(IF HasPromise(os[c[k]]) THEN x ELSE Confirming(x, c[k], Check(x.p, os[c[k]], os[c[k]].qty))) : x \in u[k - 1]}
  <2>1. 0 \in 0..n /\ \A k \in 1..n : k \in 0..n /\ k # 0
    BY <1>2
  <2>. QED  BY <1>7, <2>1
<1>9. \A k \in 1..n : u[k - 1] \subseteq X[k - 1] /\ u[k - 1] # {} => u[k] \subseteq X[k] /\ u[k] # {}
  <2>. SUFFICES ASSUME NEW k \in 1..n, u[k - 1] \subseteq X[k - 1], u[k - 1] # {} PROVE u[k] \subseteq X[k] /\ u[k] # {}
    OBVIOUS
  <2>1. \A x \in u[k - 1] : (IF HasPromise(os[c[k]]) THEN x ELSE Confirming(x, c[k], Check(x.p, os[c[k]], os[c[k]].qty))) \in X[k]
    BY <1>5
  <2>2. u[k] = {(IF HasPromise(os[c[k]]) THEN x ELSE Confirming(x, c[k], Check(x.p, os[c[k]], os[c[k]].qty))) : x \in u[k - 1]}
    BY <1>8
  <2>. QED  BY <2>1, <2>2
<1>. HIDE DEF Is
<1>10. (CHOOSE x \in u[n] : TRUE) \in X[n]
  BY <1>2, <1>4, <1>8, <1>9, TurnsIn
<1>11. PICK end : end = (CHOOSE x \in u[n] : TRUE) /\ end \in X[n]
  BY <1>10
<1>12. end = InTurn(LAMBDA acc, i : (IF HasPromise(os[i]) THEN acc ELSE Confirming(acc, i, Check(acc.p, os[i], os[i].qty))), base, c)
  <2>1. n = Len(c) /\ u = CHOOSE v : Is(v)
    BY <1>2, <1>7
  <2>. QED  BY <1>11, <2>1 DEF InTurn, Is
<1>13. end \in EntryTo(os, floor, n)
  <2>1. n \in 0..n
    BY <1>2
  <2>. QED  BY <1>3, <1>11, <2>1
<1>14. end = Entry(os)
  BY <1>1, <1>3, <1>12 DEF Entry
<1>. QED  BY <1>2, <1>3, <1>13, <1>14

-----------------------------------------------------------------------------
(* The order of backorder processing.                                         *)

\* B[i] is who comes before i.
Precede(S, B) ==
    \A i \in S : /\ B[i] \subseteq S \ {i}
                 /\ \A j \in S : (i # j => i \in B[j] \/ j \in B[i]) /\ (i \in B[j] => B[i] \subseteq B[j])

\* How many come before each numbers them.
LEMMA RanksAre ==
    ASSUME NEW S, IsFiniteSet(S), NEW B, Precede(S, B), NEW rank, \A i \in S : rank[i] = Cardinality(B[i]) + 1
    PROVE  /\ Cardinality(S) \in Nat /\ \A i, j \in S : rank[i] = rank[j] => i = j
           /\ \A i \in S : rank[i] \in 1..Cardinality(S)
           /\ \A n \in 1..Cardinality(S) : \E i \in S : rank[i] = n
<1>1. PICK m : m = Cardinality(S) /\ m \in Nat
  BY FS_CardinalityType
<1>2. ASSUME NEW i \in S
      PROVE  IsFiniteSet(B[i]) /\ Cardinality(B[i]) \in Nat /\ rank[i] \in 1..m
  <2>1. PICK T : T = S \ {i} /\ IsFiniteSet(T) /\ Cardinality(T) = m - 1
    <3>1. IsFiniteSet(S \ {i}) /\ Cardinality(S \ {i}) = Cardinality(S) - 1
      BY FS_RemoveElement
    <3>. QED  BY <1>1, <3>1
  <2>2. B[i] \in SUBSET T
    BY <2>1 DEF Precede
  <2>3. IsFiniteSet(B[i]) /\ Cardinality(B[i]) <= m - 1
    BY <2>1, <2>2, FS_Subset
  <2>4. Cardinality(B[i]) \in Nat
    BY <2>3, FS_CardinalityType
  <2>. QED  BY <1>1, <2>3, <2>4
<1>3. ASSUME NEW i \in S, NEW j \in S, i \in B[j] PROVE rank[i] < rank[j]
  <2>1. B[i] \subseteq B[j] /\ i \notin B[i]
    BY <1>3 DEF Precede
  <2>2. PICK T : T = B[i] \cup {i} /\ T \in SUBSET B[j]
    BY <1>3, <2>1
  <2>3. Cardinality(T) = Cardinality(B[i]) + 1
    BY <1>2, <2>1, <2>2, FS_AddElement
  <2>4. Cardinality(T) <= Cardinality(B[j])
    BY <1>2, <2>2, FS_Subset
  <2>. QED  BY <1>2, <2>3, <2>4
<1>4. ASSUME NEW i \in S, NEW j \in S, rank[i] = rank[j] PROVE i = j
  <2>. SUFFICES ASSUME i # j PROVE FALSE
    OBVIOUS
  <2>1. i \in B[j] \/ j \in B[i]
    BY DEF Precede
  <2>2. rank[i] < rank[j] \/ rank[j] < rank[i]
    BY <1>3, <2>1
  <2>3. rank[i] \in Int
    BY <1>2
  <2>. QED  BY <1>4, <2>2, <2>3
<1>5. PICK T, f : T = {rank[i] : i \in S} /\ f = [i \in S |-> rank[i]]
  OBVIOUS
<1>6. f \in Bijection(S, T)
  <2>1. f \in [S -> T] /\ \A i \in S : f[i] = rank[i]
    BY <1>5
  <2>2. \A y \in T : \E i \in S : f[i] = y
    BY <1>5, <2>1
  <2>3. \A i, j \in S : f[i] = f[j] => i = j
    BY <1>4, <2>1
  <2>. QED  BY <2>1, <2>2, <2>3 DEF Bijection, Injection, Surjection, IsInjective
<1>7. Cardinality(T) = m
  <2>1. ExistsBijection(S, T)
    BY <1>6 DEF ExistsBijection
  <2>. QED  BY <1>1, <2>1, FS_Bijection
<1>8. PICK U : U = 1..m /\ IsFiniteSet(U) /\ Cardinality(U) = m
  <2>1. IsFiniteSet(1..m) /\ Cardinality(1..m) = IF 1 > m THEN 0 ELSE m - 1 + 1
    <3>1. 1 \in Int /\ m \in Int
      BY <1>1
    <3>. QED  BY <3>1, FS_Interval, Zenon
  <2>2. Cardinality(1..m) = m
    BY <1>1, <2>1
  <2>. QED  BY <2>1, <2>2
<1>9. U = T
  <2>1. T \in SUBSET U
    BY <1>2, <1>5, <1>8
  <2>2. Cardinality(U) = Cardinality(T)
    BY <1>7, <1>8
  <2>. QED  BY <1>8, <2>1, <2>2, FS_Subset
<1>10. \A n \in 1..m : \E i \in S : rank[i] = n
  BY <1>5, <1>8, <1>9
<1>. QED  BY <1>1, <1>2, <1>4, <1>10

\* The segment of an order is one of the segments, or none.
LEMMA SegmentIs ==
    ASSUME NEW o \in Entered
    PROVE  SegmentOf(o) \in Nat /\ (SegmentOf(o) # 0 => SegmentOf(o) \in DOMAIN Segments)
<1>1. DOMAIN Segments \subseteq Nat
  <2>1. Segments \in Seq([priorities : SUBSET Int, strategy : STRING])
    BY PromisingAssumption
  <2>. QED  BY <2>1
<1>2. PICK ks : ks = {k \in DOMAIN Segments : o.priority \in Segments[k].priorities} /\ ks \subseteq Nat
  BY <1>1
<1>3. SegmentOf(o) = IF ks = {} THEN 0 ELSE Min(ks)
  BY <1>2 DEF SegmentOf
<1>4. CASE ks = {}
  BY <1>3, <1>4
<1>5. CASE ks # {}
  <2>1. \E x \in ks : \A y \in ks : x <= y
    BY <1>2, <1>5, LeastOf
  <2>2. Min(ks) \in ks
    BY <2>1 DEF Min
  <2>. QED  BY <1>2, <1>3, <1>5, <2>2
<1>. QED  BY <1>4, <1>5

\* By segment, then by priority, then by date, then as they were entered.
LEMMA GoesFirstIs ==
    ASSUME NEW os, NEW i, NEW j
    PROVE  GoesFirst(os, i, j) <=>
             \/ SegmentOf(os[i]) < SegmentOf(os[j])
             \/ /\ SegmentOf(os[i]) = SegmentOf(os[j])
                /\ \/ os[i].priority < os[j].priority
                   \/ /\ os[i].priority = os[j].priority
                      /\ os[i].date < os[j].date \/ (os[i].date = os[j].date /\ i < j)
<1>1. PICK a, b : /\ a = <<SegmentOf(os[i]), os[i].priority, os[i].date, i>>
                  /\ b = <<SegmentOf(os[j]), os[j].priority, os[j].date, j>>
  OBVIOUS
<1>2. GoesFirst(os, i, j) <=> \E k \in 1..4 : a[k] < b[k] /\ \A m \in 1..(k - 1) : a[m] = b[m]
  BY <1>1 DEF GoesFirst
<1>3. /\ a[1] = SegmentOf(os[i]) /\ a[2] = os[i].priority /\ a[3] = os[i].date /\ a[4] = i
      /\ b[1] = SegmentOf(os[j]) /\ b[2] = os[j].priority /\ b[3] = os[j].date /\ b[4] = j
  BY <1>1
<1>4. (\E k \in 1..4 : a[k] < b[k] /\ \A m \in 1..(k - 1) : a[m] = b[m]) <=>
          \/ a[1] < b[1] \/ (a[2] < b[2] /\ a[1] = b[1]) \/ (a[3] < b[3] /\ a[1] = b[1] /\ a[2] = b[2])
          \/ (a[4] < b[4] /\ a[1] = b[1] /\ a[2] = b[2] /\ a[3] = b[3])
  <2>1. 1..4 = {1, 2, 3, 4} /\ 1..(1 - 1) = {} /\ 1..(2 - 1) = {1} /\ 1..(3 - 1) = {1, 2} /\ 1..(4 - 1) = {1, 2, 3}
    OBVIOUS
  <2>. QED  BY <2>1
<1>. QED  BY <1>2, <1>3, <1>4

\* Who comes before one.
AheadOf(os) == [i \in InSegments(os) |-> {j \in InSegments(os) : GoesFirst(os, j, i)}]

\* Of two orders in segments one comes first, and coming first carries on.
LEMMA PrecedeIs ==
    ASSUME NEW os \in Seq(Entered)
    PROVE  Precede(InSegments(os), AheadOf(os))
<1>1. PICK S, B : S = InSegments(os) /\ B = AheadOf(os)
  OBVIOUS
<1>2. \A i \in S : B[i] = {j \in S : GoesFirst(os, j, i)}
  BY <1>1 DEF AheadOf
<1>3. \A i \in S : SegmentOf(os[i]) \in Int /\ os[i].priority \in Int /\ os[i].date \in Int /\ i \in Int
  <2>1. \A i \in S : i \in DOMAIN os
    BY <1>1 DEF InSegments
  <2>2. \A i \in S : os[i] \in Entered /\ i \in Int
    BY <2>1, OrdersAre
  <2>3. \A i \in S : SegmentOf(os[i]) \in Int /\ os[i].priority \in Int /\ os[i].date \in Int
    BY <2>2, SegmentIs, EnteredIs, Horizons
  <2>. QED  BY <2>2, <2>3
<1>4. ASSUME NEW i \in S PROVE ~GoesFirst(os, i, i)
  BY <1>3, GoesFirstIs
<1>5. ASSUME NEW i \in S, NEW j \in S, i # j PROVE GoesFirst(os, i, j) \/ GoesFirst(os, j, i)
  BY <1>3, <1>5, GoesFirstIs
<1>6. ASSUME NEW i \in S, NEW j \in S, NEW k \in S, GoesFirst(os, i, j), GoesFirst(os, j, k) PROVE GoesFirst(os, i, k)
  BY <1>3, <1>6, GoesFirstIs
<1>7. ASSUME NEW i \in S
      PROVE  /\ B[i] \subseteq S \ {i}
             /\ \A j \in S : (i # j => i \in B[j] \/ j \in B[i]) /\ (i \in B[j] => B[i] \subseteq B[j])
  BY <1>2, <1>4, <1>5, <1>6
<1>. QED  BY <1>1, <1>7 DEF Precede

\* c lists the elements of S, each once.
Lists(c, S) ==
    /\ Len(c) \in Nat /\ DOMAIN c = 1..Len(c) /\ \A n \in 1..Len(c) : c[n] \in S
    /\ \A n, k \in 1..Len(c) : c[n] = c[k] => n = k
    /\ \A i \in S : \E n \in 1..Len(c) : c[n] = i

\* Backorder processing takes each order in a segment up once (run.py).
LEMMA SequenceIs ==
    ASSUME NEW os \in Seq(Entered)
    PROVE  Lists(Sequence(os), InSegments(os))
<1>. DEFINE S == InSegments(os)
            B == AheadOf(os)
            rank == Ranks(os)
            m == Cardinality(S)
<1>1. PICK c : c = Sequence(os) /\ c = [n \in 1..m |-> CHOOSE i \in S : rank[i] = n]
  BY DEF Sequence
<1>2. IsFiniteSet(S)
  BY OrdersAre, FS_Subset DEF InSegments
<1>3. \A i \in S : rank[i] = Cardinality(B[i]) + 1
  BY DEF AheadOf, Ranks
<1>4. Precede(S, B)
  BY PrecedeIs
<1>. HIDE DEF S, B, rank, m
<1>5. /\ m \in Nat /\ \A i, j \in S : rank[i] = rank[j] => i = j
      /\ \A i \in S : rank[i] \in 1..m
      /\ \A n \in 1..m : \E i \in S : rank[i] = n
  BY <1>2, <1>3, <1>4, RanksAre DEF m
<1>7. \A n \in 1..m : c[n] \in S /\ rank[c[n]] = n
  BY <1>5, <1>1
<1>8. c \in [1..m -> S] /\ Len(c) = m /\ DOMAIN c = 1..m
  <2>1. c \in [1..m -> S]
    BY <1>1, <1>7
  <2>2. c \in Seq(S)
    BY <1>5, <2>1
  <2>. QED  BY <1>5, <2>1, <2>2
<1>10. \A i \in S : \E n \in 1..m : c[n] = i
  <2>. SUFFICES ASSUME NEW i \in S PROVE \E n \in 1..m : c[n] = i
    OBVIOUS
  <2>1. rank[i] \in 1..m
    BY <1>5
  <2>2. c[rank[i]] \in S /\ rank[c[rank[i]]] = rank[i]
    BY <1>7, <2>1
  <2>3. c[rank[i]] = i
    BY <1>5, <2>2
  <2>. QED  BY <2>1, <2>3
<1>11. \A n, k \in 1..m : c[n] = c[k] => n = k
  BY <1>7
<1>12. Len(c) \in Nat /\ DOMAIN c = 1..Len(c) /\ \A n \in 1..Len(c) : c[n] \in S
  BY <1>5, <1>7, <1>8
<1>13. /\ \A n, k \in 1..Len(c) : c[n] = c[k] => n = k
       /\ \A i \in S : \E n \in 1..Len(c) : c[n] = i
  BY <1>8, <1>10, <1>11
<1>14. Lists(c, S)
  BY <1>12, <1>13 DEF Lists
<1>. QED  BY <1>1, <1>14 DEF S

-----------------------------------------------------------------------------
(* Backorder processing.                                                      *)

\* Who is in no segment keeps what it has, who may not lose what is held.
Standing(os, held) == [i \in DOMAIN os |-> IF SegmentOf(os[i]) = 0 THEN os[i].at ELSE held[i]]

\* Held for those of the first k of c that may not lose: no more than they had, and nothing for anyone else.
HeldTo(os, floor, c, k) ==
    {acc \in [p : Floored(floor), held : [DOMAIN os -> Lines]] :
        /\ acc.p.out = Total(Standing(os, acc.held))
        /\ \A i \in DOMAIN os : /\ \A s \in Locations, d \in Ahead : acc.held[i][s][d] <= os[i].at[s][d]
                                /\ (\A n \in 1..k : c[n] # i) \/ ~MayNotLose(os[i]) => acc.held[i] = NoLines}

\* One more is held for.
LEMMA HeldStep ==
    ASSUME supply \in Days, NEW os \in Seq(Entered), NEW floor \in Days, NEW c, Lists(c, InSegments(os)),
           NEW k \in 1..Len(c), NEW acc \in HeldTo(os, floor, c, k - 1), NEW next,
           next = IF MayNotLose(os[c[k]]) THEN Holding(acc, c[k], Reclaiming(acc.p, os[c[k]].at)) ELSE acc
    PROVE  next \in HeldTo(os, floor, c, k)
<1>1. /\ k \in Nat /\ k - 1 \in Nat /\ \A n \in 1..(k - 1) : n \in 1..Len(c) /\ n # k
      /\ \A n \in 1..k : n \in 1..(k - 1) \/ n = k
      /\ \A n \in 1..(k - 1) : n \in 1..k
      /\ k \in 1..k
  BY DEF Lists
<1>2. PICK i : i = c[k] /\ i \in DOMAIN os /\ SegmentOf(os[i]) # 0 /\ \A n \in 1..(k - 1) : c[n] # i
  <2>1. c[k] \in InSegments(os)
    BY DEF Lists
  <2>2. \A n \in 1..(k - 1) : c[n] # c[k]
    BY <1>1 DEF Lists
  <2>. QED  BY <2>1, <2>2 DEF InSegments
<1>3. PICK p, held : /\ p = acc.p /\ held = acc.held /\ p \in Floored(floor) /\ held \in [DOMAIN os -> Lines]
                     /\ p.out = Total(Standing(os, held))
                     /\ \A j \in DOMAIN os : /\ \A s \in Locations, d \in Ahead : held[j][s][d] <= os[j].at[s][d]
                                             /\ (\A n \in 1..(k - 1) : c[n] # j) \/ ~MayNotLose(os[j]) => held[j] = NoLines
  BY DEF HeldTo
<1>4. \A j \in DOMAIN os : (\A n \in 1..k : c[n] # j) => (\A n \in 1..(k - 1) : c[n] # j) /\ j # i
  BY <1>1, <1>2
<1>5. CASE ~MayNotLose(os[i])
  <2>1. next = acc
    BY <1>2, <1>5
  <2>. QED  BY <1>3, <1>4, <2>1 DEF HeldTo
<1>6. CASE MayNotLose(os[i])
  <2>1. PICK at : at = os[i].at /\ at \in Lines
    BY <1>2, OrdersAre
  <2>2. PICK r : r = Reclaiming(p, at)
    OBVIOUS
  <2>3. /\ r.p \in Floored(floor) /\ r.at \in Lines /\ r.p.out = Both(p.out, r.at)
        /\ \A s \in Locations, e \in Ahead : r.at[s][e] <= at[s][e]
    BY <1>3, <2>1, <2>2, ReclaimingIs
  <2>4. PICK now : /\ now = [held EXCEPT ![i] = r.at] /\ now \in [DOMAIN os -> Lines] /\ now[i] = r.at
                   /\ \A j \in DOMAIN os \ {i} : now[j] = held[j]
    <3>1. PICK now : now = [held EXCEPT ![i] = r.at]
      OBVIOUS
    <3>. QED  BY <1>2, <1>3, <2>3, <3>1
  <2>5. next = [p |-> r.p, held |-> now]
    BY <1>2, <1>3, <1>6, <2>1, <2>2, <2>4 DEF Holding
  <2>6. PICK I, a, b : I = DOMAIN os /\ a = Standing(os, held) /\ b = Standing(os, now)
    OBVIOUS
  <2>7. /\ IsFiniteSet(I) /\ a \in [I -> Days] /\ b \in [I -> Days] /\ i \in I /\ \A j \in I \ {i} : b[j] = a[j]
        /\ a[i] = NoLines /\ b[i] = r.at
    <3>1. IsFiniteSet(I) /\ i \in I /\ \A j \in I : os[j].at \in Days
      BY <1>2, <2>6, OrdersAre
    <3>2. \A j \in I : held[j] \in Days /\ now[j] \in Days
      BY <1>3, <2>4, <2>6, LinesAreDays
    <3>3. a \in [I -> Days] /\ b \in [I -> Days]
      BY <2>6, <3>1, <3>2 DEF Standing
    <3>4. held[i] = NoLines
      BY <1>2, <1>3
    <3>5. a[i] = NoLines /\ b[i] = r.at
      BY <1>2, <2>4, <2>6, <3>4 DEF Standing
    <3>6. \A j \in I \ {i} : b[j] = a[j]
      BY <2>4, <2>6 DEF Standing
    <3>. QED  BY <3>1, <3>3, <3>5, <3>6
  <2>8. Total(a) \in Days /\ Total(b) \in Days /\ r.at \in Days /\ p.out = Total(a)
    BY <1>3, <2>3, <2>6, <2>7, TotalIs, LinesAreDays
  <2>9. \A s \in Locations, d \in Ahead : Both(Total(a), r.at)[s][d] = Total(b)[s][d]
    <3>. SUFFICES ASSUME NEW s \in Locations, NEW d \in Ahead PROVE Both(Total(a), r.at)[s][d] = Total(b)[s][d]
      OBVIOUS
    <3>1. Total(b)[s][d] = Total(a)[s][d] - a[i][s][d] + b[i][s][d]
      BY <2>7, TotalChanged
    <3>2. a[i][s][d] = 0 /\ b[i][s][d] = r.at[s][d]
      BY <2>7 DEF NoLines
    <3>3. Total(a)[s][d] \in Int /\ r.at[s][d] \in Int
      BY <2>8 DEF Days
    <3>4. Both(Total(a), r.at)[s][d] = Total(a)[s][d] + r.at[s][d]
      BY <2>8, AllBoth
    <3>. QED  BY <3>1, <3>2, <3>3, <3>4
  <2>10. r.p.out = Total(b)
    <3>1. Both(Total(a), r.at) \in Days
      BY <2>8, AllBoth
    <3>2. Both(Total(a), r.at) = Total(b)
      BY <2>8, <2>9, <3>1, DaysAlike
    <3>. QED  BY <2>3, <2>8, <3>2
  <2>11. ASSUME NEW j \in DOMAIN os
         PROVE  /\ \A s \in Locations, d \in Ahead : now[j][s][d] <= os[j].at[s][d]
                /\ (\A n \in 1..k : c[n] # j) \/ ~MayNotLose(os[j]) => now[j] = NoLines
    <3>1. CASE j = i
      <4>1. ~(\A n \in 1..k : c[n] # i)
        BY <1>1, <1>2
      <4>. QED  BY <1>6, <2>1, <2>3, <2>4, <3>1, <4>1
    <3>2. CASE j # i
      <4>1. now[j] = held[j]
        BY <2>4, <3>2
      <4>. QED  BY <1>3, <1>4, <4>1
    <3>. QED  BY <3>1, <3>2
  <2>12. next \in [p : Floored(floor), held : [DOMAIN os -> Lines]] /\ next.p = r.p /\ next.held = now
    <3>1. PICK F, T, q : F = Floored(floor) /\ T = [DOMAIN os -> Lines] /\ q = r.p
      OBVIOUS
    <3>2. q \in F /\ now \in T /\ next = [p |-> q, held |-> now]
      BY <2>3, <2>4, <2>5, <3>1
    <3>3. next \in [p : F, held : T] /\ next.p = q /\ next.held = now
      BY <3>2
    <3>. QED  BY <3>1, <3>3
  <2>13. next.p.out = Total(Standing(os, next.held))
    BY <2>6, <2>10, <2>12
  <2>. QED  BY <2>11, <2>12, <2>13 DEF HeldTo
<1>. QED  BY <1>5, <1>6

\* All that may not lose are held for before anything is planned again, and no day is left shorter by it.
LEMMA HeldFirstIs ==
    ASSUME supply \in Days, NEW os \in Seq(Entered)
    PROVE  HeldFirst(RegisteringOf(os, {i \in DOMAIN os : SegmentOf(os[i]) = 0}), os)
             \in HeldTo(os, Floors(os), Sequence(os), Len(Sequence(os)))
<1>1. PICK c : c = Sequence(os) /\ Lists(c, InSegments(os))
  BY SequenceIs
<1>2. PICK n : n = Len(c) /\ n \in Nat
  BY <1>1 DEF Lists
<1>3. PICK floor, which, base, X :
          /\ floor = Floors(os) /\ which = {i \in DOMAIN os : SegmentOf(os[i]) = 0}
          /\ base = [p |-> RegisteringOf(os, which), held |-> [i \in DOMAIN os |-> NoLines]]
          /\ X = [k \in 0..n |-> HeldTo(os, floor, c, k)]
  OBVIOUS
<1>a. floor \in Days
  BY <1>3, FloorsAre
<1>b. PICK m : m = Len(os) /\ m \in Nat /\ DOMAIN os = 1..m /\ IsFiniteSet(1..m)
  BY OrdersAre
<1>4. base \in X[0]
  <2>1. PICK p, t : /\ p = RegisteringOf(os, which) /\ t = RegisteredTo(os, which, m)
                    /\ p \in Pictures /\ p.out = Total(t)
    <3>1. \A i \in 1..m : os[i].at \in Days
      BY <1>b, OrdersAre
    <3>. QED  BY <1>b, <3>1, RegisteringOfIs
  <2>2. PICK held : held = [i \in DOMAIN os |-> NoLines] /\ held \in [DOMAIN os -> Lines] /\ \A i \in DOMAIN os : held[i] = NoLines
    <3>1. \A I, L : L \in Lines => /\ [i \in I |-> L] \in [I -> Lines] /\ \A i \in I : [j \in I |-> L][i] = L
      OBVIOUS
    <3>2. NoLines \in Lines
      BY AllNone
    <3>3. /\ [i \in DOMAIN os |-> NoLines] \in [DOMAIN os -> Lines]
          /\ \A i \in DOMAIN os : [j \in DOMAIN os |-> NoLines][i] = NoLines
      BY <3>1, <3>2, Zenon
    <3>4. PICK held : held = [i \in DOMAIN os |-> NoLines]
      OBVIOUS
    <3>. QED  BY <3>3, <3>4, Zenon
  <2>3. t = Standing(os, held)
    <3>1. \A i \in DOMAIN os : (IF i <= m /\ i \in which THEN os[i].at ELSE NoLines)
                                 = (IF SegmentOf(os[i]) = 0 THEN os[i].at ELSE held[i])
      BY <1>3, <1>b, <2>2
    <3>. QED  BY <2>1, <3>1 DEF RegisteredTo, Standing
  <2>4. \A i \in DOMAIN os : os[i].at \in Lines /\ NoLines \in Lines
    BY OrdersAre, AllNone
  <2>5. \A s \in Locations, d \in Ahead : Total(t)[s][d] <= Total(Promised(os))[s][d]
    <3>. SUFFICES ASSUME NEW s \in Locations, NEW d \in Ahead PROVE Total(t)[s][d] <= Total(Promised(os))[s][d]
      OBVIOUS
    <3>1. PICK I, a : I = DOMAIN os /\ a = Promised(os)
      OBVIOUS
    <3>2. IsFiniteSet(I) /\ a \in [I -> Days]
      BY <3>1, OrdersAre
    <3>3. t \in [I -> Days]
      BY <2>2, <2>3, <2>4, <3>1, LinesAreDays DEF Standing
    <3>4. \A i \in I : t[i][s][d] <= a[i][s][d]
      <4>. SUFFICES ASSUME NEW i \in I PROVE t[i][s][d] <= a[i][s][d]
        OBVIOUS
      <4>1. a[i] = os[i].at /\ (t[i] = os[i].at \/ t[i] = NoLines)
        BY <2>2, <2>3, <3>1 DEF Standing, Promised
      <4>2. os[i].at[s][d] \in Nat /\ NoLines[s][d] = 0
        BY <2>4, <3>1 DEF Lines, NoLines
      <4>. QED  BY <4>1, <4>2
    <3>5. Total(t)[s][d] <= Total(a)[s][d]
      BY <3>2, <3>3, <3>4, TotalLeq
    <3>. QED  BY <3>1, <3>5
  <2>6. p \in Floored(floor)
    BY <1>3, <2>1, <2>5, FlooredIs
  <2>7. ASSUME NEW i \in DOMAIN os
        PROVE  \A s \in Locations, d \in Ahead : held[i][s][d] <= os[i].at[s][d]
    BY <2>2, <2>4 DEF Lines, NoLines
  <2>8. base \in HeldTo(os, floor, c, 0)
    BY <1>3, <2>1, <2>2, <2>3, <2>6, <2>7 DEF HeldTo
  <2>9. 0 \in 0..n
    BY <1>2
  <2>. QED  BY <1>3, <2>8, <2>9
<1>5. \A k \in 1..n : \A x \in X[k - 1] :
          (IF MayNotLose(os[c[k]]) THEN Holding(x, c[k], Reclaiming(x.p, os[c[k]].at)) ELSE x) \in X[k]
  <2>. SUFFICES ASSUME NEW k \in 1..n, NEW x \in X[k - 1]
                PROVE  (IF MayNotLose(os[c[k]]) THEN Holding(x, c[k], Reclaiming(x.p, os[c[k]].at)) ELSE x) \in X[k]
    OBVIOUS
  <2>1. k - 1 \in 0..n /\ k \in 0..n /\ k \in 1..Len(c)
    BY <1>2
  <2>2. x \in HeldTo(os, floor, c, k - 1)
    BY <1>3, <2>1
  <2>3. PICK next : next = IF MayNotLose(os[c[k]]) THEN Holding(x, c[k], Reclaiming(x.p, os[c[k]].at)) ELSE x
    OBVIOUS
  <2>4. next \in HeldTo(os, floor, c, k)
    BY <1>1, <1>a, <2>1, <2>2, <2>3, HeldStep
  <2>. QED  BY <1>3, <2>1, <2>3, <2>4
<1>. DEFINE Is(u) == u = [k \in 0..n |-> IF k = 0 THEN {base} ELSE {(IF MayNotLose(os[c[k]]) THEN Holding(acc, c[k], Reclaiming(acc.p, os[c[k]].at)) ELSE acc) : acc \in u[k - 1]}]
<1>6. \E u : Is(u)
  <2>1. PICK st : st = [k \in 1..n |-> [x \in X[k - 1] |-> (IF MayNotLose(os[c[k]]) THEN Holding(x, c[k], Reclaiming(x.p, os[c[k]].at)) ELSE x)]]
    OBVIOUS
  <2>2. \A k \in 1..n : \A x \in X[k - 1] : st[k][x] = (IF MayNotLose(os[c[k]]) THEN Holding(x, c[k], Reclaiming(x.p, os[c[k]].at)) ELSE x)
    BY <2>1
  <2>3. \A k \in 1..n : \A x \in X[k - 1] : st[k][x] \in X[k]
    BY <1>5, <2>2
  <2>4. PICK u : Reached(u, n, X, st, base)
    BY <1>2, <1>4, <2>3, TurnsExist, Zenon
  <2>5. \A k \in 0..n : k # 0 => k \in 1..n /\ u[k - 1] \subseteq X[k - 1]
    BY <1>2, <2>4 DEF Reached
  <2>6. \A k \in 1..n : u[k] = {(IF MayNotLose(os[c[k]]) THEN Holding(x, c[k], Reclaiming(x.p, os[c[k]].at)) ELSE x) : x \in u[k - 1]}
    <3>. SUFFICES ASSUME NEW k \in 1..n PROVE u[k] = {(IF MayNotLose(os[c[k]]) THEN Holding(x, c[k], Reclaiming(x.p, os[c[k]].at)) ELSE x) : x \in u[k - 1]}
      OBVIOUS
    <3>1. \A y : y \in u[k] <=> \E x \in u[k - 1] : y = st[k][x]
      BY <2>4 DEF Reached
    <3>2. \A x \in u[k - 1] : st[k][x] = (IF MayNotLose(os[c[k]]) THEN Holding(x, c[k], Reclaiming(x.p, os[c[k]].at)) ELSE x)
      BY <1>2, <2>2, <2>5
    <3>. QED  BY <3>1, <3>2
  <2>7. u = [k \in 0..n |-> u[k]] /\ u[0] = {base}
    BY <2>4 DEF Reached
  <2>8. \A k \in 0..n : u[k] = IF k = 0 THEN {base} ELSE {(IF MayNotLose(os[c[k]]) THEN Holding(x, c[k], Reclaiming(x.p, os[c[k]].at)) ELSE x) : x \in u[k - 1]}
    BY <2>5, <2>6, <2>7
  <2>9. PICK w : w = [k \in 0..n |-> IF k = 0 THEN {base} ELSE {(IF MayNotLose(os[c[k]]) THEN Holding(x, c[k], Reclaiming(x.p, os[c[k]].at)) ELSE x) : x \in u[k - 1]}]
    OBVIOUS
  <2>10. w = u
    <3>1. \A k \in 0..n : w[k] = u[k]
      BY <2>8, <2>9
    <3>. QED  BY <2>7, <2>9, <3>1
  <2>. QED  BY <2>9, <2>10
<1>7. PICK u : u = (CHOOSE v : Is(v)) /\ Is(u)
  BY <1>6
<1>8. u[0] = {base} /\ \A k \in 1..n : u[k] = {(IF MayNotLose(os[c[k]]) THEN Holding(x, c[k], Reclaiming(x.p, os[c[k]].at)) ELSE x) : x \in u[k - 1]}
  <2>1. 0 \in 0..n /\ \A k \in 1..n : k \in 0..n /\ k # 0
    BY <1>2
  <2>. QED  BY <1>7, <2>1
<1>9. \A k \in 1..n : u[k - 1] \subseteq X[k - 1] /\ u[k - 1] # {} => u[k] \subseteq X[k] /\ u[k] # {}
  <2>. SUFFICES ASSUME NEW k \in 1..n, u[k - 1] \subseteq X[k - 1], u[k - 1] # {} PROVE u[k] \subseteq X[k] /\ u[k] # {}
    OBVIOUS
  <2>1. \A x \in u[k - 1] : (IF MayNotLose(os[c[k]]) THEN Holding(x, c[k], Reclaiming(x.p, os[c[k]].at)) ELSE x) \in X[k]
    BY <1>5
  <2>2. u[k] = {(IF MayNotLose(os[c[k]]) THEN Holding(x, c[k], Reclaiming(x.p, os[c[k]].at)) ELSE x) : x \in u[k - 1]}
    BY <1>8
  <2>. QED  BY <2>1, <2>2
<1>. HIDE DEF Is
<1>10. (CHOOSE x \in u[n] : TRUE) \in X[n]
  BY <1>2, <1>4, <1>8, <1>9, TurnsIn
<1>11. PICK end : end = (CHOOSE x \in u[n] : TRUE) /\ end \in X[n]
  BY <1>10
<1>12. end = InTurn(LAMBDA acc, i : (IF MayNotLose(os[i]) THEN Holding(acc, i, Reclaiming(acc.p, os[i].at)) ELSE acc), base, c)
  <2>1. n = Len(c) /\ u = CHOOSE v : Is(v)
    BY <1>2, <1>7
  <2>. QED  BY <1>11, <2>1 DEF InTurn, Is
<1>13. end \in HeldTo(os, floor, c, n)
  <2>1. n \in 0..n
    BY <1>2
  <2>. QED  BY <1>3, <1>11, <2>1
<1>14. end = HeldFirst(RegisteringOf(os, which), os)
  BY <1>1, <1>3, <1>12 DEF HeldFirst
<1>. QED  BY <1>1, <1>2, <1>3, <1>13, <1>14

\* What is given back is there again.
LEMMA GivingBackIs ==
    ASSUME supply \in Days, NEW floor \in Days, NEW p \in Floored(floor), NEW at \in Lines, NEW r, r = GivingBack(p, at)
    PROVE  /\ r \in Floored(floor)
           /\ \A s \in Locations, d \in Ahead : r.out[s][d] = p.out[s][d] - at[s][d]
<1>1. p \in Pictures /\ p.out \in Days
  BY DEF Floored, Pictures
<1>2. PICK b : b = [s \in Locations |-> [d \in Ahead |-> -at[s][d]]] /\ b \in Days
  <2>1. \A s \in Locations, d \in Ahead : -at[s][d] \in Int
    BY DEF Lines
  <2>2. [s \in Locations |-> [d \in Ahead |-> -at[s][d]]] \in Days
    BY <2>1 DEF Days
  <2>. QED  BY <2>2
<1>3. r = Registering(p, b)
  BY <1>2 DEF GivingBack
<1>4. r \in Pictures /\ r.out = Both(p.out, b)
  BY <1>1, <1>2, <1>3, RegisteringIs
<1>5. ASSUME NEW s \in Locations, NEW d \in Ahead
      PROVE  r.out[s][d] = p.out[s][d] - at[s][d] /\ r.out[s][d] <= p.out[s][d]
  <2>1. r.out[s][d] = p.out[s][d] + b[s][d]
    BY <1>1, <1>2, <1>4, AllBoth
  <2>2. b[s][d] = -at[s][d] /\ at[s][d] \in Nat
    BY <1>2 DEF Lines
  <2>3. p.out[s][d] \in Int
    BY <1>1 DEF Days
  <2>. QED  BY <2>1, <2>2, <2>3
<1>6. ASSUME NEW s \in Locations, NEW j \in Window(s) PROVE Cum(r, s, j) >= Fewer(0, floor[s][j])
  <2>1. j \in Ahead
    BY DEF Window
  <2>2. Cum(p, s, j) <= Cum(r, s, j)
    BY <1>1, <1>4, <1>5, <2>1, CumLess
  <2>3. Cum(p, s, j) \in Int /\ Cum(r, s, j) \in Int /\ floor[s][j] \in Int
    BY <1>1, <1>4, <2>1, CumIs DEF Days
  <2>4. Cum(p, s, j) >= Fewer(0, floor[s][j])
    BY DEF Floored
  <2>. QED  BY <2>2, <2>3, <2>4 DEF Fewer
<1>. QED  BY <1>4, <1>5, <1>6 DEF Floored

\* What a check promises, on a day at a location.
LEMMA CheckedIs ==
    ASSUME supply \in Days, NEW floor \in Days, NEW p \in Floored(floor), NEW q \in Nat, NEW o, o.date \in Ahead,
           NEW r, r = Check(p, o, q)
    PROVE  /\ r.p \in Floored(floor) /\ r.at \in Lines /\ InAll(r.at) \in Nat /\ InAll(r.at) <= q
           /\ \A s \in Locations, d \in Ahead : r.p.out[s][d] = p.out[s][d] + r.at[s][d]
<1>1. r \in Checked(p, floor, q)
  BY CheckIs
<1>2. /\ r.p \in Floored(floor) /\ r.at \in Lines /\ r.at \in Days /\ r.p.out = Both(p.out, r.at)
      /\ InAll(r.at) + r.left = q /\ r.left \in Nat /\ p.out \in Days
  BY <1>1, LinesAreDays DEF Checked, Claimed, Floored, Pictures
<1>3. InAll(r.at) \in Nat
  BY <1>2, AllIs
<1>4. InAll(r.at) <= q
  BY <1>2, <1>3
<1>5. \A s \in Locations, d \in Ahead : Both(p.out, r.at)[s][d] = p.out[s][d] + r.at[s][d]
  BY <1>2, AllBoth
<1>. QED  BY <1>2, <1>3, <1>4, <1>5

\* A picture and lines, put together and taken apart.
LEMMA ResultIs ==
    ASSUME NEW p, NEW at
    PROVE  Result(p, at).p = p /\ Result(p, at).at = at
BY DEF Result

\* What is confirmed of o is r now, what was held of it is not promised any more.
Replaces(p, floor, o, held, r) ==
    /\ r.p \in Floored(floor) /\ r.at \in Lines /\ InAll(r.at) <= o.qty
    /\ \A s \in Locations, d \in Ahead : r.p.out[s][d] = p.out[s][d] - held[s][d] + r.at[s][d]

\* Who keeps what is held and takes more of what is left replaces what is held.
LEMMA ToppedUpIs ==
    ASSUME supply \in Days, NEW floor \in Days, NEW p \in Floored(floor), NEW o \in Entered, NEW held \in Lines,
           InAll(held) <= o.qty
    PROVE  Replaces(p, floor, o, held, ToppedUp(p, o, held))
<1>1. o.qty \in Nat /\ o.date \in Ahead /\ held \in Days /\ InAll(held) \in Nat
  BY EnteredIs, LinesAreDays, AllIs
<1>2. \A s \in Locations, d \in Ahead : held[s][d] \in Int /\ p.out[s][d] \in Int
  BY <1>1 DEF Days, Floored, Pictures
<1>3. CASE o.qty > InAll(held)
  <2>1. PICK q, r : q = o.qty - InAll(held) /\ q \in Nat /\ r = Check(p, o, q)
    BY <1>1, <1>3
  <2>2. /\ r.p \in Floored(floor) /\ r.at \in Lines /\ r.at \in Days /\ InAll(r.at) \in Nat /\ InAll(r.at) <= q
        /\ \A s \in Locations, d \in Ahead : r.p.out[s][d] = p.out[s][d] + r.at[s][d]
    <3>1. o.date \in Ahead
      BY <1>1
    <3>2. /\ r.p \in Floored(floor) /\ r.at \in Lines /\ InAll(r.at) \in Nat /\ InAll(r.at) <= q
          /\ \A s \in Locations, d \in Ahead : r.p.out[s][d] = p.out[s][d] + r.at[s][d]
      BY <2>1, <3>1, CheckedIs
    <3>. QED  BY <3>2, LinesAreDays
  <2>3. PICK at : /\ at = Both(held, r.at) /\ at \in Lines /\ InAll(at) = InAll(held) + InAll(r.at)
                  /\ \A s \in Locations, d \in Ahead : at[s][d] = held[s][d] + r.at[s][d]
    BY <1>1, <2>2, AllBoth
  <2>4. PICK t : t = ToppedUp(p, o, held) /\ t.p = r.p /\ t.at = at
    <3>1. ToppedUp(p, o, held) = Result(r.p, at)
      BY <1>3, <2>1, <2>3 DEF ToppedUp, Adding
    <3>. QED  BY <3>1, ResultIs
  <2>5. InAll(at) <= o.qty
    BY <1>1, <2>1, <2>2, <2>3
  <2>6. \A s \in Locations, d \in Ahead : r.p.out[s][d] = p.out[s][d] - held[s][d] + at[s][d]
    <3>1. \A s \in Locations, d \in Ahead : r.at[s][d] \in Int
      BY <2>2 DEF Days
    <3>. QED  BY <1>2, <2>2, <2>3, <3>1
  <2>. QED  BY <2>2, <2>3, <2>4, <2>5, <2>6 DEF Replaces
<1>4. CASE ~(o.qty > InAll(held))
  <2>1. PICK t : t = ToppedUp(p, o, held) /\ t.p = p /\ t.at = held
    <3>1. ToppedUp(p, o, held) = Result(p, held)
      BY <1>4 DEF ToppedUp
    <3>. QED  BY <3>1, ResultIs
  <2>2. \A s \in Locations, d \in Ahead : p.out[s][d] = p.out[s][d] - held[s][d] + held[s][d]
    BY <1>2
  <2>. QED  BY <2>1, <2>2 DEF Replaces
<1>. QED  BY <1>3, <1>4

\* Whatever the strategy, an order planned again replaces what is held of it, and asks for no more than it did.
LEMMA ReplannedIs ==
    ASSUME supply \in Days, NEW floor \in Days, NEW p \in Floored(floor), NEW o \in Entered, SegmentOf(o) # 0,
           NEW held \in Lines, \A s \in Locations, d \in Ahead : held[s][d] <= o.at[s][d],
           MayNotLose(o) \/ held = NoLines
    PROVE  Replaces(p, floor, o, held, Replanned(p, o, held))
<1>1. /\ o.qty \in Nat /\ o.date \in Ahead /\ held \in Days /\ o.at \in Lines /\ o.at \in Days
      /\ InAll(held) \in Nat /\ InAll(o.at) \in Nat /\ InAll(o.at) <= o.qty
  BY EnteredIs, LinesAreDays, AllIs
<1>2. InAll(held) <= o.qty
  <2>1. InAll(held) <= InAll(o.at)
    BY <1>1, AllLeq
  <2>. QED  BY <1>1, <2>1
<1>3. StrategyOf(o) \in {"win", "gain", "fill", "lose", "redistribute"}
  BY SegmentIs, PromisingAssumption DEF StrategyOf
<1>4. \A s \in Locations, d \in Ahead : held[s][d] \in Int /\ p.out[s][d] \in Int /\ NoLines[s][d] = 0
  BY <1>1 DEF Days, Floored, Pictures, NoLines
<1>5. Replaces(p, floor, o, held, ToppedUp(p, o, held))
  BY <1>2, ToppedUpIs
<1>6. CASE StrategyOf(o) \in {"win", "gain"}
  <2>1. PICK g : /\ g = GivingBack(p, held) /\ g \in Floored(floor)
                 /\ \A s \in Locations, d \in Ahead : g.out[s][d] = p.out[s][d] - held[s][d]
    BY GivingBackIs
  <2>2. PICK r : r = Check(g, o, o.qty)
    OBVIOUS
  <2>3. /\ r.p \in Floored(floor) /\ r.at \in Lines /\ InAll(r.at) <= o.qty
        /\ \A s \in Locations, d \in Ahead : r.p.out[s][d] = g.out[s][d] + r.at[s][d]
    <3>1. PICK q : q = o.qty /\ q \in Nat /\ o.date \in Ahead /\ r = Check(g, o, q)
      BY <1>1, <2>2
    <3>2. /\ r.p \in Floored(floor) /\ r.at \in Lines /\ InAll(r.at) \in Nat /\ InAll(r.at) <= q
          /\ \A s \in Locations, d \in Ahead : r.p.out[s][d] = g.out[s][d] + r.at[s][d]
      <4>1. g \in Floored(floor)
        BY <2>1
      <4>. QED  BY <3>1, <4>1, CheckedIs
    <3>. QED  BY <3>1, <3>2
  <2>4. PICK t : t = Result(r.p, r.at) /\ t.p = r.p /\ t.at = r.at
    BY ResultIs
  <2>5. Replaces(p, floor, o, held, t)
    BY <2>1, <2>3, <2>4 DEF Replaces
  <2>6. Replanned(p, o, held) = ToppedUp(p, o, held) \/ Replanned(p, o, held) = t
    BY <1>6, <2>1, <2>2, <2>4 DEF Replanned, UnlessWorse
  <2>. QED  BY <1>5, <2>5, <2>6
<1>7. CASE StrategyOf(o) = "fill"
  <2>1. Replanned(p, o, held) = ToppedUp(p, o, held)
    BY <1>7 DEF Replanned
  <2>. QED  BY <1>5, <2>1
<1>8. ASSUME NEW q \in Nat, q <= o.qty, NEW r, r = Check(p, o, q), held = NoLines
      PROVE  Replaces(p, floor, o, held, r)
  <2>1. /\ r.p \in Floored(floor) /\ r.at \in Lines /\ InAll(r.at) \in Nat /\ InAll(r.at) <= q
        /\ \A s \in Locations, d \in Ahead : r.p.out[s][d] = p.out[s][d] + r.at[s][d]
    BY <1>1, <1>8, CheckedIs
  <2>2. \A s \in Locations, d \in Ahead : p.out[s][d] - held[s][d] = p.out[s][d]
    BY <1>4, <1>8
  <2>3. InAll(r.at) <= o.qty
    BY <1>1, <1>8, <2>1
  <2>. QED  BY <2>1, <2>2, <2>3 DEF Replaces
<1>9. CASE StrategyOf(o) = "lose"
  <2>1. held = NoLines
    BY <1>9 DEF MayNotLose
  <2>2. CASE HasPromise(o)
    <3>1. PICK r : r = Check(p, o, InAll(o.at)) /\ r = Replanned(p, o, held)
      BY <1>9, <2>2 DEF Replanned
    <3>. QED  BY <1>1, <1>8, <2>1, <3>1
  <2>3. CASE ~HasPromise(o)
    <3>1. PICK r : r = Replanned(p, o, held) /\ r.p = p /\ r.at = NoLines
      <4>1. Replanned(p, o, held) = Result(p, NoLines)
        BY <1>9, <2>3 DEF Replanned
      <4>. QED  BY <4>1, ResultIs
    <3>2. NoLines \in Lines /\ InAll(NoLines) = 0
      BY AllNone
    <3>3. \A s \in Locations, d \in Ahead : p.out[s][d] = p.out[s][d] - held[s][d] + NoLines[s][d]
      BY <1>4, <2>1
    <3>. QED  BY <1>1, <3>1, <3>2, <3>3 DEF Replaces
  <2>. QED  BY <2>2, <2>3
<1>10. CASE StrategyOf(o) = "redistribute"
  <2>1. held = NoLines
    BY <1>10 DEF MayNotLose
  <2>2. PICK r : r = Check(p, o, o.qty) /\ r = Replanned(p, o, held)
    BY <1>10 DEF Replanned
  <2>3. PICK q : q = o.qty /\ q \in Nat /\ q <= o.qty /\ r = Check(p, o, q)
    <3>1. o.qty \in Nat /\ o.qty <= o.qty
      BY <1>1
    <3>. QED  BY <2>2, <3>1, Zenon
  <2>. QED  BY <1>8, <2>1, <2>2, <2>3
<1>. QED  BY <1>3, <1>6, <1>7, <1>9, <1>10

\* What stands with the first k of c planned again: what they are confirmed now, and what is held of the others.
StandingTo(os, now, held, c, k) ==
    [i \in DOMAIN os |-> IF SegmentOf(os[i]) # 0 /\ \A n \in 1..k : c[n] # i THEN held[i] ELSE now[i].at]

\* The first k of c are planned again: what they have now and what is held of the others is promised.
ReplannedTo(os, floor, held, c, k) ==
    {acc \in [p : Floored(floor), os : Seq(Entered)] :
        /\ Len(acc.os) = Len(os) /\ acc.p.out = Total(StandingTo(os, acc.os, held, c, k))
        /\ \A i \in DOMAIN os : (\A n \in 1..k : c[n] # i) => acc.os[i] = os[i]}

\* One more is planned again.
LEMMA ReplanStep ==
    ASSUME supply \in Days, NEW os \in Seq(Entered), NEW floor \in Days, NEW c, Lists(c, InSegments(os)),
           NEW held \in [DOMAIN os -> Lines],
           \A i \in DOMAIN os : /\ \A s \in Locations, d \in Ahead : held[i][s][d] <= os[i].at[s][d]
                                /\ MayNotLose(os[i]) \/ held[i] = NoLines,
           NEW k \in 1..Len(c), NEW acc \in ReplannedTo(os, floor, held, c, k - 1), NEW next,
           next = Confirming(acc, c[k], Replanned(acc.p, os[c[k]], held[c[k]]))
    PROVE  next \in ReplannedTo(os, floor, held, c, k)
<1>1. /\ k \in Nat /\ k - 1 \in Nat /\ \A n \in 1..(k - 1) : n \in 1..Len(c) /\ n # k
      /\ \A n \in 1..k : n \in 1..(k - 1) \/ n = k
      /\ \A n \in 1..(k - 1) : n \in 1..k
      /\ k \in 1..k
  BY DEF Lists
<1>2. PICK i : i = c[k] /\ i \in DOMAIN os /\ SegmentOf(os[i]) # 0 /\ \A n \in 1..(k - 1) : c[n] # i
  <2>1. c[k] \in InSegments(os)
    BY DEF Lists
  <2>2. \A n \in 1..(k - 1) : c[n] # c[k]
    BY <1>1 DEF Lists
  <2>. QED  BY <2>1, <2>2 DEF InSegments
<1>3. PICK p, was : /\ p = acc.p /\ was = acc.os /\ p \in Floored(floor) /\ was \in Seq(Entered) /\ Len(was) = Len(os)
                    /\ p.out = Total(StandingTo(os, was, held, c, k - 1))
                    /\ \A j \in DOMAIN os : (\A n \in 1..(k - 1) : c[n] # j) => was[j] = os[j]
  BY DEF ReplannedTo
<1>4. \A j \in DOMAIN os : j # i => ((\A n \in 1..k : c[n] # j) <=> (\A n \in 1..(k - 1) : c[n] # j))
  BY <1>1, <1>2
<1>5. DOMAIN was = DOMAIN os /\ was[i] = os[i] /\ os[i] \in Entered /\ held[i] \in Lines
  BY <1>2, <1>3, OrdersAre
<1>6. PICK r : r = Replanned(p, os[i], held[i]) /\ Replaces(p, floor, os[i], held[i], r)
  <2>1. PICK o, h : o = os[i] /\ h = held[i] /\ o \in Entered /\ h \in Lines /\ SegmentOf(o) # 0
    BY <1>2, <1>5
  <2>2. (\A s \in Locations, d \in Ahead : h[s][d] <= o.at[s][d]) /\ (MayNotLose(o) \/ h = NoLines)
    BY <1>2, <2>1
  <2>3. Replaces(p, floor, o, h, Replanned(p, o, h))
    BY <1>3, <2>1, <2>2, ReplannedIs
  <2>. QED  BY <2>1, <2>3
<1>7. PICK at : /\ at = r.at /\ r.p \in Floored(floor) /\ at \in Lines /\ InAll(at) <= os[i].qty
                /\ \A s \in Locations, d \in Ahead : r.p.out[s][d] = p.out[s][d] - held[i][s][d] + at[s][d]
  BY <1>6 DEF Replaces
<1>8. PICK now : now = [was EXCEPT ![i].at = at]
  OBVIOUS
<1>9. /\ now \in Seq(Entered) /\ Len(now) = Len(was) /\ DOMAIN now = DOMAIN was
      /\ now[i].at = at /\ \A j \in DOMAIN was \ {i} : now[j] = was[j]
  <2>1. Puts(was, i, at, now)
    BY <1>2, <1>3, <1>5, <1>7, <1>8 DEF Puts
  <2>. QED  BY <2>1, PutIs
<1>10. next = [p |-> r.p, os |-> now]
  BY <1>2, <1>3, <1>6, <1>7, <1>8 DEF Confirming
<1>11. PICK I, a, b : I = DOMAIN os /\ a = StandingTo(os, was, held, c, k - 1) /\ b = StandingTo(os, now, held, c, k)
  OBVIOUS
<1>12. /\ IsFiniteSet(I) /\ a \in [I -> Days] /\ b \in [I -> Days] /\ i \in I /\ \A j \in I \ {i} : b[j] = a[j]
       /\ a[i] = held[i] /\ b[i] = at
  <2>1. IsFiniteSet(I) /\ i \in I
    BY <1>2, <1>11, OrdersAre
  <2>2. \A j \in I : held[j] \in Days /\ was[j].at \in Days /\ now[j].at \in Days
    <3>1. \A j \in I : held[j] \in Lines /\ j \in DOMAIN was /\ j \in DOMAIN now
      BY <1>5, <1>9, <1>11
    <3>2. \A j \in I : was[j].at \in Days
      BY <1>3, <3>1, OrdersAre
    <3>3. \A j \in I : now[j].at \in Days
      BY <1>9, <3>1, OrdersAre
    <3>. QED  BY <3>1, <3>2, <3>3, LinesAreDays
  <2>3. a \in [I -> Days] /\ b \in [I -> Days]
    BY <1>11, <2>2 DEF StandingTo
  <2>4. a[i] = held[i]
    BY <1>2, <1>11 DEF StandingTo
  <2>5. b[i] = at
    <3>1. ~(\A n \in 1..k : c[n] # i)
      BY <1>1, <1>2
    <3>. QED  BY <1>2, <1>9, <1>11, <3>1 DEF StandingTo
  <2>6. \A j \in I \ {i} : b[j] = a[j]
    <3>. SUFFICES ASSUME NEW j \in I \ {i} PROVE b[j] = a[j]
      OBVIOUS
    <3>1. now[j] = was[j] /\ j \in DOMAIN os /\ ((\A n \in 1..k : c[n] # j) <=> (\A n \in 1..(k - 1) : c[n] # j))
      BY <1>4, <1>5, <1>9, <1>11
    <3>. QED  BY <1>11, <3>1 DEF StandingTo
  <2>. QED  BY <2>1, <2>3, <2>4, <2>5, <2>6
<1>13. r.p.out = Total(b)
  <2>1. Total(a) \in Days /\ Total(b) \in Days /\ r.p.out \in Days /\ p.out = Total(a)
    BY <1>3, <1>7, <1>11, <1>12, TotalIs DEF Floored, Pictures
  <2>2. \A s \in Locations, d \in Ahead : r.p.out[s][d] = Total(b)[s][d]
    <3>. SUFFICES ASSUME NEW s \in Locations, NEW d \in Ahead PROVE r.p.out[s][d] = Total(b)[s][d]
      OBVIOUS
    <3>1. Total(b)[s][d] = Total(a)[s][d] - a[i][s][d] + b[i][s][d]
      BY <1>12, TotalChanged
    <3>. QED  BY <1>7, <1>12, <2>1, <3>1
  <2>. QED  BY <2>1, <2>2, DaysAlike
<1>14. \A j \in DOMAIN os : (\A n \in 1..k : c[n] # j) => now[j] = os[j]
  <2>. SUFFICES ASSUME NEW j \in DOMAIN os, \A n \in 1..k : c[n] # j PROVE now[j] = os[j]
    OBVIOUS
  <2>1. j # i /\ \A n \in 1..(k - 1) : c[n] # j
    BY <1>1, <1>2
  <2>. QED  BY <1>3, <1>5, <1>9, <2>1
<1>15. next \in [p : Floored(floor), os : Seq(Entered)] /\ next.p = r.p /\ next.os = now
  <2>1. PICK F, T, q : F = Floored(floor) /\ T = Seq(Entered) /\ q = r.p
    OBVIOUS
  <2>2. q \in F /\ now \in T /\ next = [p |-> q, os |-> now]
    BY <1>7, <1>9, <1>10, <2>1
  <2>3. next \in [p : F, os : T] /\ next.p = q /\ next.os = now
    BY <2>2
  <2>. QED  BY <2>1, <2>3
<1>16. next.p.out = Total(StandingTo(os, next.os, held, c, k)) /\ Len(next.os) = Len(os)
  BY <1>3, <1>9, <1>11, <1>13, <1>15
<1>. QED  BY <1>14, <1>15, <1>16 DEF ReplannedTo

\* Backorder processing leaves a picture of what all have confirmed then, and no day with less than there was.
LEMMA ProcessedIs ==
    ASSUME supply \in Days, NEW os \in Seq(Entered)
    PROVE  /\ Processed(os) \in Seq(Entered) /\ Len(Processed(os)) = Len(os)
           /\ \E p \in Floored(Floors(os)) : p.out = Total(Promised(Processed(os)))
<1>1. PICK c : c = Sequence(os) /\ Lists(c, InSegments(os))
  BY SequenceIs
<1>2. PICK n : n = Len(c) /\ n \in Nat
  BY <1>1 DEF Lists
<1>3. PICK floor, which, first, held, base, X :
          /\ floor = Floors(os) /\ which = {i \in DOMAIN os : SegmentOf(os[i]) = 0}
          /\ first = HeldFirst(RegisteringOf(os, which), os) /\ held = first.held
          /\ base = [p |-> first.p, os |-> os]
          /\ X = [k \in 0..n |-> ReplannedTo(os, floor, held, c, k)]
  OBVIOUS
<1>a. floor \in Days
  BY <1>3, FloorsAre
<1>b. /\ first.p \in Floored(floor) /\ held \in [DOMAIN os -> Lines] /\ first.p.out = Total(Standing(os, held))
      /\ \A i \in DOMAIN os : /\ \A s \in Locations, d \in Ahead : held[i][s][d] <= os[i].at[s][d]
                              /\ MayNotLose(os[i]) \/ held[i] = NoLines
  <2>1. first \in HeldTo(os, floor, c, n)
    BY <1>1, <1>2, <1>3, HeldFirstIs
  <2>. QED  BY <1>3, <2>1 DEF HeldTo
<1>4. base \in X[0]
  <2>1. PICK F, T, q : F = Floored(floor) /\ T = Seq(Entered) /\ q = first.p
    OBVIOUS
  <2>2. base \in [p : F, os : T] /\ base.p = q /\ base.os = os
    BY <1>3, <1>b, <2>1
  <2>3. StandingTo(os, os, held, c, 0) = Standing(os, held)
    <3>1. \A i \in DOMAIN os : (SegmentOf(os[i]) # 0 /\ \A m \in 1..0 : c[m] # i) <=> SegmentOf(os[i]) # 0
      OBVIOUS
    <3>2. \A i \in DOMAIN os : (IF SegmentOf(os[i]) # 0 /\ \A m \in 1..0 : c[m] # i THEN held[i] ELSE os[i].at)
                                 = (IF SegmentOf(os[i]) = 0 THEN os[i].at ELSE held[i])
      BY <3>1
    <3>. QED  BY <3>2 DEF StandingTo, Standing
  <2>4. base \in ReplannedTo(os, floor, held, c, 0)
    BY <1>b, <2>1, <2>2, <2>3 DEF ReplannedTo
  <2>5. 0 \in 0..n
    BY <1>2
  <2>. QED  BY <1>3, <2>4, <2>5
<1>5. \A k \in 1..n : \A x \in X[k - 1] : Confirming(x, c[k], Replanned(x.p, os[c[k]], first.held[c[k]])) \in X[k]
  <2>. SUFFICES ASSUME NEW k \in 1..n, NEW x \in X[k - 1]
                PROVE  Confirming(x, c[k], Replanned(x.p, os[c[k]], first.held[c[k]])) \in X[k]
    OBVIOUS
  <2>1. k - 1 \in 0..n /\ k \in 0..n /\ k \in 1..Len(c)
    BY <1>2
  <2>2. x \in ReplannedTo(os, floor, held, c, k - 1)
    BY <1>3, <2>1
  <2>3. PICK next : /\ next = Confirming(x, c[k], Replanned(x.p, os[c[k]], held[c[k]]))
                 /\ next = Confirming(x, c[k], Replanned(x.p, os[c[k]], first.held[c[k]]))
    BY <1>3
  <2>4. next \in ReplannedTo(os, floor, held, c, k)
    BY <1>1, <1>a, <1>b, <2>1, <2>2, <2>3, ReplanStep
  <2>. QED  BY <1>3, <2>1, <2>3, <2>4
<1>. DEFINE Is(u) == u = [k \in 0..n |-> IF k = 0 THEN {base} ELSE {Confirming(acc, c[k], Replanned(acc.p, os[c[k]], first.held[c[k]])) : acc \in u[k - 1]}]
<1>6. \E u : Is(u)
  <2>1. PICK st : st = [k \in 1..n |-> [x \in X[k - 1] |-> Confirming(x, c[k], Replanned(x.p, os[c[k]], first.held[c[k]]))]]
    OBVIOUS
  <2>2. \A k \in 1..n : \A x \in X[k - 1] : st[k][x] = Confirming(x, c[k], Replanned(x.p, os[c[k]], first.held[c[k]]))
    BY <2>1
  <2>3. \A k \in 1..n : \A x \in X[k - 1] : st[k][x] \in X[k]
    BY <1>5, <2>2
  <2>4. PICK u : Reached(u, n, X, st, base)
    BY <1>2, <1>4, <2>3, TurnsExist, Zenon
  <2>5. \A k \in 0..n : k # 0 => k \in 1..n /\ u[k - 1] \subseteq X[k - 1]
    BY <1>2, <2>4 DEF Reached
  <2>6. \A k \in 1..n : u[k] = {Confirming(x, c[k], Replanned(x.p, os[c[k]], first.held[c[k]])) : x \in u[k - 1]}
    <3>. SUFFICES ASSUME NEW k \in 1..n PROVE u[k] = {Confirming(x, c[k], Replanned(x.p, os[c[k]], first.held[c[k]])) : x \in u[k - 1]}
      OBVIOUS
    <3>1. \A y : y \in u[k] <=> \E x \in u[k - 1] : y = st[k][x]
      BY <2>4 DEF Reached
    <3>2. \A x \in u[k - 1] : st[k][x] = Confirming(x, c[k], Replanned(x.p, os[c[k]], first.held[c[k]]))
      BY <1>2, <2>2, <2>5
    <3>. QED  BY <3>1, <3>2
  <2>7. u = [k \in 0..n |-> u[k]] /\ u[0] = {base}
    BY <2>4 DEF Reached
  <2>8. \A k \in 0..n : u[k] = IF k = 0 THEN {base} ELSE {Confirming(x, c[k], Replanned(x.p, os[c[k]], first.held[c[k]])) : x \in u[k - 1]}
    BY <2>5, <2>6, <2>7
  <2>9. PICK w : w = [k \in 0..n |-> IF k = 0 THEN {base} ELSE {Confirming(x, c[k], Replanned(x.p, os[c[k]], first.held[c[k]])) : x \in u[k - 1]}]
    OBVIOUS
  <2>10. w = u
    <3>1. \A k \in 0..n : w[k] = u[k]
      BY <2>8, <2>9
    <3>. QED  BY <2>7, <2>9, <3>1
  <2>. QED  BY <2>9, <2>10
<1>7. PICK u : u = (CHOOSE v : Is(v)) /\ Is(u)
  BY <1>6
<1>8. u[0] = {base} /\ \A k \in 1..n : u[k] = {Confirming(x, c[k], Replanned(x.p, os[c[k]], first.held[c[k]])) : x \in u[k - 1]}
  <2>1. 0 \in 0..n /\ \A k \in 1..n : k \in 0..n /\ k # 0
    BY <1>2
  <2>. QED  BY <1>7, <2>1
<1>9. \A k \in 1..n : u[k - 1] \subseteq X[k - 1] /\ u[k - 1] # {} => u[k] \subseteq X[k] /\ u[k] # {}
  <2>. SUFFICES ASSUME NEW k \in 1..n, u[k - 1] \subseteq X[k - 1], u[k - 1] # {} PROVE u[k] \subseteq X[k] /\ u[k] # {}
    OBVIOUS
  <2>1. \A x \in u[k - 1] : Confirming(x, c[k], Replanned(x.p, os[c[k]], first.held[c[k]])) \in X[k]
    BY <1>5
  <2>2. u[k] = {Confirming(x, c[k], Replanned(x.p, os[c[k]], first.held[c[k]])) : x \in u[k - 1]}
    BY <1>8
  <2>. QED  BY <2>1, <2>2
<1>. HIDE DEF Is
<1>10. (CHOOSE x \in u[n] : TRUE) \in X[n]
  BY <1>2, <1>4, <1>8, <1>9, TurnsIn
<1>11. PICK end : end = (CHOOSE x \in u[n] : TRUE) /\ end \in X[n]
  BY <1>10
<1>12. end = InTurn(LAMBDA acc, i : Confirming(acc, i, Replanned(acc.p, os[i], first.held[i])), base, c)
  <2>1. n = Len(c) /\ u = CHOOSE v : Is(v)
    BY <1>2, <1>7
  <2>. QED  BY <1>11, <2>1 DEF InTurn, Is
<1>13. end \in ReplannedTo(os, floor, held, c, n)
  <2>1. n \in 0..n
    BY <1>2
  <2>. QED  BY <1>3, <1>11, <2>1
<1>14. end = ReplannedFrom(os, first)
  <2>1. end = InTurn(LAMBDA acc, i : Confirming(acc, i, Replanned(acc.p, os[i], first.held[i])), [p |-> first.p, os |-> os], c)
    BY <1>3, <1>12
  <2>. QED  BY <1>1, <1>3, <2>1 DEF ReplannedFrom
<1>15. PICK now : now = end.os /\ now = Processed(os)
  BY <1>3, <1>14 DEF Processed
<1>16. /\ now \in Seq(Entered) /\ Len(now) = Len(os) /\ end.p \in Floored(floor)
       /\ end.p.out = Total(StandingTo(os, now, held, c, n))
  BY <1>13, <1>15 DEF ReplannedTo
<1>17. StandingTo(os, now, held, c, n) = Promised(now)
  <2>1. DOMAIN now = DOMAIN os
    BY <1>16, OrdersAre
  <2>2. \A i \in DOMAIN os : SegmentOf(os[i]) # 0 => ~(\A m \in 1..n : c[m] # i)
    BY <1>1, <1>2 DEF Lists, InSegments
  <2>3. \A i \in DOMAIN os : (IF SegmentOf(os[i]) # 0 /\ \A m \in 1..n : c[m] # i THEN held[i] ELSE now[i].at) = now[i].at
    BY <2>2
  <2>. QED  BY <2>1, <2>3 DEF StandingTo, Promised
<1>. QED  BY <1>3, <1>15, <1>16, <1>17

\* Counted under other names it is as much.
LEMMA SumMoved ==
    ASSUME NEW S, IsFiniteSet(S), NEW f, NEW g, NEW h, \A x \in S : f[x] \in Int /\ g[h[x]] = f[x],
           \A x, y \in S : h[x] = h[y] => x = y
    PROVE  SumFunctionOnSet(f, S) = SumFunctionOnSet(g, {h[x] : x \in S})
<1>. DEFINE Im(V) == {h[x] : x \in V}
            Differ == {V \in SUBSET S : SumFunctionOnSet(f, V) # SumFunctionOnSet(g, Im(V))}
<1>. SUFFICES ASSUME Differ # {} PROVE FALSE
  OBVIOUS
<1>1. \A V \in Differ : IsFiniteSet(V)
  BY FS_Subset
<1>2. PICK V \in Differ : /\ IsFiniteSet(V)
                         /\ \A W \in SUBSET V : Cardinality(W) < Cardinality(V) => W \notin Differ
  <2>. HIDE DEF Differ
  <2>. QED  BY <1>1, LeastSet
<1>3. V # {} /\ Some(V) \in V
  <2>1. SumFunctionOnSet(f, {}) = 0 /\ SumFunctionOnSet(g, {}) = 0 /\ Im({}) = {}
    BY SumEmpty
  <2>2. V # {}
    <3>. SUFFICES ASSUME V = {} PROVE FALSE
      OBVIOUS
    <3>1. SumFunctionOnSet(f, {}) # SumFunctionOnSet(g, Im({}))
      OBVIOUS
    <3>. HIDE DEF Im
    <3>. QED  BY <2>1, <3>1
  <2>. QED  BY <2>2 DEF Some
<1>4. SumFunctionOnSet(f, V) = f[Some(V)] + SumFunctionOnSet(f, V \ {Some(V)})
  BY <1>2, <1>3, SumStep
<1>5. V \ {Some(V)} \in SUBSET V /\ V \ {Some(V)} \notin Differ
  <2>. HIDE DEF Differ
  <2>. QED  BY <1>2, <1>3, SmallerWithout
<1>6. PICK W, e : e = Some(V) /\ W = V \ {e} /\ W \subseteq S /\ IsFiniteSet(W) /\ e \in S /\ e \notin W
  BY <1>3, <1>5, FS_Subset
<1>7. SumFunctionOnSet(f, W) = SumFunctionOnSet(g, Im(W))
  BY <1>5, <1>6
<1>8. PICK R, y : /\ R = Im(W) /\ y = h[e] /\ y \notin R /\ IsFiniteSet(R)
                  /\ \A x \in R \cup {y} : g[x] \in Int
                  /\ Im(V) = R \cup {y} /\ g[y] = f[e] /\ f[e] \in Int
  <2>1. IsFiniteSet(Im(W))
    BY <1>6, ImageFinite
  <2>2. h[e] \notin Im(W)
    BY <1>6
  <2>3. Im(V) = Im(W) \cup {h[e]}
    BY <1>3, <1>6
  <2>4. \A x \in Im(W) \cup {h[e]} : g[x] \in Int
    BY <1>6
  <2>5. g[h[e]] = f[e] /\ f[e] \in Int
    BY <1>6
  <2>. QED  BY <2>1, <2>2, <2>3, <2>4, <2>5
<1>9. SumFunctionOnSet(g, R \cup {y}) = SumFunctionOnSet(g, R) + g[y]
  <2>1. IsFiniteSet(R) /\ y \notin R /\ \A x \in R \cup {y} : g[x] \in Int
    BY <1>8
  <2>. HIDE DEF Differ, Im
  <2>. QED  BY ONLY <2>1, SumWith
<1>10. SumFunctionOnSet(f, V) # SumFunctionOnSet(g, Im(V))
  OBVIOUS
<1>11. SumFunctionOnSet(g, R) \in Int
  BY <1>8, SumInt
<1>. HIDE DEF Differ, Im
<1>. QED  BY <1>4, <1>6, <1>7, <1>8, <1>9, <1>10, <1>11

\* With one order more, all have as much more as it has.
LEMMA TotalWith ==
    ASSUME NEW os \in Seq(Entered), NEW o \in Entered, NEW now, now = Append(os, o)
    PROVE  /\ now \in Seq(Entered)
           /\ \A s \in Locations, d \in Ahead : Total(Promised(now))[s][d] = Total(Promised(os))[s][d] + o.at[s][d]
<1>1. PICK n : n = Len(os) /\ n \in Nat /\ DOMAIN os = 1..n /\ IsFiniteSet(1..n)
  BY OrdersAre
<1>2. /\ now \in Seq(Entered) /\ DOMAIN now = 1..(n + 1) /\ now[n + 1] = o
      /\ \A i \in 1..n : now[i] = os[i] /\ i \in 1..(n + 1)
  BY <1>1
<1>3. PICK I, J, e : I = 1..n /\ J = I \cup {e} /\ e = n + 1 /\ J = 1..(n + 1) /\ e \notin I
  BY <1>1
<1>4. ASSUME NEW s \in Locations, NEW d \in Ahead
      PROVE  Total(Promised(now))[s][d] = Total(Promised(os))[s][d] + o.at[s][d]
  <2>1. PICK f, g : f = [i \in I |-> Promised(os)[i][s][d]] /\ g = [i \in J |-> Promised(now)[i][s][d]]
    OBVIOUS
  <2>2. /\ Total(Promised(os))[s][d] = SumFunctionOnSet(f, I) /\ Total(Promised(now))[s][d] = SumFunctionOnSet(g, J)
        /\ IsFiniteSet(I) /\ IsFiniteSet(J)
    <3>1. IsFiniteSet(I) /\ Promised(os) \in [I -> Days]
      BY <1>1, <1>3, OrdersAre
    <3>2. IsFiniteSet(J) /\ Promised(now) \in [J -> Days]
      BY <1>2, <1>3, OrdersAre
    <3>3. Total(Promised(os))[s][d] = SumFunctionOnSet(f, I)
      BY <2>1, <3>1, TotalIs
    <3>4. Total(Promised(now))[s][d] = SumFunctionOnSet(g, J)
      BY <2>1, <3>2, TotalIs
    <3>. QED  BY <3>1, <3>2, <3>3, <3>4
  <2>3. \A i \in I : g[i] = f[i] /\ g[i] \in Int
    <3>1. \A i \in I : os[i].at \in Days /\ i \in J /\ now[i] = os[i] /\ i \in DOMAIN os /\ i \in DOMAIN now
      BY <1>1, <1>2, <1>3, OrdersAre
    <3>2. \A i \in I : Promised(os)[i] = os[i].at /\ Promised(now)[i] = os[i].at
      BY <3>1 DEF Promised
    <3>. QED  BY <2>1, <3>1, <3>2 DEF Days
  <2>4. g[e] = o.at[s][d] /\ g[e] \in Int
    <3>1. e \in J /\ e \in DOMAIN now /\ now[e] = o
      BY <1>2, <1>3
    <3>2. Promised(now)[e] = o.at /\ o.at \in Days
      BY <3>1, EnteredIs, LinesAreDays DEF Promised
    <3>. QED  BY <2>1, <3>1, <3>2 DEF Days
  <2>5. SumFunctionOnSet(g, J) = SumFunctionOnSet(g, I) + g[e]
    <3>1. IsFiniteSet(I) /\ e \notin I /\ \A x \in I \cup {e} : g[x] \in Int
      BY <1>3, <2>2, <2>3, <2>4
    <3>2. SumFunctionOnSet(g, I \cup {e}) = SumFunctionOnSet(g, I) + g[e]
      BY ONLY <3>1, SumWith
    <3>. QED  BY <1>3, <3>2
  <2>6. SumFunctionOnSet(g, I) = SumFunctionOnSet(f, I)
    BY <2>2, <2>3, SumSame
  <2>. QED  BY <2>2, <2>4, <2>5, <2>6
<1>. QED  BY <1>2, <1>4

\* Two sequences, the one after the other.
LEMMA Joined ==
    ASSUME NEW S, NEW a \in Seq(S), NEW b \in Seq(S)
    PROVE  a \o b \in Seq(S) /\ Len(a \o b) = Len(a) + Len(b)
OBVIOUS

\* Without the i-th, those after it move up.
LEMMA RemovedIs ==
    ASSUME NEW os \in Seq(Entered), NEW i \in DOMAIN os, NEW rest, rest = RemoveAt(os, i)
    PROVE  /\ rest \in Seq(Entered) /\ Len(rest) = Len(os) - 1 /\ DOMAIN rest = 1..(Len(os) - 1)
           /\ \A j \in 1..(Len(os) - 1) : rest[j] = os[IF j < i THEN j ELSE j + 1]
<1>1. PICK n : n = Len(os) /\ n \in Nat /\ DOMAIN os = 1..n /\ i \in 1..n
  BY OrdersAre
<1>2. PICK a, b : a = SubSeq(os, 1, i - 1) /\ b = SubSeq(os, i + 1, n) /\ rest = a \o b
  BY <1>1 DEF RemoveAt
<1>3. PICK m, k : m = i - 1 /\ k = n - i /\ m \in Nat /\ k \in Nat
  BY <1>1
<1>4. /\ a \in Seq(Entered) /\ Len(a) = m /\ \A j \in 1..m : a[j] = os[j]
  BY <1>1, <1>2, <1>3
<1>5. /\ b \in Seq(Entered) /\ Len(b) = k /\ \A j \in 1..k : b[j] = os[i + j]
  <2>1. b \in Seq(Entered) /\ Len(b) = n - i
    BY <1>1, <1>2
  <2>2. \A j \in 1..(n - i) : b[j] = os[i + j]
    BY <1>1, <1>2
  <2>. QED  BY <1>3, <2>1, <2>2
<1>6. /\ rest \in Seq(Entered) /\ Len(rest) = m + k /\ DOMAIN rest = 1..(m + k)
      /\ \A j \in 1..m : rest[j] = a[j]
      /\ \A j \in 1..k : rest[m + j] = b[j]
  <2>1. a \in Seq(Entered) /\ b \in Seq(Entered) /\ m \in Nat /\ k \in Nat /\ Len(a) = m /\ Len(b) = k /\ rest = a \o b
    BY <1>2, <1>3, <1>4, <1>5
  <2>2. rest \in Seq(Entered) /\ Len(rest) = m + k
    <3>. DEFINE S == Entered
    <3>1. rest = a \o b /\ a \in Seq(S) /\ b \in Seq(S) /\ Len(a) = m /\ Len(b) = k
      BY <2>1
    <3>. HIDE DEF S
    <3>2. a \o b \in Seq(S) /\ Len(a \o b) = Len(a) + Len(b)
      BY ONLY <3>1, Joined
    <3>3. rest \in Seq(S) /\ Len(rest) = m + k
      BY <3>1, <3>2
    <3>. USE DEF S
    <3>. QED  BY <3>3
  <2>3. \A j \in 1..m : rest[j] = a[j]
    BY ONLY <2>1
  <2>4. \A j \in 1..k : rest[m + j] = b[j]
    BY ONLY <2>1
  <2>5. DOMAIN rest = 1..(m + k)
    BY ONLY <2>2
  <2>. QED  BY ONLY <2>2, <2>3, <2>4, <2>5
<1>7. m + k = n - 1
  BY <1>1, <1>3
<1>8. ASSUME NEW j \in 1..(n - 1) PROVE rest[j] = os[IF j < i THEN j ELSE j + 1]
  <2>1. CASE j < i
    <3>1. j \in 1..m
      BY <1>1, <1>3, <2>1
    <3>. QED  BY <1>4, <1>6, <2>1, <3>1
  <2>2. CASE ~(j < i)
    <3>1. PICK x : x = j - m /\ x \in 1..k /\ m + x = j /\ i + x = j + 1
      BY <1>1, <1>3, <2>2
    <3>2. rest[m + x] = b[x] /\ b[x] = os[i + x]
      BY <1>5, <1>6, <3>1
    <3>. QED  BY <2>2, <3>1, <3>2
  <2>. QED  BY <2>1, <2>2
<1>. QED  BY <1>1, <1>6, <1>7, <1>8

\* Without one order, all have as much less as it had.
LEMMA TotalWithout ==
    ASSUME NEW os \in Seq(Entered), NEW i \in DOMAIN os, NEW rest, rest = RemoveAt(os, i),
           NEW s \in Locations, NEW d \in Ahead
    PROVE  Total(Promised(rest))[s][d] = Total(Promised(os))[s][d] - os[i].at[s][d]
<1>1. PICK n : n = Len(os) /\ n \in Nat /\ DOMAIN os = 1..n /\ IsFiniteSet(1..n) /\ i \in 1..n
  BY OrdersAre
<1>2. /\ rest \in Seq(Entered) /\ DOMAIN rest = 1..(n - 1)
      /\ \A j \in 1..(n - 1) : rest[j] = os[IF j < i THEN j ELSE j + 1]
  BY <1>1, RemovedIs
<1>3. PICK I, J, h : I = 1..n /\ J = 1..(n - 1) /\ h = [j \in J |-> IF j < i THEN j ELSE j + 1]
  OBVIOUS
<1>4. /\ \A j \in J : h[j] \in I \ {i} /\ rest[j] = os[h[j]]
      /\ \A j, k \in J : h[j] = h[k] => j = k
  BY <1>1, <1>2, <1>3
<1>5. {h[j] : j \in J} = I \ {i}
  <2>1. \A k \in I \ {i} : IF k < i THEN k \in J /\ h[k] = k ELSE k - 1 \in J /\ h[k - 1] = k
    BY <1>1, <1>3
  <2>. QED  BY <1>4, <2>1
<1>6. PICK f, g : f = [j \in I |-> Promised(os)[j][s][d]] /\ g = [j \in J |-> Promised(rest)[j][s][d]]
  OBVIOUS
<1>7. /\ Total(Promised(os))[s][d] = SumFunctionOnSet(f, I) /\ Total(Promised(rest))[s][d] = SumFunctionOnSet(g, J)
      /\ IsFiniteSet(I) /\ IsFiniteSet(J)
  <2>1. IsFiniteSet(I) /\ Promised(os) \in [I -> Days]
    BY <1>1, <1>3, OrdersAre
  <2>2. IsFiniteSet(J) /\ Promised(rest) \in [J -> Days]
    BY <1>2, <1>3, OrdersAre
  <2>3. Total(Promised(os))[s][d] = SumFunctionOnSet(f, I)
    BY <1>6, <2>1, TotalIs
  <2>4. Total(Promised(rest))[s][d] = SumFunctionOnSet(g, J)
    BY <1>6, <2>2, TotalIs
  <2>. QED  BY <2>1, <2>2, <2>3, <2>4
<1>8. \A j \in I : f[j] = os[j].at[s][d] /\ f[j] \in Int
  <2>1. \A j \in I : os[j].at \in Days /\ j \in DOMAIN os
    BY <1>1, <1>3, OrdersAre
  <2>2. \A j \in I : Promised(os)[j] = os[j].at
    BY <2>1 DEF Promised
  <2>. QED  BY <1>6, <2>1, <2>2 DEF Days
<1>9. \A j \in J : g[j] = f[h[j]] /\ g[j] \in Int
  <2>1. \A j \in J : Promised(rest)[j] = rest[j].at
    BY <1>2, <1>3 DEF Promised
  <2>2. \A j \in J : h[j] \in I /\ g[j] = rest[j].at[s][d]
    BY <1>4, <1>6, <2>1
  <2>. QED  BY <1>4, <1>8, <2>2
<1>10. SumFunctionOnSet(g, J) = SumFunctionOnSet(f, I \ {i})
  <2>1. SumFunctionOnSet(g, J) = SumFunctionOnSet(f, {h[j] : j \in J})
    BY <1>4, <1>7, <1>9, SumMoved
  <2>. QED  BY <1>5, <2>1
<1>11. SumFunctionOnSet(f, I) = f[i] + SumFunctionOnSet(f, I \ {i})
  <2>1. IsFiniteSet(I) /\ i \in I /\ \A j \in I : f[j] \in Int
    BY <1>1, <1>3, <1>7, <1>8
  <2>. QED  BY ONLY <2>1, SumRemove
<1>12. SumFunctionOnSet(f, I \ {i}) \in Int /\ f[i] = os[i].at[s][d] /\ f[i] \in Int
  <2>1. IsFiniteSet(I \ {i})
    BY <1>7, FS_RemoveElement
  <2>. QED  BY <1>1, <1>3, <1>8, <2>1, SumInt
<1>. QED  BY <1>7, <1>10, <1>11, <1>12

-----------------------------------------------------------------------------
(* The steps.                                                                 *)

\* What os becomes is covered by a picture that keeps what there was.
Covers(os, now) ==
    /\ now \in Seq(Entered)
    /\ \E p \in Floored(Floors(os)) : \A s \in Locations, d \in Ahead : Total(Promised(now))[s][d] <= p.out[s][d]

\* What an order is promised after an entry run of others.
LEMMA CheckedAfter ==
    ASSUME supply \in Days, NEW was \in Seq(Entered), NEW os \in Seq(Entered),
           \A s \in Locations, d \in Ahead : Total(Promised(os))[s][d] <= Total(Promised(was))[s][d],
           NEW o \in Asked, NEW r, r = Check(Entry(os).p, o, o.qty)
    PROVE  /\ Taken(o, r.at) \in Entered /\ Taken(o, r.at).at = r.at /\ r.at \in Lines /\ r.p \in Floored(Floors(was))
           /\ \A s \in Locations, d \in Ahead : Total(Promised(os))[s][d] + r.at[s][d] <= r.p.out[s][d]
<1>1. PICK e, floor : e = Entry(os) /\ floor = Floors(was) /\ floor \in Days /\ e \in EntryTo(os, floor, Len(os))
  BY EntryIs, FloorsAre
<1>2. /\ e.p \in Floored(floor) /\ e.os \in Seq(Entered) /\ Len(e.os) = Len(os) /\ e.p.out = Total(Promised(e.os))
      /\ \A i \in DOMAIN os : \A s \in Locations, d \in Ahead : os[i].at[s][d] <= e.os[i].at[s][d]
  BY <1>1 DEF EntryTo
<1>3. o.qty \in Nat /\ o.date \in Ahead
  BY PromisingAssumption DEF Ahead
<1>4. /\ r.p \in Floored(floor) /\ r.at \in Lines /\ InAll(r.at) \in Nat /\ InAll(r.at) <= o.qty
      /\ \A s \in Locations, d \in Ahead : r.p.out[s][d] = e.p.out[s][d] + r.at[s][d]
  <2>1. PICK p, q, x : p = e.p /\ q = o.qty /\ x = o /\ p \in Floored(floor) /\ q \in Nat /\ x.date \in Ahead
    BY <1>1, <1>2, <1>3
  <2>2. r = Check(p, x, q)
    BY <1>1, <2>1
  <2>3. /\ r.p \in Floored(floor) /\ r.at \in Lines /\ InAll(r.at) \in Nat /\ InAll(r.at) <= q
        /\ \A s \in Locations, d \in Ahead : r.p.out[s][d] = p.out[s][d] + r.at[s][d]
    <3>1. supply \in Days /\ floor \in Days /\ p \in Floored(floor) /\ q \in Nat /\ x.date \in Ahead
      BY <1>1, <2>1
    <3>2. r.p \in Floored(floor) /\ r.at \in Lines /\ InAll(r.at) \in Nat /\ InAll(r.at) <= q
      BY ONLY <2>2, <3>1, CheckedIs
    <3>3. r \in Checked(p, floor, q)
      BY ONLY <2>2, <3>1, CheckIs
    <3>4. r.p.out = Both(p.out, r.at) /\ p.out \in Days /\ r.at \in Days
      BY <3>1, <3>3, LinesAreDays DEF Checked, Claimed, Floored, Pictures
    <3>5. \A s \in Locations, d \in Ahead : Both(p.out, r.at)[s][d] = p.out[s][d] + r.at[s][d]
      BY <3>4, AllBoth
    <3>. QED  BY <3>2, <3>4, <3>5
  <2>. QED  BY <2>1, <2>3
<1>5. Taken(o, r.at) \in Entered /\ Taken(o, r.at).at = r.at
  <2>1. Taken(o, r.at).at = r.at /\ Taken(o, r.at).qty = o.qty
    BY DEF Taken
  <2>. QED  BY <1>4, <2>1 DEF Entered
<1>6. ASSUME NEW s \in Locations, NEW d \in Ahead
      PROVE  Total(Promised(os))[s][d] + r.at[s][d] <= r.p.out[s][d]
  <2>1. PICK I, a, b : I = DOMAIN os /\ a = Promised(os) /\ b = Promised(e.os)
    OBVIOUS
  <2>2. /\ IsFiniteSet(I) /\ a \in [I -> Days] /\ b \in [I -> Days] /\ Total(a) \in Days /\ Total(b) \in Days
        /\ DOMAIN e.os = I
    <3>1. DOMAIN e.os = I
      BY <1>2, <2>1, OrdersAre
    <3>. QED  BY <1>2, <2>1, <3>1, OrdersAre
  <2>3. \A i \in I : a[i][s][d] <= b[i][s][d]
    BY <1>2, <2>1, <2>2 DEF Promised
  <2>4. Total(a)[s][d] <= Total(b)[s][d]
    BY <2>2, <2>3, TotalLeq
  <2>5. Total(a)[s][d] \in Int /\ Total(b)[s][d] \in Int /\ r.at[s][d] \in Int
    BY <1>4, <2>2 DEF Days, Lines
  <2>6. r.p.out[s][d] = Total(b)[s][d] + r.at[s][d]
    BY <1>2, <1>4, <2>1
  <2>. QED  BY <2>1, <2>4, <2>5, <2>6
<1>. QED  BY <1>1, <1>4, <1>5, <1>6

\* What all have on a day at a location is a number.
LEMMA TotalsAre ==
    ASSUME NEW os \in Seq(Entered), NEW s \in Locations, NEW d \in Ahead
    PROVE  Total(Promised(os))[s][d] \in Int
BY OrdersAre DEF Days

\* An order accepted is promised out of what the others leave.
LEMMA Accepted ==
    ASSUME supply \in Days, NEW os \in Seq(Entered), NEW o \in Asked, NEW now,
           now = Append(os, Taken(o, Check(Entry(os).p, o, o.qty).at))
    PROVE  Covers(os, now)
<1>1. PICK r : r = Check(Entry(os).p, o, o.qty)
  OBVIOUS
<1>2. \A s \in Locations, d \in Ahead : Total(Promised(os))[s][d] <= Total(Promised(os))[s][d]
  BY TotalsAre
<1>3. /\ Taken(o, r.at) \in Entered /\ Taken(o, r.at).at = r.at /\ r.p \in Floored(Floors(os))
      /\ \A s \in Locations, d \in Ahead : Total(Promised(os))[s][d] + r.at[s][d] <= r.p.out[s][d]
  BY <1>1, <1>2, CheckedAfter
<1>4. PICK t : t = Taken(o, r.at) /\ t \in Entered /\ t.at = r.at /\ now = Append(os, t)
  BY <1>1, <1>3
<1>5. /\ now \in Seq(Entered)
      /\ \A s \in Locations, d \in Ahead : Total(Promised(now))[s][d] = Total(Promised(os))[s][d] + t.at[s][d]
  BY <1>4, TotalWith
<1>6. \A s \in Locations, d \in Ahead : Total(Promised(now))[s][d] <= r.p.out[s][d]
  BY <1>3, <1>4, <1>5
<1>. QED  BY <1>3, <1>5, <1>6 DEF Covers

\* An order changed is promised after all the others, its own given up.
LEMMA Changed ==
    ASSUME supply \in Days, NEW os \in Seq(Entered), NEW i \in DOMAIN os, NEW o \in Asked, NEW now,
           now = [os EXCEPT ![i] = Taken(o, Check(Entry(RemoveAt(os, i)).p, o, o.qty).at)]
    PROVE  Covers(os, now)
<1>1. PICK rest, r : rest = RemoveAt(os, i) /\ r = Check(Entry(rest).p, o, o.qty)
  OBVIOUS
<1>2. /\ rest \in Seq(Entered)
      /\ \A s \in Locations, d \in Ahead : Total(Promised(rest))[s][d] = Total(Promised(os))[s][d] - os[i].at[s][d]
  BY <1>1, RemovedIs, TotalWithout
<1>3. os[i].at \in Lines /\ \A s \in Locations, d \in Ahead : os[i].at[s][d] \in Nat
  <2>1. os[i].at \in Lines
    BY OrdersAre
  <2>. QED  BY <2>1 DEF Lines
<1>4. \A s \in Locations, d \in Ahead : Total(Promised(rest))[s][d] <= Total(Promised(os))[s][d]
  BY <1>2, <1>3, TotalsAre
<1>5. /\ Taken(o, r.at) \in Entered /\ Taken(o, r.at).at = r.at /\ r.p \in Floored(Floors(os)) /\ r.at \in Lines
      /\ \A s \in Locations, d \in Ahead : Total(Promised(rest))[s][d] + r.at[s][d] <= r.p.out[s][d]
  BY <1>1, <1>2, <1>4, CheckedAfter
<1>6. PICK t : t = Taken(o, r.at) /\ t \in Entered /\ t.at = r.at /\ now = [os EXCEPT ![i] = t]
  BY <1>1, <1>5
<1>7. PICK n : n = Len(os) /\ n \in Nat /\ DOMAIN os = 1..n /\ IsFiniteSet(1..n)
  BY OrdersAre
<1>8. /\ now \in [1..n -> Entered] /\ now[i] = t /\ \A j \in (1..n) \ {i} : now[j] = os[j]
  BY <1>6, <1>7
<1>9. now \in Seq(Entered) /\ DOMAIN now = 1..n
  BY <1>7, <1>8
<1>10. ASSUME NEW s \in Locations, NEW d \in Ahead PROVE Total(Promised(now))[s][d] <= r.p.out[s][d]
  <2>1. PICK I, a, b : I = 1..n /\ a = Promised(os) /\ b = Promised(now)
    OBVIOUS
  <2>2. IsFiniteSet(I) /\ a \in [I -> Days] /\ b \in [I -> Days] /\ i \in I
    BY <1>7, <1>9, <2>1, OrdersAre
  <2>3. a[i] = os[i].at /\ b[i] = r.at /\ \A j \in I \ {i} : b[j] = a[j]
    BY <1>6, <1>7, <1>8, <1>9, <2>1 DEF Promised
  <2>4. Total(b)[s][d] = Total(a)[s][d] - a[i][s][d] + b[i][s][d]
    BY <2>2, <2>3, TotalChanged
  <2>. QED  BY <1>2, <1>5, <2>1, <2>3, <2>4
<1>. QED  BY <1>5, <1>9, <1>10 DEF Covers

\* An order cancelled gives up what it had.
LEMMA Cancelled ==
    ASSUME supply \in Days, NEW os \in Seq(Entered), NEW i \in DOMAIN os, NEW now, now = RemoveAt(os, i)
    PROVE  Covers(os, now)
<1>1. /\ now \in Seq(Entered)
      /\ \A s \in Locations, d \in Ahead : Total(Promised(now))[s][d] = Total(Promised(os))[s][d] - os[i].at[s][d]
  BY RemovedIs, TotalWithout
<1>2. \A s \in Locations, d \in Ahead : os[i].at[s][d] \in Nat
  <2>1. os[i].at \in Lines
    BY OrdersAre
  <2>. QED  BY <2>1 DEF Lines
<1>3. PICK p : p \in Pictures /\ p.out = Total(Promised(now))
  <2>1. PICK t : t = Total(Promised(now)) /\ t \in Days
    BY <1>1, OrdersAre
  <2>2. [k \in DOMAIN Periods |-> 0] \in Counts
    BY DEF Counts
  <2>3. [out |-> t, used |-> [k \in DOMAIN Periods |-> 0]] \in Pictures
    BY <2>1, <2>2 DEF Pictures
  <2>. QED  BY <2>1, <2>3
<1>4. \A s \in Locations, d \in Ahead : Total(Promised(now))[s][d] \in Int /\ Total(Promised(os))[s][d] \in Int
  BY <1>1, TotalsAre
<1>5. \A s \in Locations, d \in Ahead : p.out[s][d] <= Total(Promised(os))[s][d]
  BY <1>1, <1>2, <1>3, <1>4
<1>6. p \in Floored(Floors(os))
  BY <1>3, <1>5, FlooredIs
<1>7. \A s \in Locations, d \in Ahead : Total(Promised(now))[s][d] <= p.out[s][d]
  BY <1>3, <1>4
<1>. QED  BY <1>1, <1>6, <1>7 DEF Covers

\* A committed entry run.
LEMMA Committed ==
    ASSUME supply \in Days, NEW os \in Seq(Entered)
    PROVE  Covers(os, Entry(os).os)
<1>1. \A s \in Locations, d \in Ahead : Total(Promised(os))[s][d] <= Total(Promised(os))[s][d]
  BY TotalsAre
<1>2. PICK e : e = Entry(os) /\ e \in EntryTo(os, Floors(os), Len(os))
  BY <1>1, EntryIs
<1>3. e.p \in Floored(Floors(os)) /\ e.os \in Seq(Entered) /\ e.p.out = Total(Promised(e.os))
  BY <1>2 DEF EntryTo
<1>4. \A s \in Locations, d \in Ahead : Total(Promised(e.os))[s][d] <= e.p.out[s][d]
  BY <1>3, TotalsAre
<1>. QED  BY <1>2, <1>3, <1>4 DEF Covers

\* A backorder run.
LEMMA ProcessedCovers ==
    ASSUME supply \in Days, NEW os \in Seq(Entered)
    PROVE  Covers(os, Processed(os))
<1>1. PICK now, p : /\ now = Processed(os) /\ now \in Seq(Entered)
                    /\ p \in Floored(Floors(os)) /\ p.out = Total(Promised(now))
  BY ProcessedIs
<1>2. \A s \in Locations, d \in Ahead : Total(Promised(now))[s][d] <= p.out[s][d]
  BY <1>1, TotalsAre
<1>. QED  BY <1>1, <1>2 DEF Covers

-----------------------------------------------------------------------------
(* The theorems.                                                              *)

\* What every step keeps.
PromiseInv == supply \in Lines /\ orders \in Seq(Entered)

\* The supply there may be is no deficit.
LEMMA ExpectedLines ==
    Expected \subseteq Lines
BY PromisingAssumption DEF Lines, Locations, Ahead

\* Whatever the step, it is covered.
LEMMA StepCovers ==
    ASSUME PromiseInv, AcceptOrder \/ ChangeOrder \/ CancelOrder \/ CommitEntry \/ Backorders
    PROVE  Covers(orders, orders') /\ supply' = supply
<1>1. supply \in Days /\ orders \in Seq(Entered)
  BY LinesAreDays DEF PromiseInv
<1>2. CASE AcceptOrder
  <2>1. PICK o \in Asked : orders' = Append(orders, Taken(o, Check(Entry(orders).p, o, o.qty).at))
    BY <1>2 DEF AcceptOrder
  <2>. QED  BY <1>1, <1>2, <2>1, Accepted DEF AcceptOrder
<1>3. CASE ChangeOrder
  <2>1. PICK i \in DOMAIN orders, o \in Asked :
            /\ orders' = [orders EXCEPT ![i] = Taken(o, Check(Entry(RemoveAt(orders, i)).p, o, o.qty).at)]
            /\ supply' = supply
    BY <1>3 DEF ChangeOrder
  <2>. QED  BY <1>1, <2>1, Changed
<1>4. CASE CancelOrder
  BY <1>1, <1>4, Cancelled DEF CancelOrder
<1>5. CASE CommitEntry
  BY <1>1, <1>5, Committed DEF CommitEntry
<1>6. CASE Backorders
  BY <1>1, <1>6, ProcessedCovers DEF Backorders
<1>. QED  BY <1>2, <1>3, <1>4, <1>5, <1>6

\* Every step keeps the invariant.
LEMMA PromiseInvStep ==
    PromiseInv /\ [PromiseNext]_promiseVars => PromiseInv'
<1>. SUFFICES ASSUME PromiseInv, [PromiseNext]_promiseVars PROVE PromiseInv'
  OBVIOUS
<1>1. CASE AcceptOrder \/ ChangeOrder \/ CancelOrder \/ CommitEntry \/ Backorders
  BY <1>1, StepCovers DEF PromiseInv, Covers
<1>2. CASE SupplyChanges
  BY <1>2, ExpectedLines DEF SupplyChanges, PromiseInv
<1>3. CASE UNCHANGED promiseVars
  BY <1>3 DEF promiseVars, PromiseInv
<1>. QED  BY <1>1, <1>2, <1>3 DEF PromiseNext

\* In every reachable state supply is a quantity by location and day, and the orders are as customers asked for them,
\* with no more confirmed than asked: what entry, change, commit and backorder runs (engine.py, run.py) lead to.
THEOREM PromisesAlways == PromiseSpec => []PromiseInv
<1>1. PromiseInit => PromiseInv
  BY ExpectedLines DEF PromiseInit, PromiseInv
<1>. QED  BY <1>1, PromiseInvStep, PTL DEF PromiseSpec

\* So every variable holds values of its kind, and no order is promised more than it asks for, whatever is asked,
\* allocated and expected (orders.py, what is saved on an order).
THEOREM PromisesTyped == PromiseSpec => []PromiseTypeOK
<1>1. PromiseInv => PromiseTypeOK
  <2>. SUFFICES ASSUME PromiseInv PROVE PromiseTypeOK
    OBVIOUS
  <2>1. \A i \in DOMAIN orders : orders[i] \in Entered
    BY DEF PromiseInv
  <2>2. \A i \in DOMAIN orders : /\ \E o \in Asked : orders[i] = Taken(o, orders[i].at)
                                 /\ orders[i].at \in Lines /\ InAll(orders[i].at) <= orders[i].qty
    BY <2>1, EnteredIs
  <2>. QED  BY <2>2 DEF PromiseTypeOK, PromiseInv, Lines
<1>. QED  BY <1>1, PromisesAlways, PTL

\* Accepting, changing, cancelling, committing and processing backorders leave no day of the window that a location
\* checks with less than nothing that had more before (atp.py, available: nothing is taken that breaks a promise for a later
\* day), for every horizon, lead time, allocation, segmentation and number of orders.
THEOREM NoDayShorter == PromiseSpec => NoShorter
<1>1. PromiseInv /\ [PromiseNext]_promiseVars =>
        [orders' # orders /\ supply' = supply => \A s \in Locations : \A j \in Window(s) :
             Balance(orders', s, j) >= 0 \/ Balance(orders', s, j) >= Balance(orders, s, j)]_promiseVars
  <2>. SUFFICES ASSUME PromiseInv, PromiseNext, orders' # orders
                PROVE  \A s \in Locations : \A j \in Window(s) :
                           Balance(orders', s, j) >= 0 \/ Balance(orders', s, j) >= Balance(orders, s, j)
    OBVIOUS
  <2>1. AcceptOrder \/ ChangeOrder \/ CancelOrder \/ CommitEntry \/ Backorders
    BY DEF PromiseNext, SupplyChanges
  <2>2. Covers(orders, orders')
    BY <2>1, StepCovers
  <2>3. supply \in Days /\ orders \in Seq(Entered)
    BY LinesAreDays DEF PromiseInv
  <2>. QED  BY <2>2, <2>3, FloorsHold DEF Covers
<1>. QED  BY <1>1, PromisesAlways, PTL DEF PromiseSpec, NoShorter
===============================================================================
