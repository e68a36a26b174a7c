--------------------------------- MODULE Sums ---------------------------------
(* Facts about the sum of a function's values over a finite set of indices      *)
(* (SumFunctionOnSet of Functions), which the quantities of the company's       *)
(* documents are added up with. The sum is a recursive function over the        *)
(* subsets of the set; what it does is proved from a smallest counterexample.   *)
EXTENDS Integers, Sequences, FiniteSets, FiniteSetsExt, Functions, FiniteSetTheorems, NaturalsInduction, WellFoundedInduction, TLAPS

\* A set of naturals that is not empty has a least element.
LEMMA LeastOf ==
    ASSUME NEW T, T \subseteq Nat, T # {}
    PROVE  \E x \in T : \A y \in T : x <= y
<1>1. PICK R : R = OpToRel(<, Nat)
  OBVIOUS
<1>2. IsWellFoundedOn(R, Nat)
  BY <1>1, NatLessThanWellFounded
<1>3. PICK x \in T : \A y \in T : ~(<<y, x>> \in R)
  BY <1>2, WFMin
<1>4. \A y \in Nat : y < x => <<y, x>> \in R
  BY <1>1 DEF OpToRel
<1>5. x \in Nat /\ \A y \in T : y \in Nat /\ ~(y < x)
  BY <1>3, <1>4
<1>. QED  BY <1>5

\* A finite set of integers that is not empty has a greatest element, which Max gives.
LEMMA GreatestOf ==
    ASSUME NEW T, T \subseteq Int, T # {}, IsFiniteSet(T)
    PROVE  /\ \E x \in T : \A y \in T : y <= x
           /\ Max(T) \in T /\ \A y \in T : y <= Max(T)
<1>. DEFINE Below(x) == {y \in T : ~(y <= x)}
            Sizes == {Cardinality(Below(x)) : x \in T}
<1>1. \A x \in T : IsFiniteSet(Below(x)) /\ Cardinality(Below(x)) \in Nat
  BY FS_Subset, FS_CardinalityType
<1>2. Sizes \subseteq Nat /\ Sizes # {}
  <2>. HIDE DEF Below
  <2>. QED  BY <1>1
<1>3. PICK m \in Sizes : \A n \in Sizes : m <= n
  <2>. HIDE DEF Sizes
  <2>. QED  BY <1>2, LeastOf
<1>4. PICK x \in T : m = Cardinality(Below(x))
  BY <1>3
<1>5. \A y \in T : y <= x
  <2>. SUFFICES ASSUME NEW y \in T, ~(y <= x) PROVE FALSE
    OBVIOUS
  <2>1. Below(y) \subseteq Below(x) /\ y \in Below(x) /\ y \notin Below(y)
    <3>1. x \in Int /\ y \in Int /\ \A z \in T : z \in Int
      OBVIOUS
    <3>2. \A z \in T : ~(z <= y) => ~(z <= x)
      BY <3>1
    <3>3. ~(y <= x) /\ y <= y
      BY <3>1
    <3>4. Below(y) \subseteq Below(x)
      BY <3>2
    <3>5. y \in Below(x) /\ y \notin Below(y)
      BY <3>3
    <3>. QED  BY <3>4, <3>5
  <2>2. PICK A, B : A = Below(y) /\ B = Below(x) /\ IsFiniteSet(B) /\ A \subseteq B /\ A # B
    <3>. HIDE DEF Below
    <3>. QED  BY <1>1, <2>1
  <2>3. Cardinality(A) < Cardinality(B)
    <3>1. A \in SUBSET B /\ Cardinality(A) \in Nat /\ Cardinality(B) \in Nat
      BY <2>2, FS_Subset, FS_CardinalityType
    <3>2. Cardinality(A) <= Cardinality(B) /\ Cardinality(A) # Cardinality(B)
      BY <2>2, <3>1, FS_Subset
    <3>. QED  BY <3>1, <3>2
  <2>4. Cardinality(A) \in Sizes /\ Cardinality(A) \in Nat /\ Cardinality(B) \in Nat
    <3>. HIDE DEF Below
    <3>. QED  BY <1>1, <2>2
  <2>5. m = Cardinality(B) /\ m <= Cardinality(A)
    <3>. HIDE DEF Below, Sizes
    <3>. QED  BY <1>3, <1>4, <2>2, <2>4
  <2>. QED  BY <2>3, <2>4, <2>5
<1>6. Max(T) \in T /\ \A y \in T : Max(T) >= y
  BY <1>5 DEF Max
<1>. QED  BY <1>5, <1>6

\* The values of a function on a finite set are finitely many.
LEMMA ImageFinite ==
    ASSUME NEW S, IsFiniteSet(S), NEW f
    PROVE  IsFiniteSet({f[x] : x \in S})
<1>1. PICK T : T = {f[x] : x \in S}
  OBVIOUS
<1>2. PICK g : g = [x \in S |-> f[x]]
  OBVIOUS
<1>3. g \in Surjection(S, T)
  BY <1>1, <1>2 DEF Surjection
<1>. QED  BY <1>1, <1>3, FS_Surjection

\* The element taken from a set next.
Some(S) == CHOOSE x \in S : TRUE

\* g sums f over each of the sets in D, which lacks none that its sets lead to.
Adds(g, f, D) ==
    g = [s \in D |-> IF s = {} THEN 0 ELSE f[Some(s)] + g[s \ {Some(s)}]]

\* g sums f over every subset of S.
AddsIn(g, f, S) == Adds(g, f, SUBSET S)

LEMMA SumIs ==
    ASSUME NEW f, NEW S
    PROVE  SumFunctionOnSet(f, S) = (CHOOSE g : AddsIn(g, f, S))[S]
BY DEF SumFunctionOnSet, FoldFunctionOnSet, MapThenFoldSet, AddsIn, Adds, Some

-----------------------------------------------------------------------------
(* The recursion has a solution, and one only.                                *)

\* One element less of a finite set.
LEMMA OneLess ==
    ASSUME NEW S, IsFiniteSet(S), S # {}
    PROVE  /\ Some(S) \in S /\ IsFiniteSet(S \ {Some(S)})
           /\ Cardinality(S) \in Nat \ {0}
           /\ Cardinality(S \ {Some(S)}) = Cardinality(S) - 1
<1>1. Some(S) \in S
  BY DEF Some
<1>. QED  BY <1>1, FS_CardinalityType, FS_EmptySet, FS_RemoveElement

\* Of some finite sets, one that no smaller one is of.
LEMMA LeastSet ==
    ASSUME NEW D, D # {}, \A V \in D : IsFiniteSet(V)
    PROVE  \E V \in D : /\ IsFiniteSet(V)
                       /\ \A W \in SUBSET V : Cardinality(W) < Cardinality(V) => W \notin D
<1>. DEFINE Sizes == {Cardinality(V) : V \in D}
<1>1. Sizes \subseteq Nat /\ Sizes # {}
  BY FS_CardinalityType
<1>2. PICK m \in Sizes : \A k \in Sizes : m <= k
  <2>. HIDE DEF Sizes
  <2>. QED  BY <1>1, LeastOf
<1>3. PICK V \in D : m = Cardinality(V)
  BY <1>2
<1>4. \A W \in D : ~(Cardinality(W) < Cardinality(V))
  <2>. SUFFICES ASSUME NEW W \in D PROVE ~(Cardinality(W) < Cardinality(V))
    OBVIOUS
  <2>1. Cardinality(W) \in Nat /\ Cardinality(V) \in Nat /\ Cardinality(W) \in Sizes
    BY FS_CardinalityType
  <2>. QED  BY <1>2, <1>3, <2>1
<1>. QED  BY <1>3, <1>4

\* Taking an element leaves a smaller set.
LEMMA SmallerWithout ==
    ASSUME NEW S, IsFiniteSet(S), NEW x \in S
    PROVE  /\ IsFiniteSet(S \ {x}) /\ S \ {x} \in SUBSET S
           /\ Cardinality(S \ {x}) < Cardinality(S)
<1>1. Cardinality(S) \in Nat /\ Cardinality(S \ {x}) = Cardinality(S) - 1 /\ IsFiniteSet(S \ {x})
  BY FS_CardinalityType, FS_RemoveElement
<1>. QED  BY <1>1

\* The subsets of S with n elements at most.
UpTo(S, n) == {T \in SUBSET S : Cardinality(T) <= n}

LEMMA AddsUpTo ==
    ASSUME NEW f, NEW S, IsFiniteSet(S), NEW n \in Nat
    PROVE  \E g : Adds(g, f, UpTo(S, n))
<1>. USE DEF UpTo
<1>. DEFINE Upto(k) == UpTo(S, k)
            Bad == {k \in Nat : ~\E g : Adds(g, f, Upto(k))}
<1>. SUFFICES ASSUME Bad # {} PROVE FALSE
  OBVIOUS
<1>1. PICK m \in Nat : m \in Bad /\ \A k \in Bad : m <= k
  <2>1. Bad \subseteq Nat
    OBVIOUS
  <2>. HIDE DEF Bad
  <2>. QED  BY <2>1, LeastOf
<1>2. CASE m = 0
  <2>1. PICK g : g = [s \in Upto(0) |-> 0]
    OBVIOUS
  <2>2. \A T \in Upto(0) : T = {}
    <3>. SUFFICES ASSUME NEW T \in Upto(0) PROVE T = {}
      OBVIOUS
    <3>1. IsFiniteSet(T) /\ Cardinality(T) \in Nat
      BY FS_Subset, FS_CardinalityType
    <3>. QED  BY <3>1, FS_EmptySet
  <2>3. g = [s \in Upto(0) |-> IF s = {} THEN 0 ELSE f[Some(s)] + g[s \ {Some(s)}]]
    BY <2>1, <2>2
  <2>. QED  BY <1>1, <1>2, <2>3 DEF Adds
<1>3. CASE m # 0
  <2>1. m - 1 \in Nat /\ m - 1 \notin Bad
    <3>. HIDE DEF Bad
    <3>1. m - 1 \in Nat /\ ~(m <= m - 1)
      BY <1>3
    <3>. QED  BY <1>1, <3>1
  <2>2. PICK g : Adds(g, f, Upto(m - 1))
    BY <2>1
  <2>3. PICK h : h = [s \in Upto(m) |-> IF s = {} THEN 0 ELSE f[Some(s)] + g[s \ {Some(s)}]]
    OBVIOUS
  <2>4. \A T \in Upto(m) : T # {} => T \ {Some(T)} \in Upto(m - 1)
    <3>. SUFFICES ASSUME NEW T \in Upto(m), T # {} PROVE T \ {Some(T)} \in Upto(m - 1)
      OBVIOUS
    <3>1. IsFiniteSet(T)
      BY FS_Subset
    <3>2. Some(T) \in T /\ Cardinality(T \ {Some(T)}) = Cardinality(T) - 1 /\ Cardinality(T) \in Nat
      BY <3>1, OneLess
    <3>3. Cardinality(T) - 1 <= m - 1
      BY <3>2
    <3>. QED  BY <3>2, <3>3
  <2>5. \A T \in Upto(m - 1) : T \in Upto(m) /\ g[T] = h[T]
    <3>. SUFFICES ASSUME NEW T \in Upto(m - 1) PROVE T \in Upto(m) /\ g[T] = h[T]
      OBVIOUS
    <3>1. IsFiniteSet(T) /\ Cardinality(T) \in Nat
      BY FS_Subset, FS_CardinalityType
    <3>2. T \in Upto(m)
      BY <3>1, <1>1
    <3>. HIDE DEF Upto
    <3>3. g[T] = IF T = {} THEN 0 ELSE f[Some(T)] + g[T \ {Some(T)}]
      BY <2>2 DEF Adds
    <3>. QED  BY <2>3, <3>2, <3>3
  <2>. HIDE DEF Upto, UpTo
  <2>6. \A s \in Upto(m) : s # {} => g[s \ {Some(s)}] = h[s \ {Some(s)}]
    BY <2>4, <2>5
  <2>7. h = [s \in Upto(m) |-> IF s = {} THEN 0 ELSE f[Some(s)] + h[s \ {Some(s)}]]
    BY <2>3, <2>6
  <2>. QED  BY <1>1, <2>7 DEF Adds
<1>. QED  BY <1>2, <1>3

LEMMA AddsOver ==
    ASSUME NEW f, NEW S, IsFiniteSet(S)
    PROVE  \E g : AddsIn(g, f, S)
<1>1. PICK n \in Nat : n = Cardinality(S)
  BY FS_CardinalityType
<1>2. SUBSET S = UpTo(S, n)
  BY <1>1, FS_Subset DEF UpTo
<1>3. PICK g : Adds(g, f, UpTo(S, n))
  BY AddsUpTo
<1>. QED  BY <1>2, <1>3 DEF AddsIn

LEMMA AddsAlike ==
    ASSUME NEW f, NEW S, IsFiniteSet(S), NEW T, NEW g, AddsIn(g, f, S), NEW h, AddsIn(h, f, T),
           T \subseteq S
    PROVE  \A U \in SUBSET T : g[U] = h[U]
<1>. DEFINE Differ == {V \in SUBSET T : g[V] # h[V]}
<1>. SUFFICES ASSUME Differ # {} PROVE FALSE
  OBVIOUS
<1>1. \A V \in Differ : IsFiniteSet(V)
  BY FS_Subset
<1>2. PICK V \in Differ : /\ IsFiniteSet(V)
                         /\ \A W \in SUBSET V : Cardinality(W) < Cardinality(V) => W \notin Differ
  <2>. HIDE DEF Differ
  <2>. QED  BY <1>1, LeastSet
<1>3. /\ g[V] = IF V = {} THEN 0 ELSE f[Some(V)] + g[V \ {Some(V)}]
      /\ h[V] = IF V = {} THEN 0 ELSE f[Some(V)] + h[V \ {Some(V)}]
  BY DEF AddsIn, Adds
<1>4. V # {} /\ Some(V) \in V
  BY <1>3 DEF Some
<1>5. V \ {Some(V)} \in SUBSET V /\ V \ {Some(V)} \notin Differ
  <2>. HIDE DEF Differ
  <2>. QED  BY <1>2, <1>4, SmallerWithout
<1>6. g[V \ {Some(V)}] = h[V \ {Some(V)}]
  BY <1>5
<1>. QED  BY <1>3, <1>6

-----------------------------------------------------------------------------
(* What the sum does.                                                         *)

LEMMA SumEmpty ==
    ASSUME NEW f
    PROVE  SumFunctionOnSet(f, {}) = 0
<1>1. PICK g : AddsIn(g, f, {}) /\ SumFunctionOnSet(f, {}) = g[{}]
  BY AddsOver, SumIs, FS_EmptySet
<1>. QED  BY <1>1 DEF AddsIn, Adds

LEMMA SumStep ==
    ASSUME NEW f, NEW S, IsFiniteSet(S), S # {}
    PROVE  SumFunctionOnSet(f, S) = f[Some(S)] + SumFunctionOnSet(f, S \ {Some(S)})
<1>1. PICK T : T = S \ {Some(S)} /\ T \subseteq S /\ IsFiniteSet(T)
  <2>1. S \ {Some(S)} \subseteq S /\ IsFiniteSet(S \ {Some(S)})
    BY OneLess
  <2>. QED  BY <2>1
<1>2. PICK g : AddsIn(g, f, S) /\ SumFunctionOnSet(f, S) = g[S]
  BY AddsOver, SumIs
<1>3. PICK h : AddsIn(h, f, T) /\ SumFunctionOnSet(f, T) = h[T]
  BY <1>1, AddsOver, SumIs
<1>4. g[T] = h[T]
  <2>1. \A U \in SUBSET T : g[U] = h[U]
    BY <1>1, <1>2, <1>3, AddsAlike
  <2>2. T \in SUBSET T
    OBVIOUS
  <2>. QED  BY <2>1, <2>2
<1>5. g[S] = f[Some(S)] + g[T]
  BY <1>1, <1>2 DEF AddsIn, Adds
<1>. QED  BY <1>1, <1>2, <1>3, <1>4, <1>5

\* Integers add up to one.
LEMMA SumInt ==
    ASSUME NEW f, NEW S, IsFiniteSet(S), \A x \in S : f[x] \in Int
    PROVE  SumFunctionOnSet(f, S) \in Int
<1>. DEFINE Differ == {V \in SUBSET S : SumFunctionOnSet(f, V) \notin Int}
<1>. SUFFICES ASSUME Differ # {} PROVE FALSE
  OBVIOUS
<1>1. \A V \in Differ : IsFiniteSet(V)
  BY FS_Subset
<1>2. PICK V \in Differ : /\ IsFiniteSet(V)
                         /\ \A W \in SUBSET V : Cardinality(W) < Cardinality(V) => W \notin Differ
  <2>. HIDE DEF Differ
  <2>. QED  BY <1>1, LeastSet
<1>3. V # {} /\ Some(V) \in V
  BY SumEmpty DEF Some
<1>4. SumFunctionOnSet(f, V) = f[Some(V)] + SumFunctionOnSet(f, V \ {Some(V)})
  BY <1>2, <1>3, SumStep
<1>5. V \ {Some(V)} \in SUBSET V /\ V \ {Some(V)} \notin Differ
  <2>. HIDE DEF Differ
  <2>. QED  BY <1>2, <1>3, SmallerWithout
<1>6. SumFunctionOnSet(f, V \ {Some(V)}) \in Int
  BY <1>5
<1>. QED  BY <1>3, <1>4, <1>6

\* Whichever element is taken first.
LEMMA SumRemove ==
    ASSUME NEW f, NEW S, IsFiniteSet(S), \A x \in S : f[x] \in Int, NEW e \in S
    PROVE  SumFunctionOnSet(f, S) = f[e] + SumFunctionOnSet(f, S \ {e})
<1>. DEFINE Off(V, x) == SumFunctionOnSet(f, V) # f[x] + SumFunctionOnSet(f, V \ {x})
            Differ == {V \in SUBSET S : \E x \in V : Off(V, x)}
<1>. SUFFICES ASSUME Differ # {} PROVE FALSE
  OBVIOUS
<1>1. \A V \in Differ : IsFiniteSet(V)
  BY FS_Subset
<1>2. PICK V \in Differ : /\ IsFiniteSet(V)
                         /\ \A W \in SUBSET V : Cardinality(W) < Cardinality(V) => W \notin Differ
  <2>. HIDE DEF Differ
  <2>. QED  BY <1>1, LeastSet
<1>3. PICK x \in V : Off(V, x)
  OBVIOUS
<1>4. PICK c \in V : c = Some(V)
  BY <1>3 DEF Some
<1>5. SumFunctionOnSet(f, V) = f[c] + SumFunctionOnSet(f, V \ {c})
  BY <1>2, <1>4, SumStep
<1>6. c # x
  BY <1>3, <1>5
<1>7. ~Off(V \ {c}, x) /\ ~Off(V \ {x}, c)
  <2>1. V \ {c} \notin Differ /\ V \ {x} \notin Differ
    <3>. HIDE DEF Differ
    <3>. QED  BY <1>2, SmallerWithout
  <2>2. V \ {c} \in SUBSET S /\ V \ {x} \in SUBSET S /\ x \in V \ {c} /\ c \in V \ {x}
    BY <1>6
  <2>. HIDE DEF Off
  <2>. QED  BY <2>1, <2>2
<1>8. PICK C : C = V \ {c, x} /\ (V \ {c}) \ {x} = C /\ (V \ {x}) \ {c} = C
  <2>1. (V \ {c}) \ {x} = V \ {c, x} /\ (V \ {x}) \ {c} = V \ {c, x}
    OBVIOUS
  <2>. QED  BY <2>1
<1>9. SumFunctionOnSet(f, C) \in Int /\ f[c] \in Int /\ f[x] \in Int
  <2>1. C \subseteq S /\ IsFiniteSet(C)
    BY <1>8, FS_Subset
  <2>. QED  BY <2>1, SumInt
<1>10. SumFunctionOnSet(f, V) = f[c] + (f[x] + SumFunctionOnSet(f, C))
  BY <1>5, <1>7, <1>8
<1>11. SumFunctionOnSet(f, V \ {x}) = f[c] + SumFunctionOnSet(f, C)
  BY <1>7, <1>8
<1>. QED  BY <1>3, <1>9, <1>10, <1>11

\* One index more, and one less.
LEMMA SumWith ==
    ASSUME NEW f, NEW S, IsFiniteSet(S), NEW e, e \notin S, \A x \in S \cup {e} : f[x] \in Int
    PROVE  /\ IsFiniteSet(S \cup {e})
           /\ SumFunctionOnSet(f, S \cup {e}) = SumFunctionOnSet(f, S) + f[e]
<1>1. PICK T : T = S \cup {e} /\ IsFiniteSet(T) /\ T \ {e} = S
  <2>1. (S \cup {e}) \ {e} = S /\ IsFiniteSet(S \cup {e})
    BY FS_AddElement
  <2>. QED  BY <2>1
<1>2. SumFunctionOnSet(f, T) = f[e] + SumFunctionOnSet(f, S)
  BY <1>1, SumRemove
<1>3. SumFunctionOnSet(f, S) \in Int /\ f[e] \in Int
  BY SumInt
<1>. QED  BY <1>1, <1>2, <1>3

\* The sum looks at the values of its indices only.
LEMMA SumSame ==
    ASSUME NEW f, NEW g, NEW S, IsFiniteSet(S), \A x \in S : f[x] = g[x]
    PROVE  SumFunctionOnSet(f, S) = SumFunctionOnSet(g, S)
<1>. DEFINE Differ == {V \in SUBSET S : SumFunctionOnSet(f, V) # SumFunctionOnSet(g, V)}
<1>. SUFFICES ASSUME Differ # {} PROVE FALSE
  OBVIOUS
<1>1. \A V \in Differ : IsFiniteSet(V)
  BY FS_Subset
<1>2. PICK V \in Differ : /\ IsFiniteSet(V)
                         /\ \A W \in SUBSET V : Cardinality(W) < Cardinality(V) => W \notin Differ
  <2>. HIDE DEF Differ
  <2>. QED  BY <1>1, LeastSet
<1>3. V # {} /\ Some(V) \in V
  BY SumEmpty DEF Some
<1>4. /\ SumFunctionOnSet(f, V) = f[Some(V)] + SumFunctionOnSet(f, V \ {Some(V)})
      /\ SumFunctionOnSet(g, V) = g[Some(V)] + SumFunctionOnSet(g, V \ {Some(V)})
  BY <1>2, <1>3, SumStep
<1>5. V \ {Some(V)} \in SUBSET V /\ V \ {Some(V)} \notin Differ
  <2>. HIDE DEF Differ
  <2>. QED  BY <1>2, <1>3, SmallerWithout
<1>. QED  BY <1>3, <1>4, <1>5

\* One value changed.
LEMMA SumChanged ==
    ASSUME NEW f, NEW g, NEW S, IsFiniteSet(S), \A x \in S : f[x] \in Int /\ g[x] \in Int,
           NEW e \in S, \A x \in S \ {e} : f[x] = g[x]
    PROVE  SumFunctionOnSet(g, S) = SumFunctionOnSet(f, S) - f[e] + g[e]
<1>1. PICK T : T = S \ {e} /\ IsFiniteSet(T)
  <2>1. IsFiniteSet(S \ {e})
    BY FS_RemoveElement
  <2>. QED  BY <2>1
<1>2. /\ SumFunctionOnSet(f, S) = f[e] + SumFunctionOnSet(f, T)
      /\ SumFunctionOnSet(g, S) = g[e] + SumFunctionOnSet(g, T)
  BY <1>1, SumRemove
<1>3. SumFunctionOnSet(f, T) = SumFunctionOnSet(g, T)
  BY <1>1, SumSame
<1>4. SumFunctionOnSet(f, T) \in Int /\ f[e] \in Int /\ g[e] \in Int
  BY <1>1, SumInt
<1>. QED  BY <1>2, <1>3, <1>4

\* A sum of values none of which is greater is not greater.
LEMMA SumLeq ==
    ASSUME NEW f, NEW g, NEW S, IsFiniteSet(S), \A x \in S : f[x] \in Int /\ g[x] \in Int /\ f[x] <= g[x]
    PROVE  SumFunctionOnSet(f, S) <= SumFunctionOnSet(g, S)
<1>. DEFINE Differ == {V \in SUBSET S : ~(SumFunctionOnSet(f, V) <= SumFunctionOnSet(g, V))}
<1>. SUFFICES ASSUME Differ # {} PROVE FALSE
  OBVIOUS
<1>1. \A V \in Differ : IsFiniteSet(V)
  BY FS_Subset
<1>2. PICK V \in Differ : /\ IsFiniteSet(V)
                         /\ \A W \in SUBSET V : Cardinality(W) < Cardinality(V) => W \notin Differ
  <2>. HIDE DEF Differ
  <2>. QED  BY <1>1, LeastSet
<1>3. V # {} /\ Some(V) \in V
  <2>1. SumFunctionOnSet(f, {}) = 0 /\ SumFunctionOnSet(g, {}) = 0
    BY SumEmpty
  <2>. QED  BY <2>1 DEF Some
<1>4. /\ SumFunctionOnSet(f, V) = f[Some(V)] + SumFunctionOnSet(f, V \ {Some(V)})
      /\ SumFunctionOnSet(g, V) = g[Some(V)] + SumFunctionOnSet(g, V \ {Some(V)})
  BY <1>2, <1>3, SumStep
<1>5. V \ {Some(V)} \in SUBSET V /\ V \ {Some(V)} \notin Differ
  <2>. HIDE DEF Differ
  <2>. QED  BY <1>2, <1>3, SmallerWithout
<1>6. PICK W : W = V \ {Some(V)} /\ W \subseteq S /\ IsFiniteSet(W)
  BY <1>5, FS_Subset
<1>7. SumFunctionOnSet(f, W) \in Int /\ SumFunctionOnSet(g, W) \in Int
  BY <1>6, SumInt
<1>. QED  BY <1>3, <1>4, <1>5, <1>6, <1>7

\* A sum in two parts.
LEMMA SumParts ==
    ASSUME NEW f, NEW S, NEW T, IsFiniteSet(S), IsFiniteSet(T), S \cap T = {}, \A x \in S \cup T : f[x] \in Int
    PROVE  /\ IsFiniteSet(S \cup T)
           /\ SumFunctionOnSet(f, S \cup T) = SumFunctionOnSet(f, S) + SumFunctionOnSet(f, T)
<1>. DEFINE Differ == {V \in SUBSET T : SumFunctionOnSet(f, S \cup V) # SumFunctionOnSet(f, S) + SumFunctionOnSet(f, V)}
<1>0. IsFiniteSet(S \cup T)
  BY FS_Union
<1>. SUFFICES ASSUME Differ # {} PROVE FALSE
  BY <1>0
<1>1. \A V \in Differ : IsFiniteSet(V)
  BY FS_Subset
<1>2. PICK V \in Differ : /\ IsFiniteSet(V)
                         /\ \A W \in SUBSET V : Cardinality(W) < Cardinality(V) => W \notin Differ
  <2>. HIDE DEF Differ
  <2>. QED  BY <1>1, LeastSet
<1>3. SumFunctionOnSet(f, S) \in Int
  BY SumInt
<1>4. V # {}
  <2>1. S \cup {} = S
    OBVIOUS
  <2>. QED  BY <1>3, <2>1, SumEmpty
<1>5. PICK e \in V : TRUE
  BY <1>4
<1>6. PICK W : W = V \ {e} /\ W \in SUBSET T /\ W \notin Differ /\ IsFiniteSet(W) /\ e \notin W /\ V = W \cup {e}
  <2>1. V \ {e} \notin Differ /\ IsFiniteSet(V \ {e})
    <3>. HIDE DEF Differ
    <3>. QED  BY <1>2, <1>5, SmallerWithout
  <2>2. V \ {e} \in SUBSET T /\ e \notin V \ {e} /\ V = (V \ {e}) \cup {e}
    BY <1>5
  <2>. HIDE DEF Differ
  <2>. QED  BY <2>1, <2>2
<1>7. SumFunctionOnSet(f, V) = SumFunctionOnSet(f, W) + f[e]
  BY <1>5, <1>6, SumWith, ZenonT(30)
<1>8. PICK U : U = S \cup W /\ IsFiniteSet(U) /\ e \notin U /\ U \cup {e} = S \cup V /\ U \subseteq S \cup T
  <2>1. IsFiniteSet(S \cup W)
    BY <1>6, FS_Union
  <2>2. e \notin S \cup W /\ (S \cup W) \cup {e} = S \cup V /\ S \cup W \subseteq S \cup T
    BY <1>5, <1>6
  <2>. QED  BY <2>1, <2>2
<1>9. SumFunctionOnSet(f, U \cup {e}) = SumFunctionOnSet(f, U) + f[e]
  <2>1. \A x \in U \cup {e} : f[x] \in Int
    BY <1>5, <1>8
  <2>. QED  BY <1>8, <2>1, SumWith
<1>10. SumFunctionOnSet(f, U) = SumFunctionOnSet(f, S) + SumFunctionOnSet(f, W)
  BY <1>6, <1>8
<1>11. SumFunctionOnSet(f, W) \in Int /\ f[e] \in Int
  BY <1>5, <1>6, SumInt
<1>12. SumFunctionOnSet(f, S \cup V) = SumFunctionOnSet(f, S) + SumFunctionOnSet(f, W) + f[e]
  BY <1>8, <1>9, <1>10
<1>13. SumFunctionOnSet(f, S) + SumFunctionOnSet(f, W) + f[e] = SumFunctionOnSet(f, S) + SumFunctionOnSet(f, V)
  BY <1>3, <1>7, <1>11
<1>14. SumFunctionOnSet(f, S \cup V) # SumFunctionOnSet(f, S) + SumFunctionOnSet(f, V)
  OBVIOUS
<1>. HIDE DEF Differ
<1>. QED  BY <1>12, <1>13, <1>14

\* Values that are not negative add up to no less than any of them, over more indices to no less.
LEMMA SumNat ==
    ASSUME NEW f, NEW S, IsFiniteSet(S), \A x \in S : f[x] \in Nat
    PROVE  /\ SumFunctionOnSet(f, S) \in Nat
           /\ \A e \in S : f[e] <= SumFunctionOnSet(f, S)
<1>. DEFINE Differ == {V \in SUBSET S : SumFunctionOnSet(f, V) \notin Nat}
<1>1. Differ = {}
  <2>. SUFFICES ASSUME Differ # {} PROVE FALSE
    OBVIOUS
  <2>1. \A V \in Differ : IsFiniteSet(V)
    BY FS_Subset
  <2>2. PICK V \in Differ : /\ IsFiniteSet(V)
                           /\ \A W \in SUBSET V : Cardinality(W) < Cardinality(V) => W \notin Differ
    <3>. HIDE DEF Differ
    <3>. QED  BY <2>1, LeastSet
  <2>3. V # {} /\ Some(V) \in V
    BY SumEmpty DEF Some
  <2>4. SumFunctionOnSet(f, V) = f[Some(V)] + SumFunctionOnSet(f, V \ {Some(V)})
    BY <2>2, <2>3, SumStep
  <2>5. V \ {Some(V)} \in SUBSET V /\ V \ {Some(V)} \notin Differ
    <3>. HIDE DEF Differ
    <3>. QED  BY <2>2, <2>3, SmallerWithout
  <2>6. SumFunctionOnSet(f, V \ {Some(V)}) \in Nat
    BY <2>5
  <2>7. f[Some(V)] \in Nat
    BY <2>3
  <2>8. SumFunctionOnSet(f, V) \in Nat
    BY <2>4, <2>6, <2>7
  <2>. QED  BY <2>8
<1>2. ASSUME NEW e \in S
      PROVE  f[e] <= SumFunctionOnSet(f, S)
  <2>1. PICK T : T = S \ {e} /\ T \in SUBSET S /\ IsFiniteSet(T)
    BY SmallerWithout
  <2>2. SumFunctionOnSet(f, T) \in Nat
    BY <1>1, <2>1
  <2>3. SumFunctionOnSet(f, S) = f[e] + SumFunctionOnSet(f, T)
    BY <2>1, SumRemove
  <2>. QED  BY <2>2, <2>3
<1>. QED  BY <1>1, <1>2

\* Zeros add up to zero.
LEMMA SumZero ==
    ASSUME NEW f, NEW S, IsFiniteSet(S), \A x \in S : f[x] = 0
    PROVE  SumFunctionOnSet(f, S) = 0
<1>. DEFINE Bad == {V \in SUBSET S : SumFunctionOnSet(f, V) # 0}
<1>1. SUFFICES ASSUME Bad # {} PROVE FALSE
  OBVIOUS
<1>2. \A V \in Bad : IsFiniteSet(V)
  BY FS_Subset
<1>3. PICK V \in Bad : /\ IsFiniteSet(V)
                       /\ \A W \in SUBSET V : Cardinality(W) < Cardinality(V) => W \notin Bad
  <2>. HIDE DEF Bad
  <2>. QED  BY <1>1, <1>2, LeastSet
<1>4. V # {}
  BY <1>3, SumEmpty
<1>5. PICK e \in V : TRUE
  BY <1>4
<1>6. SumFunctionOnSet(f, V) = f[e] + SumFunctionOnSet(f, V \ {e})
  <2>1. \A x \in V : f[x] \in Int
    OBVIOUS
  <2>. QED  BY <1>3, <2>1, SumRemove
<1>7. SumFunctionOnSet(f, V \ {e}) = 0
  BY <1>3, SmallerWithout
<1>. QED  BY <1>3, <1>6, <1>7

LEMMA SumMore ==
    ASSUME NEW f, NEW S, IsFiniteSet(S), \A x \in S : f[x] \in Nat, NEW T, T \subseteq S
    PROVE  SumFunctionOnSet(f, T) <= SumFunctionOnSet(f, S)
<1>1. PICK R : R = S \ T /\ IsFiniteSet(R) /\ IsFiniteSet(T) /\ R \cap T = {} /\ T \cup R = S
  <2>1. IsFiniteSet(S \ T) /\ IsFiniteSet(T)
    BY FS_Subset
  <2>2. (S \ T) \cap T = {} /\ T \cup (S \ T) = S
    OBVIOUS
  <2>. QED  BY <2>1, <2>2
<1>2. SumFunctionOnSet(f, T \cup R) = SumFunctionOnSet(f, T) + SumFunctionOnSet(f, R)
  <2>1. T \cap R = {} /\ \A x \in T \cup R : f[x] \in Int
    BY <1>1
  <2>. QED  BY <1>1, <2>1, SumParts
<1>3. SumFunctionOnSet(f, T) \in Nat /\ SumFunctionOnSet(f, R) \in Nat
  BY <1>1, SumNat
<1>4. SumFunctionOnSet(f, S) = SumFunctionOnSet(f, T) + SumFunctionOnSet(f, R)
  BY <1>1, <1>2
<1>. QED  BY <1>3, <1>4

-----------------------------------------------------------------------------
(* Lists, whose entries are added up.                                         *)

\* The places of a list.
LEMMA Places ==
    ASSUME NEW S, NEW s \in Seq(S), NEW T, T \subseteq DOMAIN s
    PROVE  IsFiniteSet(T) /\ T \subseteq Nat /\ \A k \in T : k >= 1 /\ k <= Len(s) /\ s[k] \in S
<1>1. DOMAIN s = 1..Len(s) /\ Len(s) \in Nat
  OBVIOUS
<1>2. IsFiniteSet(1..Len(s))
  BY <1>1, FS_Interval
<1>. QED  BY <1>1, <1>2, FS_Subset

\* One entry more at the end.
LEMMA OneMore ==
    ASSUME NEW S, NEW s \in Seq(S), NEW v \in S, NEW t, t = Append(s, v)
    PROVE  /\ t \in Seq(S) /\ Len(t) = Len(s) + 1 /\ t[Len(s) + 1] = v
           /\ Len(s) \in Nat /\ DOMAIN s = 1..Len(s) /\ DOMAIN t = 1..(Len(s) + 1)
           /\ \A k \in DOMAIN s : k \in DOMAIN t /\ t[k] = s[k] /\ k # Len(s) + 1
           /\ \A k \in DOMAIN t : k \in DOMAIN s \/ k = Len(s) + 1
OBVIOUS

\* A function on the first places is a list.
LEMMA ListOf ==
    ASSUME NEW S, NEW n \in Nat, NEW m, m = [k \in 1..n |-> m[k]], \A k \in 1..n : m[k] \in S
    PROVE  m \in Seq(S) /\ Len(m) = n /\ DOMAIN m = 1..n
<1>1. m \in [1..n -> S]
  OBVIOUS
<1>. QED  BY <1>1

\* The sum up to the next place.
LEMMA SumNext ==
    ASSUME NEW n \in Nat, NEW f, NEW g, \A x \in 1..n : f[x] \in Int /\ g[x] = f[x], g[n + 1] \in Int
    PROVE  /\ SumFunctionOnSet(f, 1..n) \in Int
           /\ SumFunctionOnSet(g, 1..(n + 1)) = SumFunctionOnSet(f, 1..n) + g[n + 1]
<1>1. PICK S : S = 1..n /\ IsFiniteSet(S)
  BY FS_Interval
<1>2. S \cup {n + 1} = 1..(n + 1) /\ n + 1 \notin S
  BY <1>1
<1>3. \A x \in S : f[x] \in Int /\ g[x] = f[x]
  BY <1>1
<1>4. SumFunctionOnSet(g, S) = SumFunctionOnSet(f, S) /\ SumFunctionOnSet(f, S) \in Int
  BY <1>1, <1>3, SumSame, SumInt
<1>5. SumFunctionOnSet(g, S \cup {n + 1}) = SumFunctionOnSet(g, S) + g[n + 1]
  <2>1. \A x \in S \cup {n + 1} : g[x] \in Int
    BY <1>3
  <2>. QED  BY <1>1, <1>2, <2>1, SumWith
<1>. QED  BY <1>1, <1>2, <1>4, <1>5
=============================================================================
