------------------------- MODULE CompanyStoreProofs -------------------------
(***************************************************************************)
(* What a company's saves promise, for every set of members, windows,      *)
(* documents and versions, and any number of saves, merges, put-backs and  *)
(* decisions:                                                              *)
(*   - a merge of two documents loses nothing of either (Merge3, Merging); *)
(*   - a company is never saved over a colleague unseen, and its master    *)
(*     data changes only with two people (CompanyStore). Both are          *)
(*     properties of a step and need little of the state it starts in;     *)
(*     they rest on what a merge, the split of master data and a held      *)
(*     change do to one record;                                            *)
(*   - a planning cycle's sign-offs stand in order, each on the frozen     *)
(*     version its figures are of (SopCycle, PlanVersions).                *)
(***************************************************************************)
EXTENDS CompanyStore, Merging, SopCycle, FiniteSetTheorems, SequenceTheorems, WellFoundedInduction, TLAPS

-----------------------------------------------------------------------------
(* Numbers.                                                                   *)

\* A set of numbers that is not empty has a least one.
LEMMA FirstOf ==
    ASSUME NEW T, T \subseteq Nat, T # {}
    PROVE  \E x \in T : \A y \in T : x <= y
<1>1. PICK R : R = OpToRel(<, Nat)
  OBVIOUS
<1>2. IsWellFoundedOn(R, Nat)
  BY <1>1, NatLessThanWellFounded
<1>3. PICK x \in T : \A y \in T : ~(<<y, x>> \in R)
  BY <1>2, WFMin
<1>4. \A y \in Nat : y < x => <<y, x>> \in R
  BY <1>1 DEF OpToRel
<1>5. x \in Nat /\ \A y \in T : y \in Nat /\ ~(y < x)
  BY <1>3, <1>4
<1>. QED  BY <1>5

\* A subset that lacks an element is smaller.
LEMMA Fewer ==
    ASSUME NEW S, IsFiniteSet(S), NEW T, T \subseteq S, T # S
    PROVE  Cardinality(T) < Cardinality(S) /\ Cardinality(T) \in Nat /\ Cardinality(S) \in Nat
<1>1. T \in SUBSET S /\ IsFiniteSet(T)
  BY FS_Subset
<1>2. Cardinality(T) \in Nat /\ Cardinality(S) \in Nat
  BY <1>1, FS_CardinalityType
<1>3. Cardinality(T) <= Cardinality(S) /\ Cardinality(T) # Cardinality(S)
  BY <1>1, FS_Subset
<1>. QED  BY <1>2, <1>3

\* The rank of a number in a finite set grows with it.
LEMMA RankGrows ==
    ASSUME NEW S, IsFiniteSet(S), S \subseteq Nat, NEW x \in S, NEW y \in S, x < y
    PROVE  Rank(x, S) < Rank(y, S)
<1>1. PICK A, B : A = {z \in S : z <= x} /\ B = {z \in S : z <= y}
  OBVIOUS
<1>2. x \in Nat /\ y \in Nat /\ \A z \in S : z \in Nat
  OBVIOUS
<1>3. A \subseteq B /\ y \in B /\ y \notin A
  <2>1. (\A z \in S : z <= x => z <= y) /\ y <= y /\ ~(y <= x)
    BY <1>2
  <2>. QED  BY <1>1, <2>1
<1>4. B \in SUBSET S
  BY <1>1
<1>5. IsFiniteSet(B)
  BY <1>4, FS_Subset
<1>6. Cardinality(A) < Cardinality(B)
  BY <1>3, <1>5, Fewer
<1>. QED  BY <1>1, <1>6 DEF Rank

LEMMA RankIs ==
    ASSUME NEW S, IsFiniteSet(S), S \subseteq Nat, NEW x \in S
    PROVE  Rank(x, S) \in Nat /\ Rank(x, S) > 0
<1>1. PICK A : A = {z \in S : z <= x}
  OBVIOUS
<1>2. x \in A /\ A \in SUBSET S /\ {} \subseteq A /\ {} # A
  BY <1>1
<1>3. IsFiniteSet(A)
  BY <1>2, FS_Subset
<1>4. Cardinality({}) < Cardinality(A) /\ Cardinality(A) \in Nat /\ Cardinality({}) = 0
  BY <1>2, <1>3, Fewer, FS_EmptySet
<1>. QED  BY <1>1, <1>4 DEF Rank

\* A finite set of numbers that is not empty has a greatest one: the one of
\* the highest rank.
LEMMA GreatestIs ==
    ASSUME NEW S, IsFiniteSet(S), S \subseteq Nat, S # {}
    PROVE  Greatest(S) \in S /\ \A y \in S : y <= Greatest(S)
<1>1. PICK n \in Nat : n = Cardinality(S)
  BY FS_CardinalityType
<1>2. \A x \in S : Rank(x, S) \in Nat /\ Rank(x, S) <= n
  <2>1. SUFFICES ASSUME NEW x \in S
                 PROVE  Rank(x, S) \in Nat /\ Rank(x, S) <= n
    OBVIOUS
  <2>2. PICK A : A = {z \in S : z <= x}
    OBVIOUS
  <2>3. A \in SUBSET S
    BY <2>2
  <2>4. Cardinality(A) <= Cardinality(S)
    BY <2>3, FS_Subset
  <2>. QED  BY <1>1, <2>2, <2>4, RankIs DEF Rank
<1>3. PICK T : T = {n - Rank(x, S) : x \in S}
  OBVIOUS
<1>4. T \subseteq Nat /\ T # {}
  <2>1. \A x \in S : n - Rank(x, S) \in Nat
    BY <1>2
  <2>. QED  BY <1>3, <2>1
<1>5. PICK t \in T : \A u \in T : t <= u
  BY <1>4, FirstOf
<1>6. PICK x \in S : t = n - Rank(x, S)
  BY <1>3, <1>5
<1>7. \A y \in S : y <= x
  <2>1. SUFFICES ASSUME NEW y \in S, ~(y <= x) PROVE FALSE
    OBVIOUS
  <2>2. x < y
    BY <2>1
  <2>3. Rank(x, S) < Rank(y, S)
    BY <2>2, RankGrows
  <2>4. n - Rank(y, S) \in T
    BY <1>3
  <2>5. PICK a, b : a = Rank(x, S) /\ b = Rank(y, S) /\ a \in Nat /\ b \in Nat
    BY <1>2
  <2>6. n - a <= n - b
    BY <1>5, <1>6, <2>4, <2>5
  <2>. QED  BY <2>3, <2>5, <2>6
<1>. QED  BY <1>7 DEF Greatest

\* The numbers of a series S of which those in M move to its end.
Placed(n, S, M) == IF n \in M THEN Greatest(S) + Rank(n, M) ELSE n

\* What moves goes past the series, and nothing goes where something else is.
PlacedApart(S, M) ==
    /\ \A n \in S : Placed(n, S, M) \in Nat /\ (n \notin M => Placed(n, S, M) = n)
    /\ \A n \in M : \A s \in S : s < Placed(n, S, M)
    /\ \A n, p \in S : Placed(n, S, M) = Placed(p, S, M) => n = p

LEMMA PlacesApart ==
    ASSUME NEW S, IsFiniteSet(S), S \subseteq Nat, NEW M, M \subseteq S
    PROVE  PlacedApart(S, M)
<1>1. IsFiniteSet(M) /\ M \subseteq Nat /\ M \in SUBSET S
  BY FS_Subset
<1>2. \A n \in M : Rank(n, M) \in Nat /\ Rank(n, M) > 0
  BY <1>1, RankIs
<1>3. S # {} => Greatest(S) \in Nat /\ \A s \in S : s <= Greatest(S)
  BY GreatestIs
<1>4. \A n \in S : Placed(n, S, M) \in Nat /\ (n \notin M => Placed(n, S, M) = n)
  BY <1>2, <1>3 DEF Placed
<1>5. \A n \in M : \A s \in S : s < Placed(n, S, M)
  <2>1. SUFFICES ASSUME NEW n \in M, NEW s \in S PROVE s < Placed(n, S, M)
    OBVIOUS
  <2>2. PICK g \in Nat, a \in Nat : g = Greatest(S) /\ a = Rank(n, M) /\ a > 0 /\ s <= g
    BY <1>2, <1>3
  <2>. QED  BY <2>2 DEF Placed
<1>6. \A n, p \in M : n < p => Placed(n, S, M) < Placed(p, S, M)
  <2>1. SUFFICES ASSUME NEW n \in M, NEW p \in M, n < p PROVE Placed(n, S, M) < Placed(p, S, M)
    OBVIOUS
  <2>2. PICK g \in Nat, a \in Nat, b \in Nat : g = Greatest(S) /\ a = Rank(n, M) /\ b = Rank(p, M)
    BY <1>2, <1>3
  <2>3. a < b
    BY <1>1, <2>1, <2>2, RankGrows
  <2>. QED  BY <2>2, <2>3 DEF Placed
<1>7. \A n, p \in S : Placed(n, S, M) = Placed(p, S, M) => n = p
  <2>1. SUFFICES ASSUME NEW n \in S, NEW p \in S, n < p PROVE Placed(n, S, M) # Placed(p, S, M)
    <3>1. \A n, p \in S : n = p \/ n < p \/ p < n
      OBVIOUS
    <3>. QED  BY <2>1, <3>1
  <2>2. Placed(n, S, M) \in Nat /\ Placed(p, S, M) \in Nat
    BY <1>4
  <2>3. CASE n \in M /\ p \in M
    BY <1>6, <2>1, <2>2, <2>3
  <2>4. CASE n \in M /\ p \notin M
    BY <1>4, <1>5, <2>2, <2>4
  <2>5. CASE n \notin M /\ p \in M
    BY <1>4, <1>5, <2>2, <2>5
  <2>6. CASE n \notin M /\ p \notin M
    BY <1>4, <2>1, <2>6
  <2>. QED  BY <2>3, <2>4, <2>5, <2>6
<1>. QED  BY <1>4, <1>5, <1>7 DEF PlacedApart

-----------------------------------------------------------------------------
(* Documents.                                                                 *)

\* Three of them.
Documents(base, mine, theirs) == Document(base) /\ Document(mine) /\ Document(theirs)

\* The values of a function on a finite set are finitely many.
LEMMA ImageFinite ==
    ASSUME NEW S, IsFiniteSet(S), NEW f
    PROVE  IsFiniteSet({f[x] : x \in S})
<1>1. PICK T : T = {f[x] : x \in S}
  OBVIOUS
<1>2. PICK g : g = [x \in S |-> f[x]]
  OBVIOUS
<1>3. g \in Surjection(S, T)
  BY <1>1, <1>2 DEF Surjection
<1>. QED  BY <1>1, <1>3, FS_Surjection

LEMMA OrderKeys ==
    ASSUME NEW d, Document(d)
    PROVE  /\ IsFiniteSet(Numbers(d)) /\ Numbers(d) \subseteq Nat
           /\ \A n \in Nat : n \in Numbers(d) <=> <<"order", n>> \in DOMAIN d
<1>1. PICK K : K = OfKind(d, "order")
  OBVIOUS
<1>2. K \in SUBSET DOMAIN d /\ IsFiniteSet(DOMAIN d)
  BY <1>1 DEF OfKind, Document
<1>3. IsFiniteSet(K)
  BY <1>2, FS_Subset
<1>4. PICK f : f = [k \in K |-> k[2]]
  OBVIOUS
<1>5. Numbers(d) = {f[k] : k \in K}
  BY <1>1, <1>4 DEF Numbers
<1>6. \A k \in K : k[2] \in Nat /\ k = <<"order", k[2]>>
  BY <1>1 DEF Document
<1>7. \A n \in Nat : <<"order", n>>[1] = "order" /\ <<"order", n>>[2] = n
  OBVIOUS
<1>8. \A n \in Nat : <<"order", n>> \in DOMAIN d => n \in Numbers(d)
  BY <1>1, <1>7 DEF OfKind, Numbers
<1>9. \A n \in Numbers(d) : n \in Nat /\ <<"order", n>> \in DOMAIN d
  BY <1>1, <1>2, <1>6 DEF Numbers
<1>10. IsFiniteSet({f[k] : k \in K})
  BY <1>3, ImageFinite
<1>. QED  BY <1>5, <1>8, <1>9, <1>10

LEMMA LineKeys ==
    ASSUME NEW d, Document(d), NEW n \in Nat
    PROVE  /\ IsFiniteSet(LinesOf(d, n)) /\ LinesOf(d, n) \subseteq Nat
           /\ \A l \in Nat : l \in LinesOf(d, n) <=> <<"line", n, l>> \in DOMAIN d
           /\ \A l \in LinesOf(d, n) : n \in Numbers(d)
<1>1. PICK K : K = {j \in OfKind(d, "line") : j[2] = n}
  OBVIOUS
<1>2. K \in SUBSET DOMAIN d /\ IsFiniteSet(DOMAIN d)
  BY <1>1 DEF OfKind, Document
<1>3. IsFiniteSet(K)
  BY <1>2, FS_Subset
<1>4. PICK f : f = [k \in K |-> k[3]]
  OBVIOUS
<1>5. LinesOf(d, n) = {f[k] : k \in K}
  BY <1>1, <1>4 DEF LinesOf
<1>6. \A k \in K : k[3] \in Nat /\ k = <<"line", n, k[3]>> /\ n \in Numbers(d)
  BY <1>1 DEF Document
<1>7. \A l \in Nat : <<"line", n, l>>[1] = "line" /\ <<"line", n, l>>[2] = n /\ <<"line", n, l>>[3] = l
  OBVIOUS
<1>8. \A l \in Nat : <<"line", n, l>> \in DOMAIN d => l \in LinesOf(d, n)
  BY <1>1, <1>7 DEF OfKind, LinesOf
<1>9. \A l \in LinesOf(d, n) : l \in Nat /\ <<"line", n, l>> \in DOMAIN d /\ n \in Numbers(d)
  BY <1>1, <1>2, <1>6 DEF LinesOf
<1>10. IsFiniteSet({f[k] : k \in K})
  BY <1>3, ImageFinite
<1>. QED  BY <1>5, <1>8, <1>9, <1>10

\* Orders that move go past every number of either side, each to its own.
NumbersApart(base, mine, theirs) ==
    LET S == Numbers(mine) \cup Numbers(theirs)
        M == MovedOrders(base, mine, theirs)
    IN  /\ \A n \in S : /\ NewNumber(n, base, mine, theirs) \in Nat
                        /\ n \notin M => NewNumber(n, base, mine, theirs) = n
        /\ \A n \in M : \A s \in S : s < NewNumber(n, base, mine, theirs)
        /\ \A n, p \in S : NewNumber(n, base, mine, theirs) = NewNumber(p, base, mine, theirs) => n = p

LEMMA OrdersMoveApart ==
    ASSUME NEW base, NEW mine, NEW theirs, Documents(base, mine, theirs)
    PROVE  NumbersApart(base, mine, theirs)
<1>1. PICK S, M : S = Numbers(mine) \cup Numbers(theirs) /\ M = MovedOrders(base, mine, theirs)
  OBVIOUS
<1>2. IsFiniteSet(Numbers(mine)) /\ IsFiniteSet(Numbers(theirs)) /\ S \subseteq Nat
  BY <1>1, OrderKeys DEF Documents
<1>3. IsFiniteSet(S)
  BY <1>1, <1>2, FS_Union
<1>4. M \subseteq S
  BY <1>1 DEF MovedOrders
<1>5. PlacedApart(S, M)
  BY <1>2, <1>3, <1>4, PlacesApart
<1>6. \A n : NewNumber(n, base, mine, theirs) = Placed(n, S, M)
  BY <1>1 DEF NewNumber, Placed
<1>. QED  BY <1>1, <1>5, <1>6 DEF PlacedApart, NumbersApart

\* Lines that move under a header that stays go past every line of either side.
LinesApart(n, base, mine, theirs) ==
    LET S == LinesOf(mine, n) \cup LinesOf(theirs, n)
        M == MovedLines(n, base, mine, theirs)
    IN  /\ \A l \in S : /\ NewLine(n, l, base, mine, theirs) \in Nat
                        /\ l \notin M => NewLine(n, l, base, mine, theirs) = l
        /\ \A l \in M : \A s \in S : s < NewLine(n, l, base, mine, theirs)
        /\ \A l, p \in S : NewLine(n, l, base, mine, theirs) = NewLine(n, p, base, mine, theirs) => l = p

LEMMA LinesMoveApart ==
    ASSUME NEW base, NEW mine, NEW theirs, Documents(base, mine, theirs), NEW n \in Nat
    PROVE  LinesApart(n, base, mine, theirs)
<1>1. PICK S, M : S = LinesOf(mine, n) \cup LinesOf(theirs, n) /\ M = MovedLines(n, base, mine, theirs)
  OBVIOUS
<1>2. IsFiniteSet(LinesOf(mine, n)) /\ IsFiniteSet(LinesOf(theirs, n)) /\ S \subseteq Nat
  BY <1>1, LineKeys DEF Documents
<1>3. IsFiniteSet(S)
  BY <1>1, <1>2, FS_Union
<1>4. M \subseteq S
  BY <1>1 DEF MovedLines
<1>5. PlacedApart(S, M)
  BY <1>2, <1>3, <1>4, PlacesApart
<1>6. \A l : NewLine(n, l, base, mine, theirs) = Placed(l, S, M)
  BY <1>1 DEF NewLine, Placed
<1>. QED  BY <1>1, <1>5, <1>6 DEF PlacedApart, LinesApart

-----------------------------------------------------------------------------
(* Where the records of mine go.                                              *)

\* The number a line of order n gets there.
LineNumber(n, l, base, mine, theirs) ==
    IF n \in MovedOrders(base, mine, theirs) THEN l ELSE NewLine(n, l, base, mine, theirs)

LEMMA OrderGoes ==
    ASSUME NEW base, NEW mine, NEW theirs, NEW n
    PROVE  NewKey(<<"order", n>>, base, mine, theirs) = <<"order", NewNumber(n, base, mine, theirs)>>
BY DEF NewKey

LEMMA OtherGoes ==
    ASSUME NEW base, NEW mine, NEW theirs, NEW k, k[1] \notin {"order", "line"}
    PROVE  NewKey(k, base, mine, theirs) = k
BY DEF NewKey

\* What the save both started from had stays where it is.
NumberStays(n, base, mine, theirs) ==
    n \notin MovedOrders(base, mine, theirs) /\ NewNumber(n, base, mine, theirs) = n

LEMMA OldOrderStays ==
    ASSUME NEW base, NEW mine, NEW theirs, Document(base), NEW n, n \in Numbers(base)
    PROVE  NumberStays(n, base, mine, theirs)
<1>1. <<"order", n>> \in DOMAIN base
  BY OrderKeys
<1>2. n \notin MovedOrders(base, mine, theirs)
  BY <1>1 DEF MovedOrders, Collides
<1>. QED  BY <1>2 DEF NewNumber, NumberStays

LEMMA OldLineStays ==
    ASSUME NEW base, NEW mine, NEW theirs, Document(base), NEW n \in Nat, NEW l \in Nat,
           <<"line", n, l>> \in DOMAIN base
    PROVE  /\ n \notin MovedOrders(base, mine, theirs) /\ NewNumber(n, base, mine, theirs) = n
           /\ NewLine(n, l, base, mine, theirs) = l
<1>1. n \in Numbers(base)
  BY LineKeys
<1>2. n \notin MovedOrders(base, mine, theirs) /\ NewNumber(n, base, mine, theirs) = n
  <2>1. NumberStays(n, base, mine, theirs)
    BY <1>1, OldOrderStays
  <2>. QED  BY <2>1 DEF NumberStays
<1>3. l \notin MovedLines(n, base, mine, theirs)
  BY DEF MovedLines, Collides
<1>. QED  BY <1>2, <1>3 DEF NewLine

LEMMA LineGoes ==
    ASSUME NEW base, NEW mine, NEW theirs, Document(base), NEW n \in Nat, NEW l \in Nat
    PROVE  NewKey(<<"line", n, l>>, base, mine, theirs)
              = <<"line", NewNumber(n, base, mine, theirs), LineNumber(n, l, base, mine, theirs)>>
<1>1. PICK k : k = <<"line", n, l>>
  OBVIOUS
<1>2. k[1] = "line" /\ k[2] = n /\ k[3] = l
  BY <1>1
<1>3. CASE k \in DOMAIN base
  <2>1. n \notin MovedOrders(base, mine, theirs) /\ NewNumber(n, base, mine, theirs) = n
        /\ NewLine(n, l, base, mine, theirs) = l
    BY <1>1, <1>3, OldLineStays
  <2>2. NewKey(k, base, mine, theirs) = k
    BY <1>2, <1>3 DEF NewKey
  <2>. QED  BY <1>1, <2>1, <2>2 DEF LineNumber
<1>4. CASE k \notin DOMAIN base /\ n \in MovedOrders(base, mine, theirs)
  BY <1>1, <1>2, <1>4 DEF NewKey, LineNumber
<1>5. CASE k \notin DOMAIN base /\ n \notin MovedOrders(base, mine, theirs)
  <2>1. NewNumber(n, base, mine, theirs) = n
    BY <1>5 DEF NewNumber
  <2>. QED  BY <1>1, <1>2, <1>5, <2>1 DEF NewKey, LineNumber
<1>. QED  BY <1>3, <1>4, <1>5

\* The three kinds of keys of a document.
LEMMA KeyKinds ==
    ASSUME NEW d, Document(d), NEW k \in DOMAIN d
    PROVE  \/ \E n \in Numbers(d) : n \in Nat /\ k = <<"order", n>>
           \/ \E n \in Numbers(d) : n \in Nat /\ \E l \in LinesOf(d, n) : l \in Nat /\ k = <<"line", n, l>>
           \/ k[1] \notin {"order", "line"}
<1>1. ASSUME k[1] = "order" PROVE \E n \in Numbers(d) : n \in Nat /\ k = <<"order", n>>
  <2>1. k \in OfKind(d, "order")
    BY <1>1 DEF OfKind
  <2>. QED  BY <2>1 DEF Document, Numbers
<1>2. ASSUME k[1] = "line"
      PROVE  \E n \in Numbers(d) : n \in Nat /\ \E l \in LinesOf(d, n) : l \in Nat /\ k = <<"line", n, l>>
  <2>1. k \in OfKind(d, "line")
    BY <1>2 DEF OfKind
  <2>2. PICK n \in Numbers(d), l \in Nat : n = k[2] /\ l = k[3] /\ k = <<"line", n, l>>
    BY <2>1 DEF Document
  <2>3. n \in Nat
    BY OrderKeys
  <2>4. l \in LinesOf(d, n)
    BY <2>2, <2>3, LineKeys
  <2>. QED  BY <2>2, <2>3, <2>4
<1>. QED  BY <1>1, <1>2

\* What moves goes where neither side has anything.
LEMMA MovesAside ==
    ASSUME NEW base, NEW mine, NEW theirs, Documents(base, mine, theirs), NEW j \in DOMAIN mine,
           NewKey(j, base, mine, theirs) \in DOMAIN mine \cup DOMAIN theirs
    PROVE  NewKey(j, base, mine, theirs) = j
<1>0. Document(base) /\ Document(mine) /\ Document(theirs)
  BY DEF Documents
<1>1. PICK S : S = Numbers(mine) \cup Numbers(theirs)
  OBVIOUS
<1>2. ASSUME NEW n \in Numbers(mine), NewNumber(n, base, mine, theirs) \in S
      PROVE  n \notin MovedOrders(base, mine, theirs) /\ NewNumber(n, base, mine, theirs) = n
  <2>1. NumbersApart(base, mine, theirs)
    BY OrdersMoveApart
  <2>2. PICK N \in Nat : N = NewNumber(n, base, mine, theirs)
    <3>1. NewNumber(n, base, mine, theirs) \in Nat
      BY <2>1 DEF NumbersApart
    <3>. QED  BY <3>1
  <2>3. ~(N < N)
    OBVIOUS
  <2>. QED  BY <1>1, <1>2, <2>1, <2>2, <2>3 DEF NumbersApart
<1>3. ASSUME NEW n \in Numbers(mine), n \in Nat, j = <<"order", n>>
      PROVE  NewKey(j, base, mine, theirs) = j
  <2>1. PICK N \in Nat : N = NewNumber(n, base, mine, theirs)
    <3>1. NumbersApart(base, mine, theirs)
      BY OrdersMoveApart
    <3>2. NewNumber(n, base, mine, theirs) \in Nat
      BY <3>1 DEF NumbersApart
    <3>. QED  BY <3>2
  <2>2. NewKey(j, base, mine, theirs) = <<"order", N>>
    BY <1>3, <2>1, OrderGoes
  <2>3. N \in S
    BY <1>0, <1>1, <2>1, <2>2, OrderKeys
  <2>. QED  BY <1>2, <1>3, <2>1, <2>2, <2>3
<1>4. ASSUME NEW n \in Numbers(mine), n \in Nat, NEW l \in LinesOf(mine, n), l \in Nat, j = <<"line", n, l>>
      PROVE  NewKey(j, base, mine, theirs) = j
  <2>1. PICK N \in Nat : N = NewNumber(n, base, mine, theirs)
    <3>1. NumbersApart(base, mine, theirs)
      BY OrdersMoveApart
    <3>2. NewNumber(n, base, mine, theirs) \in Nat
      BY <3>1 DEF NumbersApart
    <3>. QED  BY <3>2
  <2>2. LinesApart(n, base, mine, theirs)
    BY <1>4, LinesMoveApart
  <2>3. PICK L \in Nat : L = LineNumber(n, l, base, mine, theirs)
    <3>1. NewLine(n, l, base, mine, theirs) \in Nat
      BY <2>2 DEF LinesApart
    <3>2. LineNumber(n, l, base, mine, theirs) \in Nat
      BY <1>4, <3>1 DEF LineNumber
    <3>. QED  BY <3>2
  <2>4. NewKey(j, base, mine, theirs) = <<"line", N, L>>
    BY <1>0, <1>4, <2>1, <2>3, LineGoes
  <2>5. L \in LinesOf(mine, N) \cup LinesOf(theirs, N) /\ N \in S
    <3>1. <<"line", N, L>> \in DOMAIN mine \/ <<"line", N, L>> \in DOMAIN theirs
      BY <2>4
    <3>2. L \in LinesOf(mine, N) \/ L \in LinesOf(theirs, N)
      BY <1>0, <3>1, LineKeys
    <3>3. N \in Numbers(mine) \/ N \in Numbers(theirs)
      BY <1>0, <3>2, LineKeys
    <3>. QED  BY <1>1, <3>2, <3>3
  <2>6. n \notin MovedOrders(base, mine, theirs) /\ N = n
    BY <1>2, <2>1, <2>5
  <2>7. L = NewLine(n, l, base, mine, theirs)
    BY <2>3, <2>6 DEF LineNumber
  <2>8. l \notin MovedLines(n, base, mine, theirs)
    <3>1. ~(L < L)
      OBVIOUS
    <3>. QED  BY <2>2, <2>5, <2>6, <2>7, <3>1 DEF LinesApart
  <2>9. L = l
    BY <2>2, <2>7, <2>8 DEF LinesApart
  <2>. QED  BY <1>4, <2>4, <2>6, <2>9
<1>. QED  BY <1>0, <1>3, <1>4, KeyKinds, OtherGoes

\* No two records of mine go to one place.
LEMMA KeysGoApart ==
    ASSUME NEW base, NEW mine, NEW theirs, Documents(base, mine, theirs),
           NEW j \in DOMAIN mine, NEW k \in DOMAIN mine,
           NewKey(j, base, mine, theirs) = NewKey(k, base, mine, theirs)
    PROVE  j = k
<1>0. Document(base) /\ Document(mine) /\ Document(theirs)
  BY DEF Documents
<1>1. NumbersApart(base, mine, theirs)
  BY OrdersMoveApart
<1>2. ASSUME NEW n \in Numbers(mine), NEW p \in Numbers(mine), n \in Nat, p \in Nat,
             j = <<"order", n>>, k = <<"order", p>>
      PROVE  j = k
  BY <1>1, <1>2, OrderGoes DEF NumbersApart
<1>3. ASSUME NEW n \in Numbers(mine), NEW p \in Numbers(mine), n \in Nat, p \in Nat,
             NEW l \in LinesOf(mine, n), NEW q \in LinesOf(mine, p), l \in Nat, q \in Nat,
             j = <<"line", n, l>>, k = <<"line", p, q>>
      PROVE  j = k
  <2>1. /\ NewKey(j, base, mine, theirs)
             = <<"line", NewNumber(n, base, mine, theirs), LineNumber(n, l, base, mine, theirs)>>
        /\ NewKey(k, base, mine, theirs)
             = <<"line", NewNumber(p, base, mine, theirs), LineNumber(p, q, base, mine, theirs)>>
    BY <1>0, <1>3, LineGoes
  <2>2. NewNumber(n, base, mine, theirs) = NewNumber(p, base, mine, theirs)
        /\ LineNumber(n, l, base, mine, theirs) = LineNumber(p, q, base, mine, theirs)
    <3>1. PICK N, P, L, Q : /\ N = NewNumber(n, base, mine, theirs) /\ P = NewNumber(p, base, mine, theirs)
                            /\ L = LineNumber(n, l, base, mine, theirs) /\ Q = LineNumber(p, q, base, mine, theirs)
      OBVIOUS
    <3>2. <<"line", N, L>> = <<"line", P, Q>>
      BY <2>1, <3>1
    <3>3. N = P /\ L = Q
      BY <3>2
    <3>. QED  BY <3>1, <3>3
  <2>3. n = p
    BY <1>1, <2>2 DEF NumbersApart
  <2>4. LinesApart(n, base, mine, theirs)
    BY <1>3, LinesMoveApart
  <2>5. l = q
    BY <2>2, <2>3, <2>4 DEF LineNumber, LinesApart
  <2>. QED  BY <1>3, <2>3, <2>5
<1>4. /\ NewKey(j, base, mine, theirs)[1] = j[1]
      /\ NewKey(k, base, mine, theirs)[1] = k[1]
  <2>1. ASSUME NEW i PROVE NewKey(i, base, mine, theirs)[1] = i[1]
    BY DEF NewKey
  <2>. QED  BY <2>1
<1>5. ASSUME j[1] \notin {"order", "line"} PROVE j = k
  BY <1>4, <1>5, OtherGoes
<1>6. ASSUME j[1] = "order" PROVE j = k
  <2>1. k[1] = "order"
    BY <1>4, <1>6
  <2>2. PICK n \in Numbers(mine) : n \in Nat /\ j = <<"order", n>>
    BY <1>0, <1>6, KeyKinds
  <2>3. PICK p \in Numbers(mine) : p \in Nat /\ k = <<"order", p>>
    BY <1>0, <2>1, KeyKinds
  <2>. QED  BY <1>2, <2>2, <2>3
<1>7. ASSUME j[1] = "line" PROVE j = k
  <2>1. k[1] = "line"
    BY <1>4, <1>7
  <2>2. PICK n \in Numbers(mine) : n \in Nat /\ \E l \in LinesOf(mine, n) : l \in Nat /\ j = <<"line", n, l>>
    BY <1>0, <1>7, KeyKinds
  <2>3. PICK p \in Numbers(mine) : p \in Nat /\ \E q \in LinesOf(mine, p) : q \in Nat /\ k = <<"line", p, q>>
    BY <1>0, <2>1, KeyKinds
  <2>. QED  BY <1>3, <2>2, <2>3
<1>. QED  BY <1>5, <1>6, <1>7

\* The copy renumbered: each record of mine, where it goes.
LEMMA RenumberedHas ==
    ASSUME NEW base, NEW mine, NEW theirs, Documents(base, mine, theirs), NEW j \in DOMAIN mine
    PROVE  At(Renumbered(base, mine, theirs), NewKey(j, base, mine, theirs))
              = Follow(j, mine[j], base, mine, theirs)
<1>1. PICK K : K = NewKey(j, base, mine, theirs)
  OBVIOUS
<1>2. PICK o : o = CHOOSE i \in DOMAIN mine : NewKey(i, base, mine, theirs) = K
  OBVIOUS
<1>3. o \in DOMAIN mine /\ NewKey(o, base, mine, theirs) = K
  BY <1>1, <1>2
<1>4. o = j
  BY <1>1, <1>3, KeysGoApart
<1>5. K \in DOMAIN Renumbered(base, mine, theirs)
      /\ Renumbered(base, mine, theirs)[K] = Follow(o, mine[o], base, mine, theirs)
  BY <1>1, <1>2 DEF Renumbered
<1>. QED  BY <1>1, <1>4, <1>5 DEF At

LEMMA RenumberedOnly ==
    ASSUME NEW base, NEW mine, NEW theirs, NEW k \in DOMAIN Renumbered(base, mine, theirs)
    PROVE  \E j \in DOMAIN mine : k = NewKey(j, base, mine, theirs)
BY DEF Renumbered

-----------------------------------------------------------------------------
(* What a merge makes of one record.                                          *)

\* The values of a merge: what is picked, key by key.
LEMMA MergedAt ==
    ASSUME NEW base, NEW mine, NEW theirs, NEW choose, NEW p, NEW k
    PROVE  At(Merge(base, mine, theirs, choose, p), k)
              = Picked(k, base, Renumbered(base, mine, theirs), theirs, choose, p)
<1>1. PICK r : r = Renumbered(base, mine, theirs)
  OBVIOUS
<1> DEFINE Result(j) == Picked(j, base, r, theirs, choose, p)
           D == {j \in DOMAIN r \cup DOMAIN theirs : Result(j) # Absent}
<1>2. Merge(base, mine, theirs, choose, p) = [j \in D |-> Result(j)]
  BY <1>1 DEF Merge
<1>3. k \notin DOMAIN r \cup DOMAIN theirs => Result(k) = Absent
  BY DEF Picked, Conflict, At
<1>4. At([j \in D |-> Result(j)], k) = Result(k)
  <2>1. k \in D => [j \in D |-> Result(j)][k] = Result(k)
    <3>. HIDE DEF D, Result
    <3>. QED  OBVIOUS
  <2>2. k \notin D => Result(k) = Absent
    <3>. HIDE DEF Result
    <3>. QED  BY <1>3
  <2>. HIDE DEF D, Result
  <2>. QED  BY <2>1, <2>2 DEF At
<1>. QED  BY <1>1, <1>2, <1>4

\* Where one side left the record as it was, or both made the same of it.
LEMMA PickedIs ==
    ASSUME NEW base, NEW r, NEW theirs, NEW choose, NEW p, NEW k
    PROVE  /\ At(r, k) = At(theirs, k) => Picked(k, base, r, theirs, choose, p) = At(theirs, k)
           /\ At(r, k) = At(base, k) => Picked(k, base, r, theirs, choose, p) = At(theirs, k)
           /\ At(theirs, k) = At(base, k) => Picked(k, base, r, theirs, choose, p) = At(r, k)
           /\ Picked(k, base, r, theirs, choose, p) \in {At(r, k), At(theirs, k)}
BY DEF Picked, Conflict

\* An order or a line both have, and that stays, is the same on both sides.
LEMMA StaysSame ==
    ASSUME NEW base, NEW mine, NEW theirs, Documents(base, mine, theirs), NEW j \in DOMAIN mine,
           j \in DOMAIN theirs, j \notin DOMAIN base, j[1] \in {"order", "line"},
           NewKey(j, base, mine, theirs) = j
    PROVE  mine[j] = theirs[j]
<1>0. Document(base) /\ Document(mine) /\ Document(theirs)
  BY DEF Documents
<1>1. ASSUME NEW n \in Numbers(mine), n \in Nat, NewNumber(n, base, mine, theirs) = n
      PROVE  n \notin MovedOrders(base, mine, theirs)
  <2>1. NumbersApart(base, mine, theirs) /\ ~(n < n)
    BY <1>1, OrdersMoveApart
  <2>2. n \in Numbers(mine) \cup Numbers(theirs)
    OBVIOUS
  <2>. QED  BY <1>1, <2>1, <2>2 DEF NumbersApart
<1>2. ASSUME NEW n \in Numbers(mine), n \in Nat, j = <<"order", n>>
      PROVE  mine[j] = theirs[j]
  <2>1. <<"order", n>> = <<"order", NewNumber(n, base, mine, theirs)>>
    BY <1>2, OrderGoes
  <2>2. PICK N : N = NewNumber(n, base, mine, theirs)
    OBVIOUS
  <2>3. n = N
    BY <2>1, <2>2
  <2>4. n \notin MovedOrders(base, mine, theirs)
    BY <1>1, <1>2, <2>2, <2>3
  <2>. QED  BY <1>2, <2>4 DEF MovedOrders, Collides
<1>3. ASSUME NEW n \in Numbers(mine), n \in Nat, NEW l \in LinesOf(mine, n), l \in Nat, j = <<"line", n, l>>
      PROVE  mine[j] = theirs[j]
  <2>1. PICK N, L : N = NewNumber(n, base, mine, theirs) /\ L = LineNumber(n, l, base, mine, theirs)
    OBVIOUS
  <2>2. <<"line", n, l>> = <<"line", N, L>>
    BY <1>0, <1>3, <2>1, LineGoes
  <2>3. n = N /\ l = L
    BY <2>2
  <2>4. n \notin MovedOrders(base, mine, theirs)
    BY <1>1, <1>3, <2>1, <2>3
  <2>5. NewLine(n, l, base, mine, theirs) = l
    BY <2>1, <2>3, <2>4 DEF LineNumber
  <2>6. LinesApart(n, base, mine, theirs) /\ ~(l < l)
    BY <1>3, LinesMoveApart
  <2>7. l \in LinesOf(mine, n) \cup LinesOf(theirs, n)
    BY <1>3
  <2>8. l \notin MovedLines(n, base, mine, theirs)
    BY <2>5, <2>6, <2>7 DEF LinesApart
  <2>. QED  BY <1>3, <2>8 DEF MovedLines, Collides
<1>. QED  BY <1>0, <1>2, <1>3, KeyKinds

\* A record mine left as it was stays as it is, renumbered or not.
LEMMA OldIsKept ==
    ASSUME NEW base, NEW mine, NEW theirs, Documents(base, mine, theirs), PointsHome(base),
           NEW k \in DOMAIN mine, k \in DOMAIN base, mine[k] = base[k]
    PROVE  At(Renumbered(base, mine, theirs), k) = base[k]
<1>0. Document(base) /\ Document(mine) /\ Document(theirs)
  BY DEF Documents
<1>1. NewKey(k, base, mine, theirs) = k
  <2>1. ASSUME NEW n \in Numbers(base), n \in Nat, k = <<"order", n>>
        PROVE  NewKey(k, base, mine, theirs) = k
    <3>1. NumberStays(n, base, mine, theirs)
      BY <1>0, OldOrderStays
    <3>. QED  BY <2>1, <3>1, OrderGoes DEF NumberStays
  <2>2. ASSUME NEW n \in Numbers(base), n \in Nat, NEW l \in LinesOf(base, n), l \in Nat, k = <<"line", n, l>>
        PROVE  NewKey(k, base, mine, theirs) = k
    <3>0. <<"line", n, l>> \in DOMAIN base
      BY <2>2
    <3>1. /\ n \notin MovedOrders(base, mine, theirs) /\ NewNumber(n, base, mine, theirs) = n
          /\ NewLine(n, l, base, mine, theirs) = l
      BY <1>0, <2>2, <3>0, OldLineStays
    <3>. QED  BY <1>0, <2>2, <3>1, LineGoes DEF LineNumber
  <2>. QED  BY <1>0, <2>1, <2>2, KeyKinds, OtherGoes
<1>2. Follow(k, mine[k], base, mine, theirs) = mine[k]
  <2>1. CASE k[1] = "link"
    <3>1. k \in OfKind(base, "link") /\ k \in OfKind(mine, "link")
      BY <2>1 DEF OfKind
    <3>2. PICK c : c = mine[k]
      OBVIOUS
    <3>3. c \in LinkTo(c.text) /\ c.order \in Numbers(base)
      BY <1>0, <3>1, <3>2 DEF Document, PointsHome
    <3>4. c.order \in Nat
      BY <1>0, <3>3, OrderKeys
    <3>5. NewNumber(c.order, base, mine, theirs) = c.order
      <4>1. PICK n \in Nat : n = c.order /\ n \in Numbers(base)
        BY <3>3, <3>4
      <4>2. NumberStays(n, base, mine, theirs)
        BY <1>0, <4>1, OldOrderStays
      <4>. QED  BY <4>1, <4>2 DEF NumberStays
    <3>6. [c EXCEPT !.order = c.order] = c
      BY <3>3 DEF LinkTo
    <3>. QED  BY <2>1, <3>2, <3>5, <3>6 DEF Follow
  <2>2. CASE k[1] # "link"
    BY <2>2 DEF Follow
  <2>. QED  BY <2>1, <2>2
<1>. QED  BY <1>1, <1>2, RenumberedHas

\* What theirs has and mine did not touch: mine renumbered leaves its place.
LEMMA PlaceIsLeft ==
    ASSUME NEW base, NEW mine, NEW theirs, Documents(base, mine, theirs), NEW k \in DOMAIN theirs,
           k \notin DOMAIN mine
    PROVE  At(Renumbered(base, mine, theirs), k) = Absent
<1>1. SUFFICES ASSUME k \in DOMAIN Renumbered(base, mine, theirs) PROVE FALSE
  BY DEF At
<1>2. PICK j \in DOMAIN mine : k = NewKey(j, base, mine, theirs)
  BY <1>1, RenumberedOnly
<1>3. NewKey(j, base, mine, theirs) = j
  BY <1>2, MovesAside
<1>. QED  BY <1>2, <1>3

\* An order or a line mine added is in the result where it goes.
LEMMA AddedIsThere ==
    ASSUME NEW base, NEW mine, NEW theirs, NEW choose, NEW p, Documents(base, mine, theirs), NEW j \in DOMAIN mine,
           j[1] \in {"order", "line"}, NewKey(j, base, mine, theirs) \notin DOMAIN base
    PROVE  At(Merge(base, mine, theirs, choose, p), NewKey(j, base, mine, theirs)) = mine[j]
<1>1. PICK r, K : r = Renumbered(base, mine, theirs) /\ K = NewKey(j, base, mine, theirs)
  OBVIOUS
<1>2. At(r, K) = mine[j]
  BY <1>1, RenumberedHas DEF Follow
<1>3. CASE K \notin DOMAIN theirs
  <2>1. At(theirs, K) = At(base, K)
    BY <1>1, <1>3 DEF At
  <2>. QED  BY <1>1, <1>2, <2>1, MergedAt, PickedIs
<1>4. CASE K \in DOMAIN theirs
  <2>1. K = j
    BY <1>1, <1>4, MovesAside
  <2>2. mine[j] = theirs[j]
    <3>1. j \in DOMAIN theirs /\ j \notin DOMAIN base /\ NewKey(j, base, mine, theirs) = j
      BY <1>1, <1>4, <2>1
    <3>. QED  BY <3>1, StaysSame
  <2>3. At(r, K) = At(theirs, K)
    BY <1>2, <1>4, <2>1, <2>2 DEF At
  <2>. QED  BY <1>1, <1>2, <2>3, MergedAt, PickedIs
<1>. QED  BY <1>3, <1>4

-----------------------------------------------------------------------------
(* What a merge keeps.                                                        *)

\* Nothing a colleague saved is moved or replaced, whatever was renumbered and
\* whoever chose what: where mine left a record alone, and under every number
\* theirs gave, the result is what they saved (_renumber, _pick).
THEOREM MergeLeavesTheirs ==
    ASSUME NEW base, NEW mine, NEW theirs, NEW choose, NEW p,
           Documents(base, mine, theirs), PointsHome(base)
    PROVE  TheirsStay(base, mine, theirs, Merge(base, mine, theirs, choose, p))
<1>0. Document(base) /\ Document(mine) /\ Document(theirs)
  BY DEF Documents
<1>1. PICK r : r = Renumbered(base, mine, theirs)
  OBVIOUS
<1>2. SUFFICES ASSUME NEW k \in DOMAIN theirs,
                      At(mine, k) = At(base, k) \/ (k[1] \in {"order", "line"} /\ k \notin DOMAIN base)
               PROVE  At(Merge(base, mine, theirs, choose, p), k) = theirs[k]
  BY DEF TheirsStay
<1>3. At(theirs, k) = theirs[k]
  BY DEF At
<1>4. SUFFICES At(r, k) = At(base, k) \/ At(r, k) = At(theirs, k)
  BY <1>1, <1>3, MergedAt, PickedIs
<1>5. CASE k \notin DOMAIN mine
  <2>1. At(r, k) = Absent
    BY <1>1, <1>5, PlaceIsLeft
  <2>2. At(mine, k) = Absent
    BY <1>5 DEF At
  <2>3. At(base, k) = Absent
    BY <1>2, <2>2 DEF At
  <2>. QED  BY <2>1, <2>3
<1>6. CASE k \in DOMAIN mine /\ At(mine, k) = At(base, k)
  <2>1. k \in DOMAIN base /\ mine[k] = base[k]
    BY <1>0, <1>6 DEF At, Document
  <2>2. At(r, k) = base[k]
    BY <1>1, <1>6, <2>1, OldIsKept
  <2>. QED  BY <2>1, <2>2 DEF At
<1>7. CASE k \in DOMAIN mine /\ k[1] \in {"order", "line"} /\ k \notin DOMAIN base
  <2>1. CASE k \notin DOMAIN r
    BY <1>7, <2>1 DEF At
  <2>2. CASE k \in DOMAIN r
    <3>1. PICK j \in DOMAIN mine : k = NewKey(j, base, mine, theirs)
      BY <1>1, <2>2, RenumberedOnly
    <3>2. k = j
      BY <3>1, MovesAside
    <3>3. NewKey(k, base, mine, theirs) = k
      BY <3>1, <3>2
    <3>4. mine[k] = theirs[k]
      BY <1>7, <3>3, StaysSame
    <3>5. At(r, k) = Follow(k, mine[k], base, mine, theirs)
      BY <1>1, <1>7, <3>3, RenumberedHas
    <3>. QED  BY <1>3, <1>7, <3>4, <3>5 DEF Follow
  <2>. QED  BY <2>1, <2>2
<1>. QED  BY <1>2, <1>5, <1>6, <1>7

\* Where an order mine added goes.
LEMMA AddedOrder ==
    ASSUME NEW base, NEW mine, NEW theirs, NEW choose, NEW p,
           Documents(base, mine, theirs), NoNumberAgain(base, mine, theirs),
           NEW n \in AddedBy(mine, base)
    PROVE  /\ NewNumber(n, base, mine, theirs) \in Nat \ Numbers(base)
           /\ NewNumber(n, base, mine, theirs) \in Numbers(Merge(base, mine, theirs, choose, p))
           /\ Merge(base, mine, theirs, choose, p)[<<"order", NewNumber(n, base, mine, theirs)>>]
                 = mine[<<"order", n>>]
<1>0. Document(base) /\ Document(mine) /\ Document(theirs)
  BY DEF Documents
<1>1. n \in Numbers(mine) /\ n \notin Numbers(base) /\ n \in Nat
  BY <1>0, OrderKeys DEF AddedBy
<1>2. PICK N \in Nat : N = NewNumber(n, base, mine, theirs)
  <2>1. NumbersApart(base, mine, theirs)
    BY OrdersMoveApart
  <2>2. NewNumber(n, base, mine, theirs) \in Nat
    BY <1>1, <2>1 DEF NumbersApart
  <2>. QED  BY <2>2
<1>3. N \notin Numbers(base)
  <2>1. CASE n \in MovedOrders(base, mine, theirs)
    <3>1. NumbersApart(base, mine, theirs)
      BY OrdersMoveApart
    <3>2. \A s \in Numbers(mine) \cup Numbers(theirs) : s < N
      BY <1>2, <2>1, <3>1 DEF NumbersApart
    <3>3. SUFFICES ASSUME N \in Numbers(base) PROVE FALSE
      OBVIOUS
    <3>4. PICK x \in Numbers(mine) \cup Numbers(theirs) : N <= x
      BY <2>1, <3>3 DEF NoNumberAgain
    <3>5. x \in Nat /\ x < N
      BY <1>0, <3>2, OrderKeys
    <3>. QED  BY <3>4, <3>5
  <2>2. CASE n \notin MovedOrders(base, mine, theirs)
    BY <1>1, <1>2, <2>2 DEF NewNumber
  <2>. QED  BY <2>1, <2>2
<1>4. PICK j, K : j = <<"order", n>> /\ K = <<"order", N>>
  OBVIOUS
<1>5. j \in DOMAIN mine /\ j[1] = "order" /\ K = NewKey(j, base, mine, theirs) /\ K \notin DOMAIN base
  <2>1. j \in DOMAIN mine
    BY <1>0, <1>1, <1>4, OrderKeys
  <2>2. K = NewKey(j, base, mine, theirs)
    BY <1>2, <1>4, OrderGoes
  <2>3. K \notin DOMAIN base
    BY <1>0, <1>3, <1>4, OrderKeys
  <2>. QED  BY <1>4, <2>1, <2>2, <2>3
<1>6. PICK M : M = Merge(base, mine, theirs, choose, p)
  OBVIOUS
<1>7. At(M, K) = mine[j] /\ mine[j] # Absent
  BY <1>0, <1>5, <1>6, AddedIsThere DEF Document
<1>8. K \in DOMAIN M /\ M[K] = mine[j]
  BY <1>7 DEF At
<1>9. N \in Numbers(M)
  <2>1. K[1] = "order" /\ K[2] = N
    BY <1>4
  <2>. QED  BY <1>8, <2>1 DEF Numbers, OfKind
<1>. QED  BY <1>2, <1>3, <1>4, <1>6, <1>8, <1>9

\* Where its lines go.
LEMMA AddedLine ==
    ASSUME NEW base, NEW mine, NEW theirs, NEW choose, NEW p,
           Documents(base, mine, theirs), NoNumberAgain(base, mine, theirs),
           NEW n \in AddedBy(mine, base), NEW l \in LinesOf(mine, n), NEW N, N = NewNumber(n, base, mine, theirs)
    PROVE  \E j \in LinesOf(Merge(base, mine, theirs, choose, p), N) :
              Merge(base, mine, theirs, choose, p)[<<"line", N, j>>] = mine[<<"line", n, l>>]
<1>0. Document(base) /\ Document(mine) /\ Document(theirs)
  BY DEF Documents
<1>1. n \in Numbers(mine) /\ n \notin Numbers(base) /\ n \in Nat
  BY <1>0, OrderKeys DEF AddedBy
<1>2. N \in Nat /\ N \notin Numbers(base)
  BY AddedOrder
<1>3. l \in Nat /\ <<"line", n, l>> \in DOMAIN mine
  BY <1>0, <1>1, LineKeys
<1>4. PICK L \in Nat : L = LineNumber(n, l, base, mine, theirs)
  <2>1. LinesApart(n, base, mine, theirs)
    BY <1>1, LinesMoveApart
  <2>2. NewLine(n, l, base, mine, theirs) \in Nat
    BY <2>1 DEF LinesApart
  <2>3. LineNumber(n, l, base, mine, theirs) \in Nat
    BY <1>3, <2>2 DEF LineNumber
  <2>. QED  BY <2>3
<1>5. PICK j, K : j = <<"line", n, l>> /\ K = <<"line", N, L>>
  OBVIOUS
<1>6. K = NewKey(j, base, mine, theirs)
  BY <1>0, <1>1, <1>3, <1>4, <1>5, LineGoes
<1>7. j \in DOMAIN mine /\ j[1] = "line" /\ K \notin DOMAIN base
  <2>1. K \notin DOMAIN base
    <3>1. K \in DOMAIN base => L \in LinesOf(base, N)
      BY <1>0, <1>2, <1>4, <1>5, LineKeys
    <3>2. L \in LinesOf(base, N) => N \in Numbers(base)
      BY <1>0, <1>2, LineKeys
    <3>. QED  BY <1>2, <3>1, <3>2
  <2>. QED  BY <1>3, <1>5, <2>1
<1>8. PICK M : M = Merge(base, mine, theirs, choose, p)
  OBVIOUS
<1>9. At(M, K) = mine[j] /\ mine[j] # Absent
  BY <1>0, <1>6, <1>7, <1>8, AddedIsThere DEF Document
<1>10. K \in DOMAIN M /\ M[K] = mine[j]
  BY <1>9 DEF At
<1>11. L \in LinesOf(M, N)
  <2>1. K[1] = "line" /\ K[2] = N /\ K[3] = L
    BY <1>5
  <2>. QED  BY <1>10, <2>1 DEF LinesOf, OfKind
<1>. QED  BY <1>5, <1>8, <1>10, <1>11

\* The number an order gets says what theirs has under it.
LEMMA NumberSays ==
    ASSUME NEW base, NEW mine, NEW theirs, Documents(base, mine, theirs), NEW n \in AddedBy(mine, base)
    PROVE  /\ NewNumber(n, base, mine, theirs) # n => At(theirs, <<"order", n>>) \notin {Absent, mine[<<"order", n>>]}
           /\ NewNumber(n, base, mine, theirs) \in Numbers(theirs)
                 => theirs[<<"order", NewNumber(n, base, mine, theirs)>>] = mine[<<"order", n>>]
<1>0. Document(base) /\ Document(mine) /\ Document(theirs)
  BY DEF Documents
<1>1. n \in Numbers(mine) /\ n \notin Numbers(base) /\ n \in Nat
  BY <1>0, OrderKeys DEF AddedBy
<1>2. <<"order", n>> \in DOMAIN mine /\ <<"order", n>> \notin DOMAIN base
  BY <1>0, <1>1, OrderKeys
<1>3. PICK N : N = NewNumber(n, base, mine, theirs)
  OBVIOUS
<1>4. NumbersApart(base, mine, theirs) /\ ~(N < N)
  <2>1. NumbersApart(base, mine, theirs)
    BY OrdersMoveApart
  <2>2. N \in Nat
    BY <1>1, <1>3, <2>1 DEF NumbersApart
  <2>. QED  BY <2>1, <2>2
<1>5. CASE n \in MovedOrders(base, mine, theirs)
  <2>1. /\ <<"order", n>> \in DOMAIN theirs
        /\ mine[<<"order", n>>] # theirs[<<"order", n>>]
    BY <1>5 DEF MovedOrders, Collides
  <2>2. theirs[<<"order", n>>] # Absent
    BY <1>0, <2>1 DEF Document
  <2>3. N \notin Numbers(theirs)
    BY <1>3, <1>4, <1>5 DEF NumbersApart
  <2>. QED  BY <1>3, <2>1, <2>2, <2>3 DEF At
<1>6. CASE n \notin MovedOrders(base, mine, theirs)
  <2>1. N = n
    BY <1>3, <1>6 DEF NewNumber
  <2>2. n \in Numbers(theirs) => <<"order", n>> \in DOMAIN theirs
    BY <1>0, <1>1, OrderKeys
  <2>3. <<"order", n>> \in DOMAIN theirs => theirs[<<"order", n>>] = mine[<<"order", n>>]
    BY <1>1, <1>2, <1>6 DEF MovedOrders, Collides
  <2>. QED  BY <1>3, <2>1, <2>2, <2>3
<1>. QED  BY <1>5, <1>6

\* Every order mine added is in the result with its header and all its lines, under
\* a number nobody else has, and moved only out of the way (_renumber, CV-H09).
THEOREM MergeKeepsMine ==
    ASSUME NEW base, NEW mine, NEW theirs, NEW choose, NEW p,
           Documents(base, mine, theirs), NoNumberAgain(base, mine, theirs)
    PROVE  MineStay(base, mine, theirs, Merge(base, mine, theirs, choose, p))
<1>0. Document(base) /\ Document(mine) /\ Document(theirs)
  BY DEF Documents
<1>1. PICK M : M = Merge(base, mine, theirs, choose, p)
  OBVIOUS
<1>2. PICK f : f = [n \in AddedBy(mine, base) |-> NewNumber(n, base, mine, theirs)]
  OBVIOUS
<1>3. \A n \in AddedBy(mine, base) : /\ f[n] = NewNumber(n, base, mine, theirs)
                                     /\ f[n] \in Numbers(M) /\ M[<<"order", f[n]>>] = mine[<<"order", n>>]
  <2>1. SUFFICES ASSUME NEW n \in AddedBy(mine, base)
                 PROVE  /\ f[n] = NewNumber(n, base, mine, theirs)
                        /\ f[n] \in Numbers(M) /\ M[<<"order", f[n]>>] = mine[<<"order", n>>]
    OBVIOUS
  <2>2. PICK N : N = NewNumber(n, base, mine, theirs)
    OBVIOUS
  <2>3. f[n] = N
    BY <1>2, <2>2
  <2>4. N \in Numbers(M) /\ M[<<"order", N>>] = mine[<<"order", n>>]
    BY <1>1, <2>2, AddedOrder
  <2>. QED  BY <2>2, <2>3, <2>4
<1>4. f \in [AddedBy(mine, base) -> Numbers(M)]
  BY <1>2, <1>3
<1>5. \A n, q \in AddedBy(mine, base) : n # q => f[n] # f[q]
  <2>1. NumbersApart(base, mine, theirs)
    BY OrdersMoveApart
  <2>2. AddedBy(mine, base) \subseteq Numbers(mine) \cup Numbers(theirs)
    BY DEF AddedBy
  <2>. QED  BY <1>3, <2>1, <2>2, ZenonT(30) DEF NumbersApart
<1>6. \A n \in AddedBy(mine, base) : \A l \in LinesOf(mine, n) :
         \E j \in LinesOf(M, f[n]) : M[<<"line", f[n], j>>] = mine[<<"line", n, l>>]
  <2>1. SUFFICES ASSUME NEW n \in AddedBy(mine, base), NEW l \in LinesOf(mine, n)
                 PROVE  \E j \in LinesOf(M, f[n]) : M[<<"line", f[n], j>>] = mine[<<"line", n, l>>]
    OBVIOUS
  <2>2. PICK N : N = f[n] /\ N = NewNumber(n, base, mine, theirs)
    BY <1>3
  <2>3. \E j \in LinesOf(M, N) : M[<<"line", N, j>>] = mine[<<"line", n, l>>]
    BY <1>1, <2>2, AddedLine
  <2>. QED  BY <2>2, <2>3
<1>7. \A n \in AddedBy(mine, base) :
         /\ f[n] # n => At(theirs, <<"order", n>>) \notin {Absent, mine[<<"order", n>>]}
         /\ f[n] \in Numbers(theirs) => theirs[<<"order", f[n]>>] = mine[<<"order", n>>]
  <2>1. SUFFICES ASSUME NEW n \in AddedBy(mine, base)
                 PROVE  /\ f[n] # n => At(theirs, <<"order", n>>) \notin {Absent, mine[<<"order", n>>]}
                        /\ f[n] \in Numbers(theirs) => theirs[<<"order", f[n]>>] = mine[<<"order", n>>]
    OBVIOUS
  <2>2. PICK N : N = f[n] /\ N = NewNumber(n, base, mine, theirs)
    BY <1>3
  <2>3. /\ N # n => At(theirs, <<"order", n>>) \notin {Absent, mine[<<"order", n>>]}
        /\ N \in Numbers(theirs) => theirs[<<"order", N>>] = mine[<<"order", n>>]
    BY <2>2, NumberSays
  <2>. QED  BY <2>2, <2>3
<1>8. StaysAs(f, base, mine, theirs, M)
  BY <1>3, <1>5, <1>6, <1>7 DEF StaysAs
<1>. QED  BY <1>1, <1>4, <1>8 DEF MineStay

\* What only mine added and points at an order mine added points at that order,
\* whatever its number became (follow).
THEOREM MergeKeepsLinks ==
    ASSUME NEW base, NEW mine, NEW theirs, NEW choose, NEW p,
           Documents(base, mine, theirs), NoNumberAgain(base, mine, theirs)
    PROVE  LinksFollow(base, mine, theirs, Merge(base, mine, theirs, choose, p))
<1>0. Document(base) /\ Document(mine) /\ Document(theirs)
  BY DEF Documents
<1>1. PICK M, r : M = Merge(base, mine, theirs, choose, p) /\ r = Renumbered(base, mine, theirs)
  OBVIOUS
<1>2. SUFFICES ASSUME NEW k \in OfKind(mine, "link") \ (DOMAIN base \cup DOMAIN theirs),
                      mine[k].order \in AddedBy(mine, base)
               PROVE  /\ k \in DOMAIN M /\ M[k].order \in Numbers(M)
                      /\ M[<<"order", M[k].order>>] = mine[<<"order", mine[k].order>>]
  BY <1>1 DEF LinksFollow
<1>3. k \in DOMAIN mine /\ k[1] = "link"
  BY DEF OfKind
<1>4. PICK n, N : n = mine[k].order /\ N = NewNumber(n, base, mine, theirs)
  OBVIOUS
<1>5. PICK c : c = [mine[k] EXCEPT !.order = N]
  OBVIOUS
<1>6. c # Absent /\ c.order = N /\ Follow(k, mine[k], base, mine, theirs) = c
  <2>1. PICK d : d = mine[k]
    OBVIOUS
  <2>2. d \in LinkTo(d.text) /\ Absent \notin LinkTo(d.text)
    BY <1>0, <2>1 DEF Document
  <2>3. c = [d EXCEPT !.order = N]
    BY <1>5, <2>1
  <2>4. N \in Nat
    BY <1>2, <1>4, AddedOrder
  <2>6. c.order = N /\ c \in LinkTo(d.text)
    BY <2>2, <2>3, <2>4 DEF LinkTo
  <2>5. Follow(k, d, base, mine, theirs) = [d EXCEPT !.order = N]
    BY <1>3, <1>4, <2>1 DEF Follow
  <2>. QED  BY <2>1, <2>2, <2>3, <2>5, <2>6
<1>7. At(r, k) = c
  <2>1. NewKey(k, base, mine, theirs) = k
    BY <1>3, OtherGoes
  <2>. QED  BY <1>1, <1>3, <1>6, <2>1, RenumberedHas
<1>8. At(M, k) = c
  <2>1. At(theirs, k) = At(base, k)
    BY DEF At
  <2>. QED  BY <1>1, <1>7, <2>1, MergedAt, PickedIs
<1>9. k \in DOMAIN M /\ M[k] = c
  BY <1>6, <1>8 DEF At
<1>10. N \in Numbers(M) /\ M[<<"order", N>>] = mine[<<"order", n>>]
  BY <1>1, <1>2, <1>4, AddedOrder
<1>. QED  BY <1>4, <1>6, <1>9, <1>10

\* No line of a merge is left without its header, unless a side removed a header
\* (CV-H09).
THEOREM MergeKeepsHeaders ==
    ASSUME NEW base, NEW mine, NEW theirs, NEW choose, NEW p, Documents(base, mine, theirs)
    PROVE  LinesHaveHeaders(base, mine, theirs, Merge(base, mine, theirs, choose, p))
<1>0. Document(base) /\ Document(mine) /\ Document(theirs)
  BY DEF Documents
<1>1. PICK M, r : M = Merge(base, mine, theirs, choose, p) /\ r = Renumbered(base, mine, theirs)
  OBVIOUS
<1>2. SUFFICES ASSUME Numbers(base) \subseteq Numbers(mine) \cap Numbers(theirs),
                      NEW K \in OfKind(M, "line")
               PROVE  K[2] \in Numbers(M)
  BY <1>1 DEF LinesHaveHeaders
<1>3. K \in DOMAIN r \cup DOMAIN theirs /\ K[1] = "line"
  BY <1>1 DEF OfKind, Merge
<1>4. PICK N \in Nat : /\ N = K[2]
                       /\ \/ N \in Numbers(theirs)
                          \/ \E n \in Numbers(mine) : n \in Nat /\ N = NewNumber(n, base, mine, theirs)
  <2>1. CASE K \in DOMAIN theirs
    <3>1. PICK n \in Numbers(theirs) : n \in Nat /\ \E l \in LinesOf(theirs, n) : l \in Nat /\ K = <<"line", n, l>>
      BY <1>0, <1>3, <2>1, KeyKinds
    <3>. QED  BY <3>1
  <2>2. CASE K \in DOMAIN r
    <3>1. PICK j \in DOMAIN mine : K = NewKey(j, base, mine, theirs)
      BY <1>1, <2>2, RenumberedOnly
    <3>2. j[1] = "line"
      BY <1>3, <3>1 DEF NewKey
    <3>3. PICK n \in Numbers(mine) : n \in Nat /\ \E l \in LinesOf(mine, n) : l \in Nat /\ j = <<"line", n, l>>
      BY <1>0, <3>2, KeyKinds
    <3>4. PICK l \in LinesOf(mine, n) : l \in Nat /\ j = <<"line", n, l>>
      BY <3>3
    <3>5. PICK i, L : /\ i = NewNumber(n, base, mine, theirs) /\ i \in Nat
                      /\ L = LineNumber(n, l, base, mine, theirs)
      <4>1. NumbersApart(base, mine, theirs)
        BY OrdersMoveApart
      <4>2. NewNumber(n, base, mine, theirs) \in Nat
        BY <4>1 DEF NumbersApart
      <4>. QED  BY <4>2
    <3>6. K = <<"line", i, L>>
      BY <1>0, <3>1, <3>3, <3>4, <3>5, LineGoes
    <3>7. K[2] = i
      BY <3>6
    <3>. QED  BY <3>3, <3>5, <3>7
  <2>. QED  BY <1>3, <2>1, <2>2
<1>5. PICK H : H = <<"order", N>>
  OBVIOUS
<1>6. SUFFICES At(M, H) # Absent
  <2>1. At(M, H) # Absent => H \in DOMAIN M
    BY DEF At
  <2>2. H[1] = "order" /\ H[2] = N
    BY <1>5
  <2>. QED  BY <1>4, <2>1, <2>2 DEF Numbers, OfKind
<1>7. CASE H \in DOMAIN base
  <2>1. N \in Numbers(base)
    BY <1>0, <1>5, <1>7, OrderKeys
  <2>2. H \in DOMAIN mine /\ H \in DOMAIN theirs
    BY <1>0, <1>2, <1>5, <2>1, OrderKeys
  <2>3. NewKey(H, base, mine, theirs) = H
    <3>1. NumberStays(N, base, mine, theirs)
      BY <1>0, <2>1, OldOrderStays
    <3>. QED  BY <1>5, <3>1, OrderGoes DEF NumberStays
  <2>4. H[1] # "link"
    BY <1>5
  <2>5. At(r, H) = mine[H]
    BY <1>1, <2>2, <2>3, <2>4, RenumberedHas DEF Follow
  <2>6. At(r, H) # Absent /\ At(theirs, H) # Absent
    BY <1>0, <2>2, <2>5 DEF Document, At
  <2>. QED  BY <1>1, <2>6, MergedAt, PickedIs
<1>8. CASE H \notin DOMAIN base /\ H \in DOMAIN r
  <2>1. PICK j \in DOMAIN mine : H = NewKey(j, base, mine, theirs)
    BY <1>1, <1>8, RenumberedOnly
  <2>2. H[1] = "order"
    BY <1>5
  <2>3. j[1] = "order"
    BY <2>1, <2>2 DEF NewKey
  <2>4. At(M, H) = mine[j]
    BY <1>1, <1>8, <2>1, <2>3, AddedIsThere
  <2>. QED  BY <1>0, <2>4 DEF Document
<1>9. CASE H \notin DOMAIN base /\ H \notin DOMAIN r
  <2>1. H \in DOMAIN theirs
    <3>1. ASSUME NEW n \in Numbers(mine), n \in Nat, N = NewNumber(n, base, mine, theirs) PROVE FALSE
      <4>1. PICK j : j = <<"order", n>>
        OBVIOUS
      <4>2. j \in DOMAIN mine /\ j[1] = "order"
        BY <1>0, <3>1, <4>1, OrderKeys
      <4>3. H = NewKey(j, base, mine, theirs)
        BY <1>5, <3>1, <4>1, OrderGoes
      <4>4. H \in DOMAIN r
        BY <1>1, <4>2, <4>3 DEF Renumbered
      <4>. QED  BY <1>9, <4>4
    <3>. QED  BY <1>0, <1>4, <1>5, <3>1, OrderKeys
  <2>2. At(r, H) = At(base, H) /\ At(theirs, H) # Absent
    BY <1>0, <1>9, <2>1 DEF At, Document
  <2>. QED  BY <1>1, <2>2, MergedAt, PickedIs
<1>. QED  BY <1>7, <1>8, <1>9

\* A copy that stays as it is under renumbering has no number to move.
LEMMA NothingMoved ==
    ASSUME NEW base, NEW mine, NEW theirs, Documents(base, mine, theirs), Renumbered(base, mine, theirs) = mine
    PROVE  /\ MovedOrders(base, mine, theirs) = {}
           /\ \A n \in Nat : MovedLines(n, base, mine, theirs) = {}
<1>0. Document(base) /\ Document(mine) /\ Document(theirs)
  BY DEF Documents
<1>1. \A j \in DOMAIN mine : NewKey(j, base, mine, theirs) = j
  <2>1. \A j \in DOMAIN mine : NewKey(j, base, mine, theirs) \in DOMAIN mine
    BY DEF Renumbered
  <2>. QED  BY <2>1, MovesAside
<1>2. MovedOrders(base, mine, theirs) = {}
  <2>1. SUFFICES ASSUME NEW n \in MovedOrders(base, mine, theirs) PROVE FALSE
    OBVIOUS
  <2>2. PICK j : j = <<"order", n>>
    OBVIOUS
  <2>3. n \in Numbers(mine) /\ Collides(base, mine, theirs, j)
    BY <2>2 DEF MovedOrders
  <2>4. j \in DOMAIN mine /\ j \in DOMAIN theirs /\ j \notin DOMAIN base /\ mine[j] # theirs[j] /\ j[1] = "order"
    BY <2>2, <2>3 DEF Collides
  <2>. QED  BY <1>1, <2>4, StaysSame
<1>3. \A n \in Nat : MovedLines(n, base, mine, theirs) = {}
  <2>1. SUFFICES ASSUME NEW n \in Nat, NEW l \in MovedLines(n, base, mine, theirs) PROVE FALSE
    OBVIOUS
  <2>2. PICK j : j = <<"line", n, l>>
    OBVIOUS
  <2>3. Collides(base, mine, theirs, j)
    BY <2>2 DEF MovedLines
  <2>4. j \in DOMAIN mine /\ j \in DOMAIN theirs /\ j \notin DOMAIN base /\ mine[j] # theirs[j] /\ j[1] = "line"
    BY <2>2, <2>3 DEF Collides
  <2>. QED  BY <1>1, <2>4, StaysSame
<1>. QED  BY <1>2, <1>3

\* What need not move on one side need not move on the other.
LEMMA NothingMovesEither ==
    ASSUME NEW base, NEW mine, NEW theirs, Documents(base, mine, theirs), Renumbered(base, mine, theirs) = mine
    PROVE  Renumbered(base, theirs, mine) = theirs
<1>0. Document(base) /\ Document(mine) /\ Document(theirs) /\ Documents(base, theirs, mine)
  BY DEF Documents
<1>1. \A j : Collides(base, theirs, mine, j) <=> Collides(base, mine, theirs, j)
  BY DEF Collides
<1>2. MovedOrders(base, theirs, mine) = {}
  <2>1. SUFFICES ASSUME NEW n \in MovedOrders(base, theirs, mine) PROVE FALSE
    OBVIOUS
  <2>2. n \in Numbers(theirs) /\ Collides(base, mine, theirs, <<"order", n>>)
    BY <1>1 DEF MovedOrders
  <2>3. n \in Nat
    BY <1>0, <2>2, OrderKeys
  <2>4. <<"order", n>> \in DOMAIN mine
    BY <2>2 DEF Collides
  <2>5. n \in Numbers(mine)
    BY <1>0, <2>3, <2>4, OrderKeys
  <2>6. n \in MovedOrders(base, mine, theirs)
    BY <2>2, <2>5 DEF MovedOrders
  <2>. QED  BY <2>6, NothingMoved
<1>3. ASSUME NEW n \in Nat PROVE MovedLines(n, base, theirs, mine) = {}
  <2>1. SUFFICES ASSUME NEW l \in MovedLines(n, base, theirs, mine) PROVE FALSE
    OBVIOUS
  <2>2. l \in LinesOf(theirs, n) /\ Collides(base, mine, theirs, <<"line", n, l>>)
    BY <1>1 DEF MovedLines
  <2>3. l \in Nat
    BY <1>0, <2>2, LineKeys
  <2>4. <<"line", n, l>> \in DOMAIN mine
    BY <2>2 DEF Collides
  <2>5. l \in LinesOf(mine, n)
    BY <1>0, <2>3, <2>4, LineKeys
  <2>6. l \in MovedLines(n, base, mine, theirs)
    BY <2>2, <2>5 DEF MovedLines
  <2>. QED  BY <2>6, NothingMoved
<1>4. ASSUME NEW n PROVE NewNumber(n, base, theirs, mine) = n
  BY <1>2 DEF NewNumber
<1>5. ASSUME NEW j \in DOMAIN theirs PROVE NewKey(j, base, theirs, mine) = j
  <2>1. ASSUME NEW n \in Numbers(theirs), n \in Nat, j = <<"order", n>>
        PROVE  NewKey(j, base, theirs, mine) = j
    BY <1>4, <2>1, OrderGoes
  <2>2. ASSUME NEW n \in Numbers(theirs), n \in Nat, NEW l \in LinesOf(theirs, n), l \in Nat, j = <<"line", n, l>>
        PROVE  NewKey(j, base, theirs, mine) = j
    <3>1. NewLine(n, l, base, theirs, mine) = l
      BY <1>3, <2>2 DEF NewLine
    <3>2. LineNumber(n, l, base, theirs, mine) = l /\ NewNumber(n, base, theirs, mine) = n
      BY <1>4, <3>1 DEF LineNumber
    <3>. QED  BY <1>0, <2>2, <3>2, LineGoes
  <2>. QED  BY <1>0, <2>1, <2>2, KeyKinds, OtherGoes
<1>6. ASSUME NEW j \in DOMAIN theirs PROVE Follow(j, theirs[j], base, theirs, mine) = theirs[j]
  <2>1. CASE j[1] = "link"
    <3>1. PICK c : c = theirs[j]
      OBVIOUS
    <3>2. j \in OfKind(theirs, "link")
      BY <2>1 DEF OfKind
    <3>3. c \in LinkTo(c.text)
      BY <1>0, <3>1, <3>2 DEF Document
    <3>4. [c EXCEPT !.order = c.order] = c
      BY <3>3 DEF LinkTo
    <3>5. NewNumber(c.order, base, theirs, mine) = c.order
      BY <1>4
    <3>. QED  BY <2>1, <3>1, <3>4, <3>5 DEF Follow
  <2>2. CASE j[1] # "link"
    BY <2>2 DEF Follow
  <2>. QED  BY <2>1, <2>2
<1>7. PICK R : R = Renumbered(base, theirs, mine)
  OBVIOUS
<1>8. DOMAIN R = DOMAIN theirs
  <2>1. DOMAIN R = {NewKey(j, base, theirs, mine) : j \in DOMAIN theirs}
    BY <1>7 DEF Renumbered
  <2>. QED  BY <1>5, <2>1
<1>9. \A j \in DOMAIN theirs : R[j] = theirs[j]
  <2>1. SUFFICES ASSUME NEW j \in DOMAIN theirs PROVE R[j] = theirs[j]
    OBVIOUS
  <2>2. At(R, j) = theirs[j]
    BY <1>0, <1>5, <1>6, <1>7, RenumberedHas
  <2>. QED  BY <1>8, <2>2 DEF At
<1>10. R = [j \in DOMAIN R |-> R[j]]
  BY <1>7 DEF Renumbered
<1>11. theirs = [j \in DOMAIN theirs |-> theirs[j]]
  BY <1>0 DEF Document
<1>. QED  BY <1>7, <1>8, <1>9, <1>10, <1>11

\* Where nothing is renumbered and nothing clashes, the company is the same whoever
\* saved first (merge).
THEOREM MergeEitherWay ==
    ASSUME NEW base, NEW mine, NEW theirs, NEW choose, NEW p, NEW other, NEW q,
           Documents(base, mine, theirs),
           Renumbered(base, mine, theirs) = mine, Conflicts(base, mine, theirs) = {}
    PROVE  Merge(base, mine, theirs, choose, p) = Merge(base, theirs, mine, other, q)
<1>1. Renumbered(base, theirs, mine) = theirs
  BY NothingMovesEither
<1>2. \A k : ~Conflict(k, base, mine, theirs)
  <2>1. \A k \in DOMAIN mine \cup DOMAIN theirs \cup DOMAIN base : ~Conflict(k, base, mine, theirs)
    BY DEF Conflicts
  <2>2. \A k : k \notin DOMAIN mine \cup DOMAIN theirs \cup DOMAIN base => ~Conflict(k, base, mine, theirs)
    BY DEF Conflict, At
  <2>. QED  BY <2>1, <2>2
<1>3. PICK A, B : A = Merge(base, mine, theirs, choose, p) /\ B = Merge(base, theirs, mine, other, q)
  OBVIOUS
<1>4. \A k : Picked(k, base, mine, theirs, choose, p) = Picked(k, base, theirs, mine, other, q)
  BY <1>2 DEF Picked, Conflict
<1>5. /\ A = [k \in {j \in DOMAIN mine \cup DOMAIN theirs : Picked(j, base, mine, theirs, choose, p) # Absent} |->
                Picked(k, base, mine, theirs, choose, p)]
      /\ B = [k \in {j \in DOMAIN theirs \cup DOMAIN mine : Picked(j, base, theirs, mine, other, q) # Absent} |->
                Picked(k, base, theirs, mine, other, q)]
  BY <1>1, <1>3 DEF Merge
<1>6. DOMAIN A = DOMAIN B /\ \A k \in DOMAIN A : A[k] = B[k]
  BY <1>4, <1>5
<1>7. A = [k \in DOMAIN A |-> A[k]] /\ B = [k \in DOMAIN B |-> B[k]]
  BY <1>5
<1>8. A = B
  BY <1>6, <1>7
<1>. QED  BY <1>3, <1>8

-----------------------------------------------------------------------------
(* The same of every merge asked for (Merging).                               *)

\* What is given is three documents, and what is made is their merge.
MergingInv ==
    /\ Documents(given.base, given.mine, given.theirs)
    /\ PointsHome(given.base) /\ NoNumberAgain(given.base, given.mine, given.theirs)
    /\ Done => merged = Merge(given.base, given.mine, given.theirs, decided.choose, decided.preferMine)

LEMMA MergingStarts == MergingInit => MergingInv
<1>1. SUFFICES ASSUME NEW b \in Bases, NEW m \in MineOn[b], NEW t \in TheirsOn[b],
                      NoNumberAgain(b, m, t), given = [base |-> b, mine |-> m, theirs |-> t],
                      merged = Absent
               PROVE  MergingInv
  BY DEF MergingInit
<1>2. given.base = b /\ given.mine = m /\ given.theirs = t
  BY <1>1
<1>3. Documents(b, m, t) /\ PointsHome(b)
  BY MergingAssumption DEF Documents
<1>. QED  BY <1>1, <1>2, <1>3 DEF MergingInv, Done

LEMMA MergingGoes == MergingInv /\ [MergingNext]_mergingVars => MergingInv'
<1>1. SUFFICES ASSUME MergingInv, [MergingNext]_mergingVars PROVE MergingInv'
  OBVIOUS
<1>2. CASE DoMerge
  <2>1. PICK d : merged' = Merge(given.base, given.mine, given.theirs, d.choose, d.preferMine)
                 /\ decided' = d /\ given' = given
    BY <1>2 DEF DoMerge
  <2>. QED  BY <1>1, <2>1 DEF MergingInv
<1>3. CASE UNCHANGED mergingVars
  BY <1>1, <1>3 DEF MergingInv, mergingVars, Done
<1>. QED  BY <1>1, <1>2, <1>3 DEF MergingNext

LEMMA MergingAlways == MergingSpec => []MergingInv
BY MergingStarts, MergingGoes, PTL DEF MergingSpec

\* A merge loses neither side's work, whatever was edited and decided.
THEOREM NothingLost == MergingSpec => []BothSurvive
<1>1. MergingInv => BothSurvive
  BY MergeLeavesTheirs, MergeKeepsMine DEF MergingInv, BothSurvive
<1>. QED  BY <1>1, MergingAlways, PTL

\* Nothing in what a merge makes points at what is not there, or at something else.
THEOREM PointsRight == MergingSpec => []NothingDangles
<1>1. MergingInv => NothingDangles
  BY MergeKeepsLinks, MergeKeepsHeaders DEF MergingInv, NothingDangles
<1>. QED  BY <1>1, MergingAlways, PTL

\* With nothing renumbered and no clash, whoever saves first the company is the same.
THEOREM WhoeverIsFirst == MergingSpec => []EitherOrder
<1>1. MergingInv => EitherOrder
  <2>1. SUFFICES ASSUME MergingInv, Done, Conflicts(given.base, given.mine, given.theirs) = {},
                        Renumbered(given.base, given.mine, given.theirs) = given.mine
                 PROVE  merged = Merge(given.base, given.theirs, given.mine, [k \in {} |-> "mine"], FALSE)
    BY DEF EitherOrder
  <2>2. PICK b, m, t, choose, p, other, q :
           /\ b = given.base /\ m = given.mine /\ t = given.theirs
           /\ choose = decided.choose /\ p = decided.preferMine /\ other = [k \in {} |-> "mine"]
           /\ q = FALSE
    OBVIOUS
  <2>3. /\ Documents(b, m, t) /\ merged = Merge(b, m, t, choose, p)
        /\ Renumbered(b, m, t) = m /\ Conflicts(b, m, t) = {}
    BY <2>1, <2>2 DEF MergingInv
  <2>4. Merge(b, m, t, choose, p) = Merge(b, t, m, other, q)
    BY <2>3, MergeEitherWay
  <2>. QED  BY <2>2, <2>3, <2>4
<1>. QED  BY <1>1, MergingAlways, PTL

-----------------------------------------------------------------------------
(* The company. *)

LogOK ==
    /\ log \in Seq({log[n] : n \in DOMAIN log}) /\ Len(log) > 0
    /\ \A n \in 1..Len(log) : IsEntry(log[n])

RequestsOK ==
    /\ requests \in Seq({requests[i] : i \in DOMAIN requests})
    /\ \A i \in 1..Len(requests) : IsRequest(requests[i])

\* One record of a merge without a clash: it differs from the latest save only
\* where that save left the record as both started from.
LEMMA MergeKeepsTheirs ==
    ASSUME NEW b, NEW m, NEW t, NEW c, NEW p \in BOOLEAN, NEW k,
           Conflicts(b, m, t) = {},
           At(Merge(b, m, t, c, p), k) # At(t, k)
    PROVE  At(t, k) = At(b, k)
<1> DEFINE r == Renumbered(b, m, t)
           Result(j) == Picked(j, b, r, t, c, p)
           dom == {j \in DOMAIN r \cup DOMAIN t : Result(j) # Absent}
<1>1. Merge(b, m, t, c, p) = [j \in dom |-> Result(j)]
  BY DEF Merge
<1>2. CASE k \in DOMAIN r \cup DOMAIN t
  <2>1. At(Merge(b, m, t, c, p), k) = Result(k)
    <3> HIDE DEF r, Result
    <3> QED
      BY <1>1, <1>2 DEF At
  <2>2. ~Conflict(k, b, r, t)
    BY <1>2 DEF Conflicts
  <2> QED
    BY <2>1, <2>2 DEF Picked, Conflict
<1>3. CASE k \notin DOMAIN r \cup DOMAIN t
  <2>1. At(Merge(b, m, t, c, p), k) = Absent
    <3> HIDE DEF r, Result
    <3> QED
      BY <1>1, <1>3 DEF At
  <2> QED
    BY <2>1, <1>3 DEF At
<1> QED
  BY <1>2, <1>3

\* One record of a save whose master data is held apart.
LEMMA WithoutMasterRecord ==
    ASSUME NEW c, NEW d, NEW k
    PROVE  At(WithoutMaster(c, d), k) = IF IsMaster(k) THEN At(c, k) ELSE At(d, k)
BY DEF WithoutMaster, At

LEMMA WithoutMasterKeepsIt ==
    ASSUME NEW c, NEW d
    PROVE  MasterPart(WithoutMaster(c, d)) = MasterPart(c)
BY DEF MasterPart, WithoutMaster

\* One record of an approved change.
LEMMA ApplyHeldRecord ==
    ASSUME NEW c, NEW q, NEW k
    PROVE  At(ApplyHeld(c, q), k) = IF k \in HeldKeys(q) THEN At(q.after, k) ELSE At(c, k)
BY DEF ApplyHeld, At

\* The documents the handlers make are documents.
LEMMA MadeDocs ==
    ASSUME NEW c, NEW d
    PROVE  /\ IsDoc(WithoutMaster(c, d))
           /\ IsDoc(ApplyHeld(c, d))
           /\ \A b, m, t, x, p : IsDoc(Merge(b, m, t, x, p))
BY DEF IsDoc, WithoutMaster, ApplyHeld, Merge
-----------------------------------------------------------------------------
(* A revision added to the log. *)

LEMMA Appended ==
    ASSUME LogOK, NEW d, IsDoc(d), NEW u \in Users, NEW w \in Clients \cup {NoClient},
           log' = Append(log, Entry(d, u, w))
    PROVE  /\ LogOK'
           /\ Len(log') = Revision + 1
           /\ log'[Len(log')] = Entry(d, u, w)
           /\ \A n \in 1..Revision : log'[n] = log[n]
<1>1. log \in Seq({log[n] : n \in DOMAIN log} \cup {Entry(d, u, w)})
  <2>1. \A n \in 1..Len(log) : log[n] \in {log[k] : k \in DOMAIN log} \cup {Entry(d, u, w)}
    BY DEF LogOK
  <2> QED
    BY <2>1, IsASeq DEF LogOK
<1>2. /\ Len(log') = Len(log) + 1
      /\ log'[Len(log) + 1] = Entry(d, u, w)
      /\ \A n \in 1..Len(log) : log'[n] = log[n]
      /\ DOMAIN log' = 1..(Len(log) + 1)
      /\ log' \in Seq({log[n] : n \in DOMAIN log} \cup {Entry(d, u, w)})
  BY <1>1 DEF LogOK
<1>3. Len(log) \in Nat /\ Len(log) > 0
  BY DEF LogOK
<1>4. log' \in Seq({log'[n] : n \in DOMAIN log'})
  BY <1>2, <1>3, IsASeq
<1>5. IsEntry(Entry(d, u, w))
  BY DEF IsEntry, Entry
<1>6. \A n \in 1..Len(log') : IsEntry(log'[n])
  BY <1>2, <1>3, <1>5 DEF LogOK
<1> QED
  BY <1>2, <1>3, <1>4, <1>6 DEF LogOK, Revision

LEMMA Stored ==
    ASSUME LogOK, NEW d, IsDoc(d), NEW u \in Users, NEW w \in Clients \cup {NoClient},
           NEW action, Store(d, u, w, action)
    PROVE  /\ LogOK'
           /\ \/ log' = log
              \/ /\ Len(log') = Revision + 1
                 /\ After = IF approval /\ action # "approved"
                            THEN WithoutMaster(Current, d) ELSE d
                 /\ \A n \in 1..Revision : log'[n] = log[n]
<1> DEFINE text == IF approval /\ action # "approved" THEN WithoutMaster(Current, d) ELSE d
<1>1. log' = log \/ log' = Append(log, Entry(text, u, w))
  BY DEF Store
<1>2. IsDoc(text)
  BY MadeDocs
<1> HIDE DEF text
<1>3. CASE log' = log
  BY <1>3 DEF LogOK
<1>4. CASE log' = Append(log, Entry(text, u, w))
  <2>1. /\ LogOK'
        /\ Len(log') = Revision + 1
        /\ log'[Len(log')] = Entry(text, u, w)
        /\ \A n \in 1..Revision : log'[n] = log[n]
    BY <1>2, <1>4, Appended
  <2>2. After = text
    BY <2>1 DEF After, Entry
  <2> QED
    BY <2>1, <2>2 DEF text
<1> QED
  BY <1>1, <1>3, <1>4

\* What Store does to the changes held: the earlier ones stay, and one may be
\* added, waiting.
LEMMA StoredRequests ==
    ASSUME RequestsOK, NEW d, NEW u \in Users, NEW w, NEW action, Store(d, u, w, action)
    PROVE  /\ RequestsOK'
           /\ Len(requests') \in Nat /\ Len(requests') >= Len(requests)
           /\ \A i \in 1..Len(requests) : requests'[i] = requests[i]
           /\ \A i \in 1..Len(requests') : i > Len(requests) =>
                 requests'[i].status = "pending" /\ requests'[i].made = 0
<1> DEFINE new == HeldRequest(u, MasterPart(Current), MasterPart(d))
<1>1. requests' = requests \/ requests' = Append(requests, new)
  BY DEF Store
<1>2. IsRequest(new) /\ new.status = "pending" /\ new.made = 0
  BY DEF HeldRequest, IsRequest
<1> HIDE DEF new
<1>3. Len(requests) \in Nat
  BY DEF RequestsOK
<1>4. CASE requests' = requests
  BY <1>3, <1>4 DEF RequestsOK
<1>5. CASE requests' = Append(requests, new)
  <2>1. requests \in Seq({requests[i] : i \in DOMAIN requests} \cup {new})
    <3>1. \A i \in 1..Len(requests) : requests[i] \in {requests[k] : k \in DOMAIN requests} \cup {new}
      BY DEF RequestsOK
    <3> QED
      BY <3>1, IsASeq DEF RequestsOK
  <2>2. /\ Len(requests') = Len(requests) + 1
        /\ requests'[Len(requests) + 1] = new
        /\ \A i \in 1..Len(requests) : requests'[i] = requests[i]
        /\ DOMAIN requests' = 1..(Len(requests) + 1)
        /\ requests' \in Seq({requests[i] : i \in DOMAIN requests} \cup {new})
    BY <1>5, <2>1 DEF RequestsOK
  <2>3. requests' \in Seq({requests'[i] : i \in DOMAIN requests'})
    BY <1>3, <2>2, IsASeq
  <2>4. \A i \in 1..Len(requests') : IsRequest(requests'[i])
    BY <1>2, <1>3, <2>2 DEF RequestsOK
  <2> QED
    BY <1>2, <1>3, <2>2, <2>3, <2>4 DEF RequestsOK
<1> QED
  BY <1>1, <1>4, <1>5

\* A function on 1..n is a sequence of its own values, n long.
LEMMA Sequence ==
    ASSUME NEW f, NEW n \in Nat, f = [j \in 1..n |-> f[j]]
    PROVE  f \in Seq({f[j] : j \in DOMAIN f}) /\ Len(f) = n
<1>1. DOMAIN f = 1..n /\ \A j \in 1..n : f[j] \in {f[k] : k \in DOMAIN f}
  OBVIOUS
<1> DEFINE S == {f[k] : k \in DOMAIN f}
<1>2. f \in [1..n -> S]
  BY <1>1
<1>3. f \in Seq(S)
  <2> HIDE DEF S
  <2> QED
    BY <1>2, SeqDef
<1>4. Len(f) = n
  <2> HIDE DEF S
  <2> QED
    BY <1>1, <1>3, LenProperties
<1> QED
  BY <1>3, <1>4

\* One change held, marked or counted in place.
LEMMA Marked ==
    ASSUME RequestsOK, NEW i \in 1..Len(requests), NEW q, IsRequest(q),
           requests' = [requests EXCEPT ![i] = q]
    PROVE  /\ RequestsOK'
           /\ Len(requests') = Len(requests)
           /\ requests'[i] = q
           /\ \A j \in 1..Len(requests) : j # i => requests'[j] = requests[j]
<1>1. /\ DOMAIN requests = 1..Len(requests) /\ Len(requests) \in Nat
      /\ requests = [j \in 1..Len(requests) |-> requests[j]]
  BY DEF RequestsOK
<1>2. /\ requests'[i] = q
      /\ \A j \in 1..Len(requests) : j # i => requests'[j] = requests[j]
      /\ requests' = [j \in 1..Len(requests) |-> requests'[j]]
  BY <1>1
<1>3. requests' \in Seq({requests'[j] : j \in DOMAIN requests'}) /\ Len(requests') = Len(requests)
  <2>1. PICK f : f = requests'
    OBVIOUS
  <2>2. f \in Seq({f[j] : j \in DOMAIN f}) /\ Len(f) = Len(requests)
    <3>1. f = [j \in 1..Len(requests) |-> f[j]]
      BY <1>2, <2>1
    <3>2. PICK n \in Nat : n = Len(requests)
      BY <1>1
    <3> QED
      BY <3>1, <3>2, Sequence, Zenon
  <2> QED
    BY <2>1, <2>2
<1> QED
  BY <1>1, <1>2, <1>3 DEF RequestsOK
\* Counting a held change as made, and settling one, leave the rest of it alone.
LEMMA Counted ==
    ASSUME RequestsOK, NEW u, NEW c, NEW i \in 1..Len(requests), Approve(u, c, i)
    PROVE  /\ RequestsOK' /\ Len(requests') = Len(requests)
           /\ requests'[i].made = requests[i].made + 1
           /\ requests'[i].status = requests[i].status
           /\ requests'[i].asker = requests[i].asker
           /\ \A j \in 1..Len(requests) : j # i => requests'[j] = requests[j]
<1>1. PICK r : r = requests[i] /\ IsRequest(r)
  BY DEF RequestsOK
<1>2. PICK q : q = [r EXCEPT !.made = @ + 1]
  OBVIOUS
<1>3. /\ IsRequest(q) /\ q.made = r.made + 1 /\ q.status = r.status /\ q.asker = r.asker
  BY <1>1, <1>2 DEF IsRequest
<1>4. requests' = [requests EXCEPT ![i] = q]
  BY <1>1, <1>2 DEF Approve
<1> QED
  BY <1>1, <1>3, <1>4, Marked

LEMMA Settled ==
    ASSUME RequestsOK, NEW u \in Users, NEW i \in 1..Len(requests),
           NEW s \in {"approved", "rejected", "withdrawn"},
           requests' = [requests EXCEPT ![i].status = s, ![i].decider = u]
    PROVE  /\ RequestsOK' /\ Len(requests') = Len(requests)
           /\ requests'[i].made = requests[i].made
           /\ requests'[i].status = s
           /\ requests'[i].asker = requests[i].asker
           /\ requests'[i].decider = u
           /\ \A j \in 1..Len(requests) : j # i => requests'[j] = requests[j]
<1>1. PICK r : r = requests[i] /\ IsRequest(r)
  BY DEF RequestsOK
<1>2. PICK q : q = [r EXCEPT !.status = s, !.decider = u]
  OBVIOUS
<1>3. /\ IsRequest(q) /\ q.made = r.made /\ q.status = s /\ q.asker = r.asker /\ q.decider = u
  BY <1>1, <1>2 DEF IsRequest
<1>4. requests' = [requests EXCEPT ![i] = q]
  BY <1>1, <1>2
<1> QED
  BY <1>1, <1>3, <1>4, Marked
-----------------------------------------------------------------------------
(* Type correctness. *)

LEMMA NextTypeOK == TypeOK /\ [Next]_vars => TypeOK'
<1> SUFFICES ASSUME TypeOK, [Next]_vars
             PROVE  TypeOK'
  OBVIOUS
<1>0. LogOK /\ RequestsOK /\ Len(log) \in Nat /\ Len(requests) \in Nat
      /\ \A r \in 1..Revision : IsDoc(log[r].doc)
  <2>1. LogOK /\ RequestsOK
    BY DEF TypeOK, LogOK, RequestsOK
  <2>2. Len(log) \in Nat /\ Len(requests) \in Nat
    BY DEF TypeOK
  <2> QED
    BY <2>1, <2>2 DEF LogOK, Revision, IsEntry
<1> DEFINE Rest == /\ approval' \in BOOLEAN
                   /\ deciding' \in 0..Len(requests')
                   /\ cut' \subseteq 1..Len(requests')
                   /\ deciding' # 0 => last'.user \in Users
<1>1. SUFFICES LogOK' /\ RequestsOK' /\ Rest
  BY DEF TypeOK, LogOK, RequestsOK
<1>2. ASSUME NEW u \in Users, NEW c \in Clients \cup {NoClient}, NEW d, IsDoc(d), NEW action,
             Store(d, u, c, action), deciding = 0, UNCHANGED <<approval, deciding, cut>>
      PROVE  LogOK' /\ RequestsOK' /\ Rest
  <2>1. LogOK'
    BY <1>0, <1>2, Stored
  <2>2. RequestsOK' /\ Len(requests') \in Nat /\ Len(requests') >= Len(requests)
    BY <1>0, <1>2, StoredRequests
  <2>3. cut' \subseteq 1..Len(requests')
    BY <1>0, <1>2, <2>2 DEF TypeOK
  <2> QED
    BY <1>2, <2>1, <2>2, <2>3 DEF TypeOK
<1>3. ASSUME NEW u \in Users, NEW c \in Clients \cup {NoClient}, NEW b \in 1..Revision,
             NEW d \in Docs, Save(u, c, d, b)
      PROVE  LogOK' /\ RequestsOK' /\ Rest
  <2>1. IsDoc(d)
    BY DocsAssumption DEF IsDoc
  <2> QED
    BY <1>2, <1>3, <2>1 DEF Save, Ready
<1>4. ASSUME NEW u \in Users, NEW c \in Clients \cup {NoClient}, NEW b \in 1..Revision,
             NEW r \in 1..Revision, Restore(u, c, r, b)
      PROVE  LogOK' /\ RequestsOK' /\ Rest
  BY <1>0, <1>2, <1>4 DEF Restore, Ready
<1>5. ASSUME NEW u \in Users, NEW c \in Clients \cup {NoClient}, NEW b \in 1..Revision,
             NEW d \in Docs, NEW quiet \in BOOLEAN, NEW x \in Choices,
             MergeSave(u, c, d, b, quiet, x)
      PROVE  LogOK' /\ RequestsOK' /\ Rest
  <2>1. IsDoc(Merge(log[b].doc, d, Current, x, MineOnly(b, u)))
    BY MadeDocs
  <2> QED
    BY <1>2, <1>5, <2>1 DEF MergeSave, MergeFrom, Ready
<1>6. ASSUME NEW on \in BOOLEAN, SetApproval(on)
      PROVE  LogOK' /\ RequestsOK' /\ Rest
  BY <1>0, <1>6 DEF SetApproval, Ready, LogOK, RequestsOK, TypeOK
<1>7. ASSUME NEW u \in Users, NEW i \in 1..Len(requests), NEW c \in Clients \cup {NoClient},
             Approve(u, c, i)
      PROVE  LogOK' /\ RequestsOK' /\ Rest
  <2>1. LogOK'
    <3> DEFINE new == ApplyHeld(Current, requests[i])
    <3>1. IsDoc(new)
      BY MadeDocs
    <3>2. log' = log \/ log' = Append(log, Entry(new, u, c))
      BY <1>7 DEF Approve
    <3> HIDE DEF new
    <3>3. CASE log' = log
      BY <1>0, <3>3 DEF LogOK
    <3>4. CASE log' = Append(log, Entry(new, u, c))
      BY <1>0, <3>1, <3>4, Appended
    <3> QED
      BY <3>2, <3>3, <3>4
  <2>2. RequestsOK' /\ Len(requests') = Len(requests)
    BY <1>0, <1>7, Counted
  <2>3. approval' = approval /\ cut' = cut /\ deciding' = i /\ last'.user = u
    BY <1>7 DEF Approve, Serves
  <2> QED
    BY <1>0, <2>1, <2>2, <2>3 DEF TypeOK
<1>8. ASSUME NEW u \in Users, NEW i \in 1..Len(requests), Refuse(u, i)
      PROVE  LogOK' /\ RequestsOK' /\ Rest
  <2>1. LogOK'
    BY <1>0, <1>8 DEF Refuse, LogOK
  <2>2. RequestsOK' /\ Len(requests') = Len(requests)
    <3>1. PICK s \in {"rejected", "withdrawn"} :
             requests' = [requests EXCEPT ![i].status = s, ![i].decider = u]
      BY <1>8 DEF Refuse
    <3> QED
      BY <1>0, <3>1, Settled
  <2> QED
    BY <1>0, <1>8, <2>1, <2>2 DEF Refuse, Ready, TypeOK
<1>9. CASE MarkApproved
  <2>1. LogOK'
    BY <1>0, <1>9 DEF MarkApproved, LogOK
  <2>2. deciding \in 1..Len(requests) /\ last.user \in Users
    BY <1>0, <1>9 DEF MarkApproved, TypeOK
  <2>3. RequestsOK' /\ Len(requests') = Len(requests)
    <3>1. PICK i \in 1..Len(requests), u \in Users : i = deciding /\ u = last.user
      BY <2>2
    <3>2. requests' = [requests EXCEPT ![i].status = "approved", ![i].decider = u]
      BY <1>9, <3>1 DEF MarkApproved
    <3> QED
      BY <1>0, <3>2, Settled
  <2> QED
    BY <1>0, <1>9, <2>1, <2>3 DEF MarkApproved, TypeOK
<1>10. CASE Crash
  BY <1>0, <1>10 DEF Crash, LogOK, RequestsOK, TypeOK
<1>11. CASE UNCHANGED vars
  BY <1>0, <1>11 DEF vars, LogOK, RequestsOK, TypeOK
<1> QED
  BY <1>3, <1>4, <1>5, <1>6, <1>7, <1>8, <1>9, <1>10, <1>11 DEF Next

LEMMA InitTypeOK == Init => TypeOK
<1> SUFFICES ASSUME Init
             PROVE  TypeOK
  OBVIOUS
<1>1. PICK d \in Docs, u \in Users : log = <<Entry(d, u, NoClient)>>
  BY DEF Init
<1>2. Len(log) = 1 /\ DOMAIN log = 1..1 /\ log[1] = Entry(d, u, NoClient)
  BY <1>1
<1>3. log \in Seq({log[n] : n \in DOMAIN log})
  BY <1>1, <1>2
<1>4. requests = <<>> /\ Len(requests) = 0 /\ DOMAIN requests = {}
  BY DEF Init
<1>5. requests \in Seq({requests[i] : i \in DOMAIN requests})
  BY <1>4
<1>6. IsEntry(Entry(d, u, NoClient))
  BY DocsAssumption DEF IsDoc, IsEntry, Entry
<1> QED
  BY <1>2, <1>3, <1>4, <1>5, <1>6 DEF Init, TypeOK

\* Type correctness of every reachable state: in particular every revision is a
\* whole document and a decision under way names a change that is held.
THEOREM TypeCorrect == Spec => []TypeOK
  BY InitTypeOK, NextTypeOK, PTL DEF Spec
-----------------------------------------------------------------------------
(* Never over a colleague unseen. *)

\* What a step that stores a document leaves of one record.
LEMMA StoredRecord ==
    ASSUME LogOK, NEW d, IsDoc(d), NEW u \in Users, NEW w \in Clients \cup {NoClient},
           NEW action, Store(d, u, w, action), NEW k,
           At(After, k) # At(Current, k)
    PROVE  At(After, k) = At(d, k)
<1>1. CASE log' = log
  BY <1>1 DEF After, Current, Revision
<1>2. CASE After = IF approval /\ action # "approved" THEN WithoutMaster(Current, d) ELSE d
  BY <1>2, WithoutMasterRecord
<1> QED
  BY <1>1, <1>2, Stored

LEMMA UnseenStep ==
    ASSUME TypeOK, [Next]_vars, NEW k,
           log' # log, last'.quiet,
           At(After, k) # At(Current, k),
           At(Current, k) # At(log[last'.base].doc, k)
    PROVE  IF last'.action = "merged" THEN AllByUser(last'.base, last'.user)
           ELSE AllFromWindow(last'.base, last'.user, last'.client)
<1>0. LogOK
  BY DEF TypeOK, LogOK
<1>1. ASSUME NEW u \in Users, NEW c \in Clients \cup {NoClient}, NEW b \in 1..Revision,
             NEW action, action # "merged", Accepted(b, u, c), Serves(action, u, c, b, TRUE)
      PROVE  AllFromWindow(last'.base, last'.user, last'.client) /\ last'.action # "merged"
  BY <1>1 DEF Accepted, Own, AllFromWindow, Serves, Current
<1>2. ASSUME NEW u \in Users, NEW c \in Clients \cup {NoClient}, NEW b \in 1..Revision,
             NEW d \in Docs, Save(u, c, d, b)
      PROVE  AllFromWindow(last'.base, last'.user, last'.client) /\ last'.action # "merged"
  BY <1>1, <1>2 DEF Save
<1>3. ASSUME NEW u \in Users, NEW c \in Clients \cup {NoClient}, NEW b \in 1..Revision,
             NEW r \in 1..Revision, Restore(u, c, r, b)
      PROVE  AllFromWindow(last'.base, last'.user, last'.client) /\ last'.action # "merged"
  BY <1>1, <1>3 DEF Restore
<1>4. ASSUME NEW u \in Users, NEW c \in Clients \cup {NoClient}, NEW b \in 1..Revision,
             NEW d \in Docs, NEW quiet \in BOOLEAN, NEW x \in Choices,
             MergeSave(u, c, d, b, quiet, x)
      PROVE  AllByUser(last'.base, last'.user) /\ last'.action = "merged"
  <2>1. last'.action = "merged" /\ last'.user = u /\ last'.base = b /\ quiet
    BY <1>4 DEF MergeSave, MergeFrom, Serves
  <2>2. CASE MineOnly(b, u)
    BY <2>1, <2>2 DEF MineOnly, AllByUser
  <2>3. CASE Conflicts(log[b].doc, d, Current) = {}
    <3> DEFINE new == Merge(log[b].doc, d, Current, x, MineOnly(b, u))
    <3>1. IsDoc(new) /\ Store(new, u, c, "merged")
      BY <1>4, MadeDocs DEF MergeSave, MergeFrom
    <3>2. At(new, k) # At(Current, k)
      <4> HIDE DEF new
      <4> QED
        BY <1>0, <3>1, StoredRecord
    <3>3. MineOnly(b, u) \in BOOLEAN
      BY DEF MineOnly
    <3>4. At(Current, k) = At(log[b].doc, k)
      BY <2>3, <3>2, <3>3, MergeKeepsTheirs
    <3> QED
      BY <2>1, <3>4
  <2> QED
    BY <1>4, <2>1, <2>2, <2>3 DEF MergeSave, MergeFrom
<1>5. ASSUME NEW u \in Users, NEW i \in 1..Len(requests), NEW c \in Clients \cup {NoClient},
             Approve(u, c, i)
      PROVE  FALSE
  BY <1>5 DEF Approve, Serves, Current
<1>6. ASSUME \/ \E on \in BOOLEAN : SetApproval(on)
             \/ \E u \in Users, i \in 1..Len(requests) : Refuse(u, i)
             \/ MarkApproved \/ Crash \/ UNCHANGED vars
      PROVE  FALSE
  BY <1>6 DEF SetApproval, Refuse, MarkApproved, Crash, vars
<1> QED
  BY <1>2, <1>3, <1>4, <1>5, <1>6 DEF Next

\* A record that changed since the revision a save, a put-back or a quiet merge
\* was based on is replaced only by the window (merging: the person) that made
\* every save since: store.save, restore, merge_save and decide.
THEOREM NeverUnseen == Spec => NeverOverUnseen
<1>1. TypeOK /\ [Next]_vars =>
        [\A k \in DOMAIN Current \cup DOMAIN After :
          /\ log' # log /\ last'.quiet
          /\ At(After, k) # At(Current, k)
          /\ At(Current, k) # At(log[last'.base].doc, k)
          => IF last'.action = "merged" THEN AllByUser(last'.base, last'.user)
             ELSE AllFromWindow(last'.base, last'.user, last'.client)]_vars
  BY UnseenStep
<1> QED
  BY <1>1, TypeCorrect, PTL DEF Spec, NeverOverUnseen
-----------------------------------------------------------------------------
(* Master data changes only with two people. *)

LEMMA ApartStep ==
    ASSUME LogOK, approval, NEW d, IsDoc(d), NEW u \in Users, NEW w \in Clients \cup {NoClient},
           NEW action, action # "approved", Store(d, u, w, action)
    PROVE  MasterPart(After) = MasterPart(Current)
<1>1. CASE log' = log
  BY <1>1 DEF After, Current, Revision
<1>2. CASE After = WithoutMaster(Current, d)
  BY <1>2, WithoutMasterKeepsIt
<1> QED
  BY <1>1, <1>2, Stored

LEMMA TwoPeopleStep ==
    ASSUME TypeOK, [Next]_vars, approval, MasterPart(After) # MasterPart(Current)
    PROVE  \E i \in 1..Len(requests) :
              /\ requests[i].status = "pending" /\ requests[i].asker # last'.user
              /\ \A k \in DOMAIN Current \cup DOMAIN After :
                   At(After, k) # At(Current, k) =>
                      /\ At(Current, k) = At(requests[i].before, k)
                      /\ At(After, k) = At(requests[i].after, k)
<1>0. LogOK
  BY DEF TypeOK, LogOK
<1>1. log' # log
  BY DEF After, Current, Revision
<1>2. ASSUME NEW u \in Users, NEW c \in Clients \cup {NoClient}, NEW b \in 1..Revision,
             NEW d \in Docs, Save(u, c, d, b)
      PROVE  FALSE
  <2>1. IsDoc(d)
    BY DocsAssumption DEF IsDoc
  <2> QED
    BY <1>0, <1>2, <2>1, ApartStep DEF Save
<1>3. ASSUME NEW u \in Users, NEW c \in Clients \cup {NoClient}, NEW b \in 1..Revision,
             NEW r \in 1..Revision, Restore(u, c, r, b)
      PROVE  FALSE
  <2>1. IsDoc(log[r].doc)
    BY <1>0 DEF LogOK, Revision, IsEntry
  <2> QED
    BY <1>0, <1>3, <2>1, ApartStep DEF Restore
<1>4. ASSUME NEW u \in Users, NEW c \in Clients \cup {NoClient}, NEW b \in 1..Revision,
             NEW d \in Docs, NEW quiet \in BOOLEAN, NEW x \in Choices,
             MergeSave(u, c, d, b, quiet, x)
      PROVE  FALSE
  <2>1. IsDoc(Merge(log[b].doc, d, Current, x, MineOnly(b, u)))
    BY MadeDocs
  <2> QED
    BY <1>0, <1>4, <2>1, ApartStep DEF MergeSave, MergeFrom
<1>5. ASSUME NEW u \in Users, NEW i \in 1..Len(requests), NEW c \in Clients \cup {NoClient},
             Approve(u, c, i)
      PROVE  /\ requests[i].status = "pending" /\ requests[i].asker # last'.user
             /\ \A k : At(After, k) # At(Current, k) =>
                          /\ At(Current, k) = At(requests[i].before, k)
                          /\ At(After, k) = At(requests[i].after, k)
  <2> DEFINE new == ApplyHeld(Current, requests[i])
  <2>1. log' = Append(log, Entry(new, u, c)) /\ last'.user = u
    BY <1>1, <1>5 DEF Approve, Serves
  <2>2. IsDoc(new)
    BY MadeDocs
  <2>3. After = new
    <3> HIDE DEF new
    <3> QED
      BY <1>0, <2>1, <2>2, Appended DEF After, Entry
  <2>4. ASSUME NEW k, At(After, k) # At(Current, k)
        PROVE  /\ At(Current, k) = At(requests[i].before, k)
               /\ At(After, k) = At(requests[i].after, k)
    BY <1>5, <2>3, <2>4, ApplyHeldRecord DEF Approve, Stale
  <2> QED
    BY <1>5, <2>1, <2>4 DEF Approve
<1>6. ASSUME \/ \E on \in BOOLEAN : SetApproval(on)
             \/ \E u \in Users, i \in 1..Len(requests) : Refuse(u, i)
             \/ MarkApproved \/ Crash \/ UNCHANGED vars
      PROVE  FALSE
  BY <1>1, <1>6 DEF SetApproval, Refuse, MarkApproved, Crash, vars
<1> QED
  BY <1>2, <1>3, <1>4, <1>5, <1>6 DEF Next

\* With approval on, a save, a put-back or a merge leaves the master data as it
\* is, and an approval makes exactly what somebody else asked for, over records
\* that are as they were when it was asked for.
THEOREM ChangesTakeTwo == Spec => TwoPeople
<1>1. TypeOK /\ [Next]_vars =>
        [approval /\ MasterPart(After) # MasterPart(Current)
         => \E i \in 1..Len(requests) :
             /\ requests[i].status = "pending" /\ requests[i].asker # last'.user
             /\ \A k \in DOMAIN Current \cup DOMAIN After :
                   At(After, k) # At(Current, k) =>
                      /\ At(Current, k) = At(requests[i].before, k)
                      /\ At(After, k) = At(requests[i].after, k)]_vars
  BY TwoPeopleStep
<1> QED
  BY <1>1, TypeCorrect, PTL DEF Spec, TwoPeople
-----------------------------------------------------------------------------
(* A held change is made once, by someone other than the one who asked,      *)
(* unless the server stopped within a decision of it.                        *)

\* Within a decision, the change has been made and is still marked waiting.
DecidingInv ==
    deciding # 0 =>
        /\ requests[deciding].status = "pending"
        /\ deciding \notin cut => requests[deciding].made = 1
        /\ requests[deciding].asker # last.user

DecisionInv == TypeOK /\ DecidingInv /\ MadeWhenApproved

LEMMA DecisionStep ==
    ASSUME DecisionInv, [Next]_vars
    PROVE  DecisionInv'
<1>0. /\ TypeOK /\ TypeOK' /\ RequestsOK
      /\ Len(requests) \in Nat
  BY NextTypeOK, SMTT(30) DEF DecisionInv, TypeOK, RequestsOK
<1> SUFFICES DecidingInv' /\ MadeWhenApproved'
  BY <1>0 DEF DecisionInv
<1>1. ASSUME NEW u \in Users, NEW c, NEW d, NEW action, Store(d, u, c, action),
             deciding = 0, deciding' = 0, cut' = cut
      PROVE  DecidingInv' /\ MadeWhenApproved'
  <2>1. /\ Len(requests') \in Nat
        /\ \A i \in 1..Len(requests) : requests'[i] = requests[i]
        /\ \A i \in 1..Len(requests') : i > Len(requests) =>
              requests'[i].status = "pending" /\ requests'[i].made = 0
    BY <1>0, <1>1, StoredRequests
  <2>2. ASSUME NEW i \in 1..Len(requests')
        PROVE  /\ i \notin cut' =>
                     requests'[i].made = IF requests'[i].status = "approved" THEN 1 ELSE 0
               /\ requests'[i].status \in {"approved", "rejected"} =>
                     requests'[i].decider # requests'[i].asker
    <3>1. CASE i \in 1..Len(requests)
      BY <1>1, <2>1, <3>1 DEF DecisionInv, MadeWhenApproved
    <3>2. CASE i > Len(requests)
      BY <2>1, <3>2
    <3> QED
      BY <1>0, <2>1, <3>1, <3>2
  <2> QED
    BY <1>1, <2>2 DEF DecidingInv, MadeWhenApproved
<1>2. ASSUME NEW u \in Users, NEW c \in Clients \cup {NoClient}, NEW b \in 1..Revision
      PROVE  \/ \E d \in Docs : Save(u, c, d, b)
             \/ \E r \in 1..Revision : Restore(u, c, r, b)
             \/ \E d \in Docs, quiet \in BOOLEAN, x \in Choices : MergeSave(u, c, d, b, quiet, x)
             => DecidingInv' /\ MadeWhenApproved'
  BY <1>1 DEF Save, Restore, MergeSave, MergeFrom, Ready
<1>3. ASSUME NEW on \in BOOLEAN, SetApproval(on)
      PROVE  DecidingInv' /\ MadeWhenApproved'
  BY <1>3 DEF SetApproval, Ready, DecisionInv, DecidingInv, MadeWhenApproved
<1>4. ASSUME NEW u \in Users, NEW i \in 1..Len(requests), NEW c, Approve(u, c, i)
      PROVE  DecidingInv' /\ MadeWhenApproved'
  <2>1. /\ deciding = 0 /\ deciding' = i /\ last'.user = u
        /\ requests[i].status = "pending" /\ requests[i].asker # u
    BY <1>4 DEF Approve, Ready, Serves
  <2>2. /\ Len(requests') = Len(requests)
        /\ requests'[i].made = requests[i].made + 1
        /\ requests'[i].status = requests[i].status
        /\ requests'[i].asker = requests[i].asker
        /\ \A j \in 1..Len(requests) : j # i => requests'[j] = requests[j]
    BY <1>0, <1>4, Counted
  <2>3. /\ i \notin cut => requests[i].made = 0
        /\ cut' = cut
    BY <1>4, <2>1 DEF DecisionInv, MadeWhenApproved, Approve
  <2> QED
    BY <2>1, <2>2, <2>3 DEF DecisionInv, DecidingInv, MadeWhenApproved
<1>5. ASSUME NEW u \in Users, NEW i \in 1..Len(requests), NEW s \in {"approved", "rejected", "withdrawn"},
             requests' = [requests EXCEPT ![i].status = s, ![i].decider = u],
             i \notin cut => requests[i].made = IF s = "approved" THEN 1 ELSE 0,
             cut' = cut,
             s \in {"approved", "rejected"} => requests[i].asker # u,
             deciding \in {0, i}, deciding' = 0
      PROVE  DecidingInv' /\ MadeWhenApproved'
  <2>1. /\ Len(requests') = Len(requests)
        /\ requests'[i].made = requests[i].made
        /\ requests'[i].status = s
        /\ requests'[i].asker = requests[i].asker
        /\ requests'[i].decider = u
        /\ \A j \in 1..Len(requests) : j # i => requests'[j] = requests[j]
    BY <1>0, <1>5, Settled
  <2>2. ASSUME NEW j \in 1..Len(requests'), j # i
        PROVE  /\ j \notin cut' =>
                     requests'[j].made = IF requests'[j].status = "approved" THEN 1 ELSE 0
               /\ requests'[j].status \in {"approved", "rejected"} =>
                     requests'[j].decider # requests'[j].asker
    BY <1>5, <2>1, <2>2 DEF DecisionInv, MadeWhenApproved
  <2> QED
    BY <1>5, <2>1, <2>2 DEF DecidingInv, MadeWhenApproved
<1>6. ASSUME NEW u \in Users, NEW i \in 1..Len(requests), Refuse(u, i)
      PROVE  DecidingInv' /\ MadeWhenApproved'
  <2>1. PICK s \in {"rejected", "withdrawn"} :
           /\ requests' = [requests EXCEPT ![i].status = s, ![i].decider = u]
           /\ s = "rejected" => requests[i].asker # u
    BY <1>6 DEF Refuse
  <2>2. deciding = 0 /\ deciding' = 0 /\ cut' = cut /\ requests[i].status = "pending"
    BY <1>6 DEF Refuse, Ready
  <2>3. i \notin cut => requests[i].made = 0
    BY <2>2 DEF DecisionInv, MadeWhenApproved
  <2> QED
    BY <1>5, <2>1, <2>2, <2>3
<1>7. CASE MarkApproved
  <2>1. PICK i \in 1..Len(requests), u \in Users : i = deciding /\ u = last.user
    <3>1. deciding \in 1..Len(requests) /\ last.user \in Users
      BY <1>0, <1>7 DEF MarkApproved, TypeOK
    <3> QED
      BY <3>1
  <2>2. /\ requests' = [requests EXCEPT ![i].status = "approved", ![i].decider = u]
        /\ deciding' = 0 /\ cut' = cut
    BY <1>7, <2>1 DEF MarkApproved
  <2>3. (i \notin cut => requests[i].made = 1) /\ requests[i].asker # u
    BY <1>7, <2>1 DEF MarkApproved, DecisionInv, DecidingInv
  <2> QED
    BY <1>5, <2>1, <2>2, <2>3
<1>8. CASE Crash
  BY <1>0, <1>8 DEF Crash, DecisionInv, DecidingInv, MadeWhenApproved, TypeOK
<1>9. CASE UNCHANGED vars
  BY <1>9 DEF vars, DecisionInv, DecidingInv, MadeWhenApproved
<1> QED
  BY <1>2, <1>3, <1>4, <1>6, <1>7, <1>8, <1>9 DEF Next

\* Every change held is made exactly when it is marked approved, once, and never
\* by the one who asked for it, one rejected, withdrawn or waiting was never made:
\* unless the server stopped within an approval of it. (store.decide)
THEOREM DecidedOnce == Spec => []MadeWhenApproved
<1>1. Init => DecisionInv
  BY InitTypeOK DEF Init, DecisionInv, DecidingInv, MadeWhenApproved
<1>2. DecisionInv /\ [Next]_vars => DecisionInv'
  BY DecisionStep
<1>3. DecisionInv => MadeWhenApproved
  BY DEF DecisionInv
<1> QED
  BY <1>1, <1>2, <1>3, PTL DEF Spec
-----------------------------------------------------------------------------
(* What was saved and what was decided stay. *)

LEMMA LogGrows ==
    ASSUME LogOK, NEW e, log' = log \/ log' = Append(log, e)
    PROVE  \A n \in 1..Revision : n \in DOMAIN log' /\ log'[n] = log[n]
<1>1. PICK S : log \in Seq(S \cup {e})
  <2>1. \A n \in 1..Len(log) : log[n] \in {log[k] : k \in DOMAIN log} \cup {e}
    BY DEF LogOK
  <2> QED
    BY <2>1, IsASeq DEF LogOK
<1> QED
  BY <1>1 DEF Revision

\* No request removes or rewrites a revision, and only what waits is decided:
\* the change an approval marks is still waiting when it is marked.
LEMMA HistoryStep ==
    ASSUME DecisionInv, [Next]_vars
    PROVE  /\ \A n \in 1..Revision : n \in DOMAIN log' /\ log'[n] = log[n]
           /\ \A i \in 1..Len(requests) :
                 requests[i].status # "pending" => requests'[i] = requests[i]
<1>0. TypeOK /\ LogOK /\ RequestsOK
  BY DEF DecisionInv, TypeOK, LogOK, RequestsOK
<1>a. ASSUME NEW u \in Users, NEW c \in Clients \cup {NoClient}, NEW b \in 1..Revision,
             \/ \E d \in Docs : Save(u, c, d, b)
             \/ \E r \in 1..Revision : Restore(u, c, r, b)
             \/ \E d \in Docs, quiet \in BOOLEAN, x \in Choices : MergeSave(u, c, d, b, quiet, x)
      PROVE  \E d, action : Store(d, u, c, action)
  BY <1>a DEF Save, Restore, MergeSave, MergeFrom
<1>1. \A n \in 1..Revision : n \in DOMAIN log' /\ log'[n] = log[n]
  <2>1. \E e : log' = log \/ log' = Append(log, e)
    <3>1. ASSUME NEW d, NEW u, NEW c, NEW action, Store(d, u, c, action)
          PROVE  \E e : log' = log \/ log' = Append(log, e)
      BY <3>1 DEF Store
    <3>2. ASSUME NEW u, NEW c, NEW i, Approve(u, c, i)
          PROVE  \E e : log' = log \/ log' = Append(log, e)
      BY <3>2 DEF Approve
    <3>3. log' = log => \E e : log' = log \/ log' = Append(log, e)
      OBVIOUS
    <3> QED
      BY <1>a, <3>1, <3>2, <3>3 DEF Next, SetApproval, Refuse, MarkApproved, Crash, vars
  <2> QED
    BY <1>0, <2>1, LogGrows
<1>2. \A i \in 1..Len(requests) :
         requests[i].status # "pending" => requests'[i] = requests[i]
  <2>1. ASSUME NEW d, NEW u \in Users, NEW c, NEW action, Store(d, u, c, action)
        PROVE  \A i \in 1..Len(requests) : requests'[i] = requests[i]
    BY <1>0, <2>1, StoredRequests
  <2>2. ASSUME NEW u, NEW c, NEW i \in 1..Len(requests), Approve(u, c, i)
        PROVE  \A j \in 1..Len(requests) :
                  requests[j].status # "pending" => requests'[j] = requests[j]
    <3>1. \A j \in 1..Len(requests) : j # i => requests'[j] = requests[j]
      BY <1>0, <2>2, Counted
    <3> QED
      BY <2>2, <3>1 DEF Approve
  <2>3. ASSUME NEW u, NEW i \in 1..Len(requests), Refuse(u, i)
        PROVE  \A j \in 1..Len(requests) :
                  requests[j].status # "pending" => requests'[j] = requests[j]
    BY <1>0, <2>3 DEF Refuse, RequestsOK
  <2>4. CASE MarkApproved
    BY <1>0, <2>4 DEF MarkApproved, DecisionInv, DecidingInv, RequestsOK
  <2>5. CASE requests' = requests
    BY <2>5
  <2> QED
    BY <1>a, <2>1, <2>2, <2>3, <2>4, <2>5 DEF Next, SetApproval, Crash, vars
<1> QED
  BY <1>1, <1>2

\* Earlier revisions and decisions stay as they were made, whatever is saved,
\* put back or decided afterwards. (store.save, restore, decide)
THEOREM HistoryIsKept == Spec => HistoryStays
<1>1. Init => DecisionInv
  BY InitTypeOK DEF Init, DecisionInv, DecidingInv, MadeWhenApproved
<1>2. DecisionInv /\ [Next]_vars => DecisionInv'
  BY DecisionStep
<1>3. DecisionInv /\ [Next]_vars =>
        [/\ \A n \in 1..Revision : n \in DOMAIN log' /\ log'[n] = log[n]
         /\ \A i \in 1..Len(requests) :
               requests[i].status # "pending" => requests'[i] = requests[i]]_vars
  BY HistoryStep
<1> QED
  BY <1>1, <1>2, <1>3, PTL DEF Spec, HistoryStays

-----------------------------------------------------------------------------
(* The plan versions.                                                         *)

Tables == [kind : {"base", "scenario"}, parent : Nat, status : {"active", "discarded", "promoted", "superseded"},
           content : Contents]

\* The lineage and the base of a version, in a table of versions.
Chain(t, v) == {u \in DOMAIN t : \A S \in SUBSET DOMAIN t :
                  /\ t[v].parent \in S
                  /\ \A w \in S : t[w].kind = "scenario" => t[w].parent \in S
                  => u \in S}
BaseIn(t, v) == CHOOSE b \in Chain(t, v) : t[b].kind = "base"

Rooted(t) == \A v \in DOMAIN t : /\ t[v].parent < v
                                 /\ t[v].kind = "scenario" => t[v].parent # NoVersion
                                 /\ t[v].status = "promoted" => t[v].kind = "scenario"
MadeOf(t, v) == {b \in DOMAIN t : t[b].kind = "base" /\ t[b].parent = v}
Stand(t) ==
    \A v \in DOMAIN t :
        /\ t[v].status = "promoted" => \E b \in DOMAIN t : MadeOf(t, v) = {b} /\ t[b].content = t[v].content
        /\ t[v].status # "promoted" => MadeOf(t, v) = {}
        /\ t[v].status = "superseded" => \E u \in DOMAIN t : t[u].status = "promoted" /\ BaseIn(t, u) = v

VInv == versions \in Seq(Tables) /\ Rooted(versions) /\ Stand(versions)

LEMMA InTable ==
    ASSUME NEW t \in Seq(Tables)
    PROVE  /\ DOMAIN t = 1..Len(t) /\ Len(t) \in Nat
           /\ \A v \in DOMAIN t : /\ t[v] \in Tables /\ v \in Nat /\ v # 0
                                  /\ t[v].parent \in Nat /\ t[v].content \in Contents /\ t[v].kind \in {"base", "scenario"}
                                  /\ t[v].status \in {"active", "discarded", "promoted", "superseded"}
<1>1. \A v \in DOMAIN t : t[v] \in Tables /\ v \in Nat /\ v # 0
  OBVIOUS
<1>. QED  BY <1>1 DEF Tables

LEMMA VersionsSay == VInv => VersionsTypeOK /\ PromotionsStand
<1>. SUFFICES ASSUME VInv PROVE VersionsTypeOK /\ PromotionsStand
  OBVIOUS
<1>1. VersionsTypeOK
  <2>. SUFFICES ASSUME NEW v \in DOMAIN versions
                PROVE  /\ versions[v] \in [kind : {"base", "scenario"}, parent : 0..(v - 1), content : Contents,
                                           status : {"active", "discarded", "promoted", "superseded"}]
                       /\ versions[v].kind = "scenario" => versions[v].parent # NoVersion
    BY DEF VersionsTypeOK
  <2>1. /\ versions[v] \in Tables /\ v \in Nat /\ versions[v].parent \in Nat /\ versions[v].parent < v
        /\ versions[v].kind = "scenario" => versions[v].parent # NoVersion
    BY InTable DEF VInv, Rooted
  <2>2. versions[v].parent \in 0..(v - 1)
    BY <2>1
  <2>. QED  BY <2>1, <2>2 DEF Tables
<1>2. \A v : BaseOf(v) = BaseIn(versions, v) /\ PromotedTo(v) = MadeOf(versions, v)
  BY DEF BaseOf, BaseIn, Lineage, Chain, PromotedTo, MadeOf
<1>3. PromotionsStand
  BY <1>2 DEF VInv, Stand, PromotionsStand
<1>. QED  BY <1>1, <1>3

\* t is s with more versions, and with other statuses or contents.
Grows(s, t) == /\ DOMAIN s \subseteq DOMAIN t
               /\ \A u \in DOMAIN s : t[u].kind = s[u].kind /\ t[u].parent = s[u].parent

\* A scenario's base stays what it was.
LEMMA SameBase ==
    ASSUME NEW s \in Seq(Tables), NEW t \in Seq(Tables), Rooted(s), Grows(s, t),
           NEW v \in DOMAIN s, s[v].kind = "scenario"
    PROVE  BaseIn(t, v) = BaseIn(s, v)
<1>1. \A u \in DOMAIN s : s[u].kind = "scenario" => s[u].parent \in DOMAIN s
  BY InTable DEF Rooted, NoVersion
<1>2. s[v].parent \in DOMAIN s /\ t[v].parent = s[v].parent
  BY <1>1 DEF Grows
<1>3. \A u \in Chain(s, v) : u \in Chain(t, v)
  <2>. SUFFICES ASSUME NEW u \in Chain(s, v), NEW S \in SUBSET DOMAIN t, t[v].parent \in S,
                       \A w \in S : t[w].kind = "scenario" => t[w].parent \in S
                PROVE  u \in S
    BY DEF Chain, Grows
  <2>1. PICK R \in SUBSET DOMAIN s : R = S \cap DOMAIN s
    OBVIOUS
  <2>2. s[v].parent \in R
    BY <1>2, <2>1
  <2>3. \A w \in R : s[w].kind = "scenario" => s[w].parent \in R
    BY <1>1, <2>1 DEF Grows
  <2>. QED  BY <2>1, <2>2, <2>3 DEF Chain
<1>4. \A u \in Chain(t, v) : u \in Chain(s, v)
  <2>. SUFFICES ASSUME NEW u \in Chain(t, v)
                PROVE  u \in Chain(s, v)
    OBVIOUS
  <2>1. ASSUME NEW R \in SUBSET DOMAIN s, s[v].parent \in R,
               \A w \in R : s[w].kind = "scenario" => s[w].parent \in R
        PROVE  u \in R
    <3>1. t[v].parent \in R /\ R \in SUBSET DOMAIN t /\ \A w \in R : t[w].kind = "scenario" => t[w].parent \in R
      BY <1>2, <2>1 DEF Grows
    <3>. QED  BY <3>1 DEF Chain
  <2>2. u \in DOMAIN s
    BY <1>1, <1>2, <2>1
  <2>. QED  BY <2>1, <2>2 DEF Chain
<1>5. Chain(t, v) = Chain(s, v)
  BY <1>3, <1>4
<1>6. \A b \in Chain(s, v) : t[b].kind = s[b].kind
  BY DEF Chain, Grows
<1>. QED  BY <1>5, <1>6 DEF BaseIn

\* What no operation on the versions changes.
Keeps(s, t) == /\ Grows(s, t) /\ Len(s) <= Len(t)
               /\ \A u \in DOMAIN s : s[u].kind = "base" => t[u].content = s[u].content

Fine(s, t) == t \in Seq(Tables) /\ Rooted(t) /\ Stand(t) /\ Keeps(s, t)

\* A base saved or a scenario branched.
LEMMA AddsOne ==
    ASSUME NEW s \in Seq(Tables), Rooted(s), Stand(s), NEW w \in Tables, NEW t \in Seq(Tables), t = Append(s, w),
           w.status = "active", w.parent <= Len(s), w.kind = "base" => w.parent = 0, w.kind = "scenario" => w.parent # 0
    PROVE  Fine(s, t)
<1>1. PICK n \in Nat : n = Len(s)
  BY InTable
<1>2. DOMAIN s = 1..n /\ DOMAIN t = 1..(n + 1) /\ Len(t) = n + 1 /\ t[n + 1] = w /\ \A u \in 1..n : t[u] = s[u]
  BY <1>1
<1>3. DOMAIN t = DOMAIN s \cup {n + 1} /\ n + 1 \notin DOMAIN s
  BY <1>2
<1>4. Grows(s, t) /\ Keeps(s, t)
  BY <1>1, <1>2, <1>3 DEF Grows, Keeps
<1>5. Rooted(t)
  <2>1. \A v \in DOMAIN s : /\ s[v].parent < v
                            /\ s[v].kind = "scenario" => s[v].parent # NoVersion
                            /\ s[v].status = "promoted" => s[v].kind = "scenario"
    BY DEF Rooted
  <2>2. w.parent < n + 1
    BY <1>1 DEF Tables
  <2>. QED  BY <1>2, <1>3, <2>1, <2>2 DEF Rooted, NoVersion
<1>6. ASSUME NEW v \in DOMAIN s
      PROVE  MadeOf(t, v) = MadeOf(s, v)
  <2>1. v # 0
    BY <1>2
  <2>2. ~(t[n + 1].kind = "base" /\ t[n + 1].parent = v)
    BY <1>2, <2>1
  <2>. QED  BY <1>2, <1>3, <2>2 DEF MadeOf
<1>7. MadeOf(t, n + 1) = {}
  <2>1. \A b \in DOMAIN t : t[b].parent # n + 1
    <3>1. \A b \in DOMAIN t : t[b].parent < b /\ b \in Nat /\ b <= n + 1
      BY <1>2, <1>5 DEF Rooted
    <3>2. \A b \in DOMAIN t : t[b].parent \in Nat
      BY InTable
    <3>. QED  BY <3>1, <3>2
  <2>. QED  BY <2>1 DEF MadeOf
<1>8. ASSUME NEW u \in DOMAIN s, s[u].status = "promoted"
      PROVE  BaseIn(t, u) = BaseIn(s, u)
  BY <1>4, <1>8, SameBase DEF Rooted
<1>9. Stand(t)
  <2>. SUFFICES ASSUME NEW v \in DOMAIN t
                PROVE  /\ t[v].status = "promoted" => \E b \in DOMAIN t : MadeOf(t, v) = {b} /\ t[b].content = t[v].content
                       /\ t[v].status # "promoted" => MadeOf(t, v) = {}
                       /\ t[v].status = "superseded" => \E u \in DOMAIN t : t[u].status = "promoted" /\ BaseIn(t, u) = v
    BY DEF Stand
  <2>1. CASE v \in DOMAIN s
    <3>1. t[v] = s[v] /\ MadeOf(t, v) = MadeOf(s, v)
      BY <1>2, <1>6, <2>1
    <3>2. \A u \in DOMAIN s : t[u] = s[u] /\ u \in DOMAIN t
      BY <1>2, <1>3
    <3>. QED  BY <1>8, <2>1, <3>1, <3>2 DEF Stand
  <2>2. CASE v = n + 1
    BY <1>2, <1>7, <2>2
  <2>. QED  BY <1>3, <2>1, <2>2
<1>. QED  BY <1>4, <1>5, <1>9 DEF Fine

\* A scenario updated or discarded.
LEMMA AltersOne ==
    ASSUME NEW s \in Seq(Tables), Rooted(s), Stand(s), NEW e \in DOMAIN s, NEW w \in Tables,
           NEW t \in Seq(Tables), t = [s EXCEPT ![e] = w],
           s[e].status = "active", s[e].kind = "scenario",
           w.kind = s[e].kind, w.parent = s[e].parent, w.status \in {"active", "discarded"}
    PROVE  Fine(s, t)
<1>1. DOMAIN t = DOMAIN s /\ Len(t) = Len(s) /\ Len(s) \in Nat /\ t[e] = w /\ \A u \in DOMAIN s \ {e} : t[u] = s[u]
  OBVIOUS
<1>2. \A u \in DOMAIN s : /\ t[u].kind = s[u].kind /\ t[u].parent = s[u].parent
                          /\ t[u].status = "promoted" <=> s[u].status = "promoted"
                          /\ t[u].status = "superseded" <=> s[u].status = "superseded"
                          /\ u # e => t[u] = s[u]
  BY <1>1
<1>3. Grows(s, t) /\ Keeps(s, t)
  <2>1. \A u \in DOMAIN s : s[u].kind = "base" => t[u].content = s[u].content
    BY <1>1
  <2>. QED  BY <1>1, <1>2, <2>1 DEF Grows, Keeps
<1>4. Rooted(t)
  BY <1>1, <1>2 DEF Rooted
<1>5. \A v : MadeOf(t, v) = MadeOf(s, v)
  BY <1>1, <1>2 DEF MadeOf
<1>6. \A u \in DOMAIN s : s[u].status = "promoted" => BaseIn(t, u) = BaseIn(s, u)
  BY <1>3, SameBase DEF Rooted
<1>7. Stand(t)
  <2>. SUFFICES ASSUME NEW v \in DOMAIN s
                PROVE  /\ t[v].status = "promoted" => \E b \in DOMAIN t : MadeOf(t, v) = {b} /\ t[b].content = t[v].content
                       /\ t[v].status # "promoted" => MadeOf(t, v) = {}
                       /\ t[v].status = "superseded" => \E u \in DOMAIN t : t[u].status = "promoted" /\ BaseIn(t, u) = v
    BY <1>1 DEF Stand
  <2>1. ASSUME t[v].status = "promoted"
        PROVE  \E b \in DOMAIN t : MadeOf(t, v) = {b} /\ t[b].content = t[v].content
    <3>1. PICK b \in DOMAIN s : MadeOf(s, v) = {b} /\ s[b].content = s[v].content
      BY <1>2, <2>1 DEF Stand
    <3>2. s[b].kind = "base"
      BY <3>1 DEF MadeOf
    <3>3. b # e /\ v # e
      BY <1>2, <2>1, <3>2
    <3>. QED  BY <1>1, <1>2, <1>5, <3>1, <3>3
  <2>2. t[v].status # "promoted" => MadeOf(t, v) = {}
    BY <1>2, <1>5 DEF Stand
  <2>3. ASSUME t[v].status = "superseded"
        PROVE  \E u \in DOMAIN t : t[u].status = "promoted" /\ BaseIn(t, u) = v
    <3>1. PICK u \in DOMAIN s : s[u].status = "promoted" /\ BaseIn(s, u) = v
      BY <1>2, <2>3 DEF Stand
    <3>2. t[u].status = "promoted" /\ BaseIn(t, u) = v
      BY <1>2, <1>6, <3>1
    <3>. QED  BY <1>1, <3>2
  <2>. QED  BY <2>1, <2>2, <2>3
<1>. QED  BY <1>3, <1>4, <1>7 DEF Fine

\* A scenario promoted: q is the table as marked, t with its new base.
LEMMA PromotesOne ==
    ASSUME NEW s \in Seq(Tables), Rooted(s), Stand(s), NEW e \in DOMAIN s, s[e].status = "active", s[e].kind = "scenario",
           NEW q \in Seq(Tables), DOMAIN q = DOMAIN s, Len(q) = Len(s),
           \A u \in DOMAIN s : /\ q[u].kind = s[u].kind /\ q[u].parent = s[u].parent /\ q[u].content = s[u].content
                               /\ q[u].status = IF u = e THEN "promoted"
                                                ELSE IF u = BaseIn(s, e) /\ s[u].status = "active" THEN "superseded"
                                                ELSE s[u].status,
           NEW w \in Tables, w.kind = "base", w.parent = e, w.status = "active", w.content = s[e].content,
           NEW t \in Seq(Tables), t = Append(q, w)
    PROVE  Fine(s, t)
<1>1. PICK n \in Nat : n = Len(s)
  BY InTable
<1>2. DOMAIN s = 1..n /\ DOMAIN t = 1..(n + 1) /\ Len(t) = n + 1 /\ t[n + 1] = w /\ \A u \in 1..n : t[u] = q[u]
  BY <1>1
<1>3. DOMAIN t = DOMAIN s \cup {n + 1} /\ n + 1 \notin DOMAIN s
  BY <1>2
<1>4. \A u \in DOMAIN s : /\ t[u].kind = s[u].kind /\ t[u].parent = s[u].parent /\ t[u].content = s[u].content
                          /\ t[u].status = IF u = e THEN "promoted"
                                           ELSE IF u = BaseIn(s, e) /\ s[u].status = "active" THEN "superseded"
                                           ELSE s[u].status
  BY <1>2
<1>5. Grows(s, t) /\ Keeps(s, t)
  BY <1>1, <1>2, <1>3, <1>4 DEF Grows, Keeps
<1>6. Rooted(t)
  <2>1. \A v \in DOMAIN s : /\ s[v].parent < v
                            /\ s[v].kind = "scenario" => s[v].parent # NoVersion
                            /\ s[v].status = "promoted" => s[v].kind = "scenario"
    BY DEF Rooted
  <2>2. w.parent < n + 1
    BY <1>2
  <2>3. \A v \in DOMAIN s : t[v].status = "promoted" => t[v].kind = "scenario"
    BY <1>4, <2>1
  <2>. QED  BY <1>2, <1>3, <1>4, <2>1, <2>2, <2>3 DEF Rooted, NoVersion
<1>7. \A v \in DOMAIN s : v # e => MadeOf(t, v) = MadeOf(s, v)
  BY <1>2, <1>3, <1>4 DEF MadeOf
<1>8. MadeOf(t, e) = {n + 1}
  <2>1. MadeOf(s, e) = {}
    BY DEF Stand
  <2>. QED  BY <1>2, <1>3, <1>4, <2>1 DEF MadeOf
<1>9. MadeOf(t, n + 1) = {}
  <2>1. \A b \in DOMAIN t : t[b].parent # n + 1
    <3>1. \A b \in DOMAIN t : t[b].parent < b /\ b \in Nat /\ b <= n + 1 /\ t[b].parent \in Nat
      BY <1>2, <1>6, InTable DEF Rooted
    <3>. QED  BY <3>1
  <2>. QED  BY <2>1 DEF MadeOf
<1>10. \A u \in DOMAIN s : s[u].status = "promoted" \/ u = e => BaseIn(t, u) = BaseIn(s, u)
  BY <1>5, SameBase, ZenonT(30) DEF Rooted
<1>11. Stand(t)
  <2>. SUFFICES ASSUME NEW v \in DOMAIN t
                PROVE  /\ t[v].status = "promoted" => \E b \in DOMAIN t : MadeOf(t, v) = {b} /\ t[b].content = t[v].content
                       /\ t[v].status # "promoted" => MadeOf(t, v) = {}
                       /\ t[v].status = "superseded" => \E u \in DOMAIN t : t[u].status = "promoted" /\ BaseIn(t, u) = v
    BY DEF Stand
  <2>1. CASE v = n + 1
    BY <1>2, <1>9, <2>1
  <2>2. CASE v = e
    BY <1>2, <1>3, <1>4, <1>8, <2>2
  <2>3. CASE v \in DOMAIN s /\ v # e
    <3>1. t[v].status = "promoted" <=> s[v].status = "promoted"
      BY <1>4, <2>3
    <3>2. t[v].status = "promoted" => \E b \in DOMAIN t : MadeOf(t, v) = {b} /\ t[b].content = t[v].content
      <4>. SUFFICES ASSUME t[v].status = "promoted"
                    PROVE  \E b \in DOMAIN t : MadeOf(t, v) = {b} /\ t[b].content = t[v].content
        OBVIOUS
      <4>1. PICK b \in DOMAIN s : MadeOf(s, v) = {b} /\ s[b].content = s[v].content
        BY <2>3, <3>1 DEF Stand
      <4>. QED  BY <1>3, <1>4, <1>7, <2>3, <4>1
    <3>3. t[v].status # "promoted" => MadeOf(t, v) = {}
      BY <1>7, <2>3, <3>1 DEF Stand
    <3>4. t[v].status = "superseded" => \E u \in DOMAIN t : t[u].status = "promoted" /\ BaseIn(t, u) = v
      <4>. SUFFICES ASSUME t[v].status = "superseded"
                    PROVE  \E u \in DOMAIN t : t[u].status = "promoted" /\ BaseIn(t, u) = v
        OBVIOUS
      <4>1. CASE v = BaseIn(s, e) /\ s[v].status = "active"
        BY <1>3, <1>4, <1>10, <4>1
      <4>2. CASE ~(v = BaseIn(s, e) /\ s[v].status = "active")
        <5>1. s[v].status = "superseded"
          BY <1>4, <2>3, <4>2
        <5>2. PICK u \in DOMAIN s : s[u].status = "promoted" /\ BaseIn(s, u) = v
          BY <2>3, <5>1 DEF Stand
        <5>3. t[u].status = "promoted"
          BY <1>4, <5>2
        <5>. QED  BY <1>3, <1>10, <5>2, <5>3
      <4>. QED  BY <4>1, <4>2
    <3>. QED  BY <3>2, <3>3, <3>4
  <2>. QED  BY <1>3, <2>1, <2>2, <2>3
<1>. QED  BY <1>5, <1>6, <1>11 DEF Fine

Shifts == VInv /\ versions' \in Seq(Tables) /\ Rooted(versions') /\ Stand(versions') /\ Keeps(versions, versions')

LEMMA Freezing ==
    ASSUME VInv, NEW c \in Contents, SaveBase(c)
    PROVE  Shifts /\ Len(versions') = Len(versions) + 1 /\ Len(versions) \in Nat /\ Len(versions') \in DOMAIN versions'
           /\ versions'[Len(versions')].kind = "base" /\ versions'[Len(versions')].content = c
<1>1. PICK s \in Seq(Tables) : s = versions
  BY DEF VInv
<1>2. PICK k \in {"base", "scenario"}, p \in Nat, x \in {"active", "discarded", "promoted", "superseded"} :
         k = "base" /\ p = 0 /\ x = "active"
  OBVIOUS
<1>3. PICK w : w = [kind |-> k, parent |-> p, status |-> x, content |-> c]
  OBVIOUS
<1>4. w \in Tables /\ w.kind = "base" /\ w.parent = 0 /\ w.status = "active" /\ w.content = c
  BY <1>2, <1>3 DEF Tables
<1>5. PICK t : t = Append(s, w)
  OBVIOUS
<1>6. t \in Seq(Tables) /\ Len(t) = Len(s) + 1 /\ Len(s) \in Nat /\ t[Len(t)] = w /\ Len(t) \in DOMAIN t
  BY <1>4, <1>5
<1>7. versions' = t
  BY <1>1, <1>2, <1>3, <1>5 DEF SaveBase, Made, NoVersion
<1>8. Rooted(s) /\ Stand(s)
  BY <1>1 DEF VInv
<1>9. w.parent <= Len(s) /\ (w.kind = "base" => w.parent = 0) /\ (w.kind = "scenario" => w.parent # 0)
  BY <1>4, <1>6
<1>10. Fine(s, t)
  BY <1>4, <1>5, <1>6, <1>8, <1>9, AddsOne
<1>. QED  BY <1>1, <1>4, <1>6, <1>7, <1>10 DEF Shifts, Fine

LEMMA Branching ==
    ASSUME VInv, NEW v \in DOMAIN versions, Branch(v)
    PROVE  Shifts
<1>1. PICK s \in Seq(Tables) : s = versions
  BY DEF VInv
<1>2. PICK c \in Contents, e \in DOMAIN s : c = versions[v].content /\ e = v
  BY <1>1, InTable
<1>3. PICK k \in {"base", "scenario"}, p \in Nat, x \in {"active", "discarded", "promoted", "superseded"} :
         k = "scenario" /\ p = e /\ x = "active"
  BY <1>1, <1>2, InTable
<1>4. PICK w : w = [kind |-> k, parent |-> p, status |-> x, content |-> c]
  OBVIOUS
<1>5. w \in Tables /\ w.kind = "scenario" /\ w.parent = e /\ w.status = "active"
  BY <1>3, <1>4 DEF Tables
<1>6. PICK t : t = Append(s, w)
  OBVIOUS
<1>7. t \in Seq(Tables)
  BY <1>5, <1>6
<1>8. versions' = t
  BY <1>1, <1>2, <1>3, <1>4, <1>6 DEF Branch, Made
<1>9. Rooted(s) /\ Stand(s)
  BY <1>1 DEF VInv
<1>10. w.parent <= Len(s) /\ w.parent # 0
  BY <1>5, InTable
<1>11. Fine(s, t)
  BY <1>5, <1>6, <1>7, <1>9, <1>10, AddsOne
<1>. QED  BY <1>1, <1>8, <1>11 DEF Shifts, Fine

LEMMA Altering ==
    ASSUME VInv, NEW v \in DOMAIN versions, Discard(v) \/ \E c \in Contents : Update(v, c)
    PROVE  Shifts
<1>1. PICK s \in Seq(Tables) : s = versions
  BY DEF VInv
<1>2. PICK e \in DOMAIN s : e = v
  BY <1>1
<1>3. s[e] \in Tables /\ s[e].kind = "scenario" /\ s[e].status = "active"
  BY <1>1, <1>2, InTable DEF Discard, Update, Active
<1>4. PICK w \in Tables : /\ versions' = [s EXCEPT ![e] = w]
                          /\ w.kind = s[e].kind /\ w.parent = s[e].parent /\ w.status \in {"active", "discarded"}
  <2>1. CASE Discard(v)
    <3>1. PICK x \in {"active", "discarded", "promoted", "superseded"} : x = "discarded"
      OBVIOUS
    <3>2. PICK w : w = [s[e] EXCEPT !.status = x]
      OBVIOUS
    <3>3. w \in Tables /\ w.kind = s[e].kind /\ w.parent = s[e].parent /\ w.status = x
      BY <1>3, <3>2 DEF Tables
    <3>4. versions' = [s EXCEPT ![e] = w]
      BY <1>1, <1>2, <2>1, <3>1, <3>2 DEF Discard
    <3>. QED  BY <3>1, <3>3, <3>4
  <2>2. ASSUME NEW c \in Contents, Update(v, c)
        PROVE  \E w \in Tables : /\ versions' = [s EXCEPT ![e] = w]
                                 /\ w.kind = s[e].kind /\ w.parent = s[e].parent /\ w.status \in {"active", "discarded"}
    <3>1. PICK w : w = [s[e] EXCEPT !.content = c]
      OBVIOUS
    <3>2. w \in Tables /\ w.kind = s[e].kind /\ w.parent = s[e].parent /\ w.status = s[e].status
      BY <1>3, <3>1 DEF Tables
    <3>3. versions' = [s EXCEPT ![e] = w]
      BY <1>1, <1>2, <2>2, <3>1 DEF Update
    <3>. QED  BY <1>3, <3>2, <3>3
  <2>. QED  BY <2>1, <2>2
<1>5. PICK t : t = [s EXCEPT ![e] = w]
  OBVIOUS
<1>6. t \in Seq(Tables) /\ t = versions'
  BY <1>4, <1>5
<1>7. Rooted(s) /\ Stand(s)
  BY <1>1 DEF VInv
<1>8. Fine(s, t)
  BY <1>3, <1>4, <1>5, <1>6, <1>7, AltersOne
<1>. QED  BY <1>1, <1>6, <1>8 DEF Shifts, Fine

LEMMA Promoting ==
    ASSUME VInv, NEW v \in DOMAIN versions, Promote(v)
    PROVE  Shifts
<1>1. PICK s \in Seq(Tables) : s = versions
  BY DEF VInv
<1>2. PICK e \in DOMAIN s : e = v
  BY <1>1
<1>3. s[e] \in Tables /\ s[e].kind = "scenario" /\ s[e].status = "active" /\ s[e].content \in Contents
  BY <1>1, <1>2, InTable DEF Promote, Active
<1>4. BaseOf(v) = BaseIn(s, e)
  BY <1>1, <1>2 DEF BaseOf, BaseIn, Lineage, Chain
<1>5. PICK root, q : /\ root = BaseIn(s, e)
                     /\ q = [u \in DOMAIN s |->
                               IF u = e THEN [s[u] EXCEPT !.status = "promoted"]
                               ELSE IF u = root /\ s[u].status = "active" THEN [s[u] EXCEPT !.status = "superseded"]
                               ELSE s[u]]
  OBVIOUS
<1>6. ASSUME NEW u \in DOMAIN s
      PROVE  /\ q[u] \in Tables
             /\ q[u].kind = s[u].kind /\ q[u].parent = s[u].parent /\ q[u].content = s[u].content
             /\ q[u].status = IF u = e THEN "promoted"
                              ELSE IF u = BaseIn(s, e) /\ s[u].status = "active" THEN "superseded"
                              ELSE s[u].status
  <2>1. s[u] \in Tables
    OBVIOUS
  <2>2. CASE u = e
    <3>1. q[u] = [s[u] EXCEPT !.status = "promoted"]
      BY <1>5, <2>2
    <3>. QED  BY <2>1, <2>2, <3>1 DEF Tables
  <2>3. CASE u # e /\ u = root /\ s[u].status = "active"
    <3>1. q[u] = [s[u] EXCEPT !.status = "superseded"]
      BY <1>5, <2>3
    <3>. QED  BY <1>5, <2>1, <2>3, <3>1 DEF Tables
  <2>4. CASE u # e /\ ~(u = root /\ s[u].status = "active")
    <3>1. q[u] = s[u]
      BY <1>5, <2>4
    <3>. QED  BY <1>5, <2>1, <2>4, <3>1
  <2>. QED  BY <2>2, <2>3, <2>4
<1>7. q \in Seq(Tables) /\ DOMAIN q = DOMAIN s /\ Len(q) = Len(s)
  <2>1. DOMAIN q = 1..Len(s) /\ Len(s) \in Nat /\ DOMAIN s = 1..Len(s) /\ q = [u \in 1..Len(s) |-> q[u]]
    BY <1>5, InTable
  <2>2. q \in [1..Len(s) -> Tables]
    BY <1>6, <2>1
  <2>. QED  BY <2>1, <2>2
<1>8. PICK k \in {"base", "scenario"}, p \in Nat, x \in {"active", "discarded", "promoted", "superseded"}, c \in Contents :
         k = "base" /\ p = e /\ x = "active" /\ c = s[e].content
  BY <1>3, InTable
<1>9. PICK w : w = [kind |-> k, parent |-> p, status |-> x, content |-> c]
  OBVIOUS
<1>10. w \in Tables /\ w.kind = "base" /\ w.parent = e /\ w.status = "active" /\ w.content = s[e].content
  BY <1>8, <1>9 DEF Tables
<1>11. PICK t : t = Append(q, w)
  OBVIOUS
<1>12. t \in Seq(Tables)
  BY <1>7, <1>10, <1>11
<1>13. versions' = t
  <2>1. Made("base", v, versions[v].content) = w
    BY <1>1, <1>2, <1>8, <1>9 DEF Made
  <2>. QED  BY <1>1, <1>2, <1>4, <1>5, <1>11, <2>1 DEF Promote
<1>14. Rooted(s) /\ Stand(s)
  BY <1>1 DEF VInv
<1>15. Fine(s, t)
  BY <1>3, <1>6, <1>7, <1>10, <1>11, <1>12, <1>14, PromotesOne
<1>. QED  BY <1>1, <1>13, <1>15 DEF Shifts, Fine

LEMMA VersionsShift ==
    ASSUME VInv, VersionsNext
    PROVE  Shifts
<1>1. CASE \E c \in Contents : SaveBase(c)
  BY <1>1, Freezing
<1>2. CASE \E v \in DOMAIN versions : Branch(v) \/ Discard(v) \/ Promote(v) \/ \E c \in Contents : Update(v, c)
  <2>1. PICK v \in DOMAIN versions : Branch(v) \/ Promote(v) \/ (Discard(v) \/ \E c \in Contents : Update(v, c))
    BY <1>2
  <2>. QED  BY <2>1, Branching, Promoting, Altering
<1>. QED  BY <1>1, <1>2 DEF VersionsNext

-----------------------------------------------------------------------------
(* The cycles signed off.                                                     *)

LEMMA LastBelow ==
    ASSUME NEW T, T \subseteq Nat, T # {}, NEW m \in Nat, \A x \in T : x < m
    PROVE  \E x \in T : \A y \in T : y <= x
<1>1. PICK U : U = {m - x : x \in T}
  OBVIOUS
<1>2. U \subseteq Nat /\ U # {}
  <2>1. \A x \in T : m - x \in Nat
    OBVIOUS
  <2>. QED  BY <1>1, <2>1
<1>3. PICK d \in U : \A e \in U : d <= e
  BY <1>2, FirstOf
<1>4. PICK x \in T : d = m - x
  BY <1>1
<1>5. \A y \in T : m - x <= m - y
  BY <1>1, <1>3, <1>4
<1>6. \A y \in T : y <= x
  <2>. SUFFICES ASSUME NEW y \in T PROVE y <= x
    OBVIOUS
  <2>1. x \in Nat /\ y \in Nat /\ m - x <= m - y
    BY <1>5
  <2>. QED  BY <2>1
<1>. QED  BY <1>6

SopSteps(k) == [owner : People \cup {NoOwner}, signed : BOOLEAN, version : 0..k, figures : Contents \cup {NoVersion}]
Cycles(k) == [closed : BOOLEAN, steps : [Number -> SopSteps(k)]]
Calls(k) == [month : Months, step : Number, content : Contents, version : 0..k]

\* A frozen version is a base of this content.
Froze(s, v, c) == v # NoVersion => v \in DOMAIN s /\ s[v].kind = "base" /\ s[v].content = c

InOrder(x) == /\ \A n \in Number : x.steps[n].signed => \A k \in 1..n : x.steps[k].signed
              /\ x.closed <=> \A n \in Number : x.steps[n].signed
Right(x, s) ==
    /\ x \in Cycles(Len(s)) /\ InOrder(x)
    /\ \A n \in Number : /\ x.steps[n].signed => x.steps[n].version # NoVersion
                         /\ Froze(s, x.steps[n].version, x.steps[n].figures)
UnderWay(c, s) == c \in Calls(Len(s)) /\ Froze(s, c.version, c.content)

SopInv ==
    /\ VInv
    /\ DOMAIN cycles = Months /\ \A m \in Months : Has(m) => Right(cycles[m], versions)
    /\ DOMAIN signing = People /\ \A p \in People : signing[p] # NoCall => UnderWay(signing[p], versions)

LEMMA NumberIs == Last \in Nat /\ Last >= 1 /\ Number = 1..Last
BY SopCycleAssumption DEF Last, Number

LEMMA SopSays == SopInv => SopTypeOK /\ SignedInOrder
<1>. SUFFICES ASSUME SopInv PROVE SopTypeOK /\ SignedInOrder
  OBVIOUS
<1>1. VersionsTypeOK /\ PromotionsStand
  BY VersionsSay DEF SopInv
<1>2. SopTypeOK
  BY <1>1 DEF SopInv, SopTypeOK, Right, UnderWay, Cycles, SopSteps, Calls
<1>3. ASSUME NEW m \in Months, Has(m)
      PROVE  /\ \A n \in Signed(m) : 1..n \subseteq Signed(m)
             /\ cycles[m].closed <=> Signed(m) = Number
             /\ \A n \in Number : LET s == cycles[m].steps[n] IN
                   /\ s.signed => s.version # NoVersion
                   /\ s.version # NoVersion => /\ versions[s.version].kind = "base"
                                               /\ versions[s.version].content = s.figures
  <2>1. Right(cycles[m], versions)
    BY <1>3 DEF SopInv
  <2>2. \A n \in Signed(m) : 1..n \subseteq Signed(m)
    <3>1. \A n \in Number : 1..n \subseteq Number
      BY NumberIs
    <3>. QED  BY <2>1, <3>1 DEF Right, InOrder, Signed
  <2>3. cycles[m].closed <=> Signed(m) = Number
    BY <2>1 DEF Right, InOrder, Signed
  <2>. QED  BY <2>1, <2>2, <2>3 DEF Right, Froze
<1>. QED  BY <1>1, <1>2, <1>3 DEF SignedInOrder

LEMMA StillRight ==
    ASSUME NEW s \in Seq(Tables), NEW t \in Seq(Tables), Keeps(s, t)
    PROVE  /\ \A x : Right(x, s) => Right(x, t)
           /\ \A c : UnderWay(c, s) => UnderWay(c, t)
<1>1. Len(s) \in Nat /\ Len(t) \in Nat /\ Len(s) <= Len(t)
  BY DEF Keeps
<1>2. 0..Len(s) \subseteq 0..Len(t)
  BY <1>1
<1>3. \A v, c : Froze(s, v, c) => Froze(t, v, c)
  BY DEF Froze, Keeps, Grows
<1>4. Cycles(Len(s)) \subseteq Cycles(Len(t)) /\ Calls(Len(s)) \subseteq Calls(Len(t))
  BY <1>2 DEF Cycles, SopSteps, Calls
<1>. QED  BY <1>3, <1>4 DEF Right, UnderWay

\* A step in which every cycle and every sign-off under way stays, ends or is again as it should be.
LEMMA SopGoes ==
    ASSUME SopInv, Shifts \/ UNCHANGED versions, DOMAIN cycles' = Months, DOMAIN signing' = People,
           \A m \in Months : cycles'[m] # NoCycle => cycles'[m] = cycles[m] \/ Right(cycles'[m], versions'),
           \A p \in People : signing'[p] # NoCall => signing'[p] = signing[p] \/ UnderWay(signing'[p], versions')
    PROVE  SopInv'
<1>1. PICK s \in Seq(Tables), t \in Seq(Tables) : s = versions /\ t = versions'
  BY DEF SopInv, Shifts, VInv
<1>2. Keeps(s, t) /\ VInv'
  <2>1. CASE Shifts
    BY <1>1, <2>1 DEF Shifts, VInv
  <2>2. CASE UNCHANGED versions
    BY <1>1, <2>2 DEF SopInv, VInv, Keeps, Grows
  <2>. QED  BY <2>1, <2>2
<1>3. /\ \A x : Right(x, s) => Right(x, t)
      /\ \A c : UnderWay(c, s) => UnderWay(c, t)
  BY <1>2, StillRight
<1>4. \A m \in Months : cycles'[m] # NoCycle => Right(cycles'[m], t)
  BY <1>1, <1>3 DEF SopInv, Has
<1>5. \A p \in People : signing'[p] # NoCall => UnderWay(signing'[p], t)
  BY <1>1, <1>3 DEF SopInv
<1>. QED  BY <1>1, <1>2, <1>4, <1>5 DEF SopInv, Has

\* What a step is in a cycle that is right.
LEMMA StepIs ==
    ASSUME NEW s \in Seq(Tables), NEW x, Right(x, s)
    PROVE  /\ x.closed \in BOOLEAN /\ x.steps \in [Number -> SopSteps(Len(s))] /\ x \in Cycles(Len(s))
           /\ \A n \in Number : /\ x.steps[n] \in SopSteps(Len(s))
                                /\ x.steps[n].owner \in People \cup {NoOwner} /\ x.steps[n].signed \in BOOLEAN
                                /\ x.steps[n].version \in 0..Len(s)
<1>1. x.closed \in BOOLEAN /\ x.steps \in [Number -> SopSteps(Len(s))] /\ x \in Cycles(Len(s))
  BY DEF Right, Cycles
<1>2. \A n \in Number : x.steps[n] \in SopSteps(Len(s))
  BY <1>1
<1>. QED  BY <1>1, <1>2 DEF SopSteps

\* The next step to be signed: all before it are.
LEMMA NextIs ==
    ASSUME NEW s \in Seq(Tables), NEW m \in Months, Right(cycles[m], s), NEW n \in Number, NextStep(m) = n
    PROVE  ~cycles[m].steps[n].signed /\ \A k \in 1..n : k # n => cycles[m].steps[k].signed
<1>1. PICK T : T = (Number \cup {Last + 1}) \ Signed(m)
  OBVIOUS
<1>2. T \subseteq Nat /\ Last + 1 \in T
  BY <1>1, NumberIs DEF Signed
<1>3. PICK x \in T : \A k \in T : x <= k
  BY <1>2, FirstOf
<1>4. n \in T /\ \A k \in T : n <= k
  BY <1>1, <1>3 DEF NextStep
<1>5. \A k \in 1..n : k # n => k \in Number /\ k \notin T
  BY <1>4, NumberIs
<1>. QED  BY <1>1, <1>4, <1>5 DEF Signed

LEMMA Creating ==
    ASSUME SopInv, NEW m \in Months, Create(m)
    PROVE  SopInv'
<1>0. PICK s \in Seq(Tables) : s = versions
  BY DEF SopInv, VInv
<1>1. PICK earlier : earlier = {k \in Months : k < m /\ Has(k)}
  OBVIOUS
<1>2. \A n \in Number : (IF earlier = {} THEN NoOwner
                         ELSE LET k == CHOOSE k \in earlier : \A j \in earlier : j <= k IN cycles[k].steps[n].owner)
                        \in People \cup {NoOwner}
  <2>1. CASE earlier = {}
    BY <2>1
  <2>2. CASE earlier # {}
    <3>1. earlier \subseteq Nat /\ m \in Nat /\ \A x \in earlier : x < m
      BY <1>1, SopCycleAssumption
    <3>2. PICK k \in earlier : \A j \in earlier : j <= k
      BY <2>2, <3>1, LastBelow
    <3>3. PICK x : x = CHOOSE i \in earlier : \A j \in earlier : j <= i
      OBVIOUS
    <3>4. x \in earlier
      BY <3>2, <3>3
    <3>5. x \in Months /\ Has(x)
      BY <1>1, <3>4
    <3>6. Right(cycles[x], s)
      BY <1>0, <3>5 DEF SopInv
    <3>7. \A n \in Number : cycles[x].steps[n].owner \in People \cup {NoOwner}
      BY <3>6, StepIs
    <3>. QED  BY <2>2, <3>3, <3>7
  <2>. QED  BY <2>1, <2>2
<1>3. PICK o \in [Number -> People \cup {NoOwner}] :
         cycles' = [cycles EXCEPT ![m] = [closed |-> FALSE, steps |-> [n \in Number |->
                        [owner |-> o[n], signed |-> FALSE, version |-> NoVersion, figures |-> NoVersion]]]]
  <2>1. PICK o : o = [n \in Number |-> IF earlier = {} THEN NoOwner
                         ELSE LET k == CHOOSE k \in earlier : \A j \in earlier : j <= k IN cycles[k].steps[n].owner]
    OBVIOUS
  <2>2. o \in [Number -> People \cup {NoOwner}]
    BY <1>2, <2>1
  <2>3. cycles' = [cycles EXCEPT ![m] = [closed |-> FALSE, steps |-> [n \in Number |->
                        [owner |-> o[n], signed |-> FALSE, version |-> NoVersion, figures |-> NoVersion]]]]
    BY <1>1, <2>1 DEF Create
  <2>. QED  BY <2>2, <2>3
<1>4. PICK no \in BOOLEAN, v \in 0..Len(s), f \in Contents \cup {NoVersion} : no = FALSE /\ v = NoVersion /\ f = NoVersion
  <2>1. NoVersion \in 0..Len(s)
    BY InTable DEF NoVersion
  <2>. QED  BY <2>1
<1>5. PICK st : st = [n \in Number |-> [owner |-> o[n], signed |-> no, version |-> v, figures |-> f]]
  OBVIOUS
<1>6. st \in [Number -> SopSteps(Len(s))] /\ \A n \in Number : st[n].signed = FALSE /\ st[n].version = NoVersion
  <2>1. \A n \in Number : [owner |-> o[n], signed |-> no, version |-> v, figures |-> f] \in SopSteps(Len(s))
    BY DEF SopSteps
  <2>. QED  BY <1>4, <1>5, <2>1
<1>7. PICK x : x = [closed |-> no, steps |-> st]
  OBVIOUS
<1>8. x \in Cycles(Len(s)) /\ x.closed = FALSE /\ x.steps = st
  BY <1>4, <1>6, <1>7 DEF Cycles
<1>9. Right(x, s)
  <2>1. Last \in Number
    BY NumberIs
  <2>2. InOrder(x)
    BY <1>6, <1>8, <2>1 DEF InOrder
  <2>. QED  BY <1>6, <1>8, <2>2 DEF Right, Froze
<1>10. cycles' = [cycles EXCEPT ![m] = x]
  BY <1>3, <1>4, <1>5, <1>7
<1>11. versions' = versions /\ signing' = signing
  BY DEF Create
<1>12. \A k \in Months : cycles'[k] = cycles[k] \/ Right(cycles'[k], versions')
  BY <1>0, <1>9, <1>10, <1>11 DEF SopInv
<1>. QED  BY <1>10, <1>11, <1>12, SopGoes DEF SopInv

LEMMA Deleting ==
    ASSUME SopInv, NEW m \in Months, Delete(m)
    PROVE  SopInv'
<1>1. cycles' = [cycles EXCEPT ![m] = NoCycle] /\ versions' = versions /\ signing' = signing
  BY DEF Delete
<1>2. \A k \in Months : cycles'[k] # NoCycle => cycles'[k] = cycles[k]
  BY <1>1 DEF SopInv
<1>. QED  BY <1>1, <1>2, SopGoes DEF SopInv

LEMMA Owning ==
    ASSUME SopInv, NEW m \in Months, NEW n \in Number, NEW who \in People \cup {NoOwner}, SetOwner(m, n, who)
    PROVE  SopInv'
<1>1. PICK s \in Seq(Tables), x \in {cycles[m]} : s = versions /\ x = cycles[m] /\ Right(x, s)
  BY DEF SopInv, VInv, SetOwner
<1>2. PICK st : st = [x.steps[n] EXCEPT !.owner = who]
  OBVIOUS
<1>3. /\ st \in SopSteps(Len(s)) /\ st.signed = x.steps[n].signed /\ st.version = x.steps[n].version
      /\ st.figures = x.steps[n].figures
  <2>1. x.steps[n] \in SopSteps(Len(s))
    BY <1>1, StepIs
  <2>. QED  BY <1>2, <2>1 DEF SopSteps
<1>4. PICK y : y = [x EXCEPT !.steps = [x.steps EXCEPT ![n] = st]]
  OBVIOUS
<1>5. /\ y \in Cycles(Len(s)) /\ y.closed = x.closed
      /\ \A k \in Number : /\ y.steps[k].signed = x.steps[k].signed /\ y.steps[k].version = x.steps[k].version
                           /\ y.steps[k].figures = x.steps[k].figures
  <2>1. y.steps = [x.steps EXCEPT ![n] = st] /\ y.closed = x.closed
    BY <1>1, <1>4, StepIs DEF Cycles
  <2>2. [x.steps EXCEPT ![n] = st] \in [Number -> SopSteps(Len(s))]
    BY <1>1, <1>3, StepIs
  <2>3. y \in Cycles(Len(s))
    BY <1>1, <1>4, <2>2, StepIs DEF Cycles
  <2>4. \A k \in Number : y.steps[k] = IF k = n THEN st ELSE x.steps[k]
    BY <1>1, <2>1, StepIs
  <2>. QED  BY <1>3, <2>1, <2>3, <2>4
<1>6. Right(y, s)
  <2>1. \A k \in Number : 1..k \subseteq Number
    BY NumberIs
  <2>2. InOrder(y)
    BY <1>1, <1>5, <2>1 DEF Right, InOrder
  <2>. QED  BY <1>1, <1>5, <2>2 DEF Right
<1>7. cycles' = [cycles EXCEPT ![m] = y] /\ versions' = versions /\ signing' = signing
  BY <1>1, <1>2, <1>4 DEF SetOwner
<1>8. \A k \in Months : cycles'[k] = cycles[k] \/ Right(cycles'[k], versions')
  BY <1>1, <1>6, <1>7 DEF SopInv
<1>. QED  BY <1>7, <1>8, SopGoes DEF SopInv

LEMMA Looking ==
    ASSUME SopInv, NEW p \in People, NEW m \in Months, NEW n \in Number, NEW c \in Contents, Looks(p, m, n, c)
    PROVE  SopInv'
<1>1. PICK s \in Seq(Tables) : s = versions
  BY DEF SopInv, VInv
<1>2. PICK v \in 0..Len(s) : v = NoVersion
  BY InTable DEF NoVersion
<1>3. PICK x : x = [month |-> m, step |-> n, content |-> c, version |-> v]
  OBVIOUS
<1>4. x \in Calls(Len(s)) /\ x.version = NoVersion
  BY <1>2, <1>3 DEF Calls
<1>5. UnderWay(x, s)
  BY <1>4 DEF UnderWay, Froze
<1>6. signing' = [signing EXCEPT ![p] = x] /\ versions' = versions /\ cycles' = cycles
  BY <1>2, <1>3 DEF Looks
<1>7. \A k \in People : signing'[k] = signing[k] \/ UnderWay(signing'[k], versions')
  BY <1>1, <1>5, <1>6 DEF SopInv
<1>. QED  BY <1>6, <1>7, SopGoes DEF SopInv

LEMMA FreezingFor ==
    ASSUME SopInv, NEW p \in People, Freezes(p)
    PROVE  SopInv'
<1>1. UnderWay(signing[p], versions) /\ VInv /\ SaveBase(signing[p].content)
  BY DEF SopInv, Freezes
<1>2. PICK s \in Seq(Tables) : s = versions
  BY <1>1 DEF VInv
<1>3. signing[p] \in Calls(Len(s))
  BY <1>1, <1>2 DEF UnderWay
<1>4. PICK c \in Contents : c = signing[p].content
  BY <1>3 DEF Calls
<1>5. /\ Shifts /\ Len(versions') = Len(versions) + 1 /\ Len(versions) \in Nat /\ Len(versions') \in DOMAIN versions'
      /\ versions'[Len(versions')].kind = "base" /\ versions'[Len(versions')].content = c
  BY <1>1, <1>4, Freezing
<1>6. PICK n \in Nat : n = Len(versions') /\ n = Len(s) + 1 /\ Len(s) \in Nat
  BY <1>2, <1>5
<1>7. PICK x : x = [signing[p] EXCEPT !.version = n]
  OBVIOUS
<1>8. x \in Calls(n) /\ x.version = n /\ x.content = c
  <2>1. n \in 0..n /\ 0..Len(s) \subseteq 0..n
    BY <1>6
  <2>2. x \in Calls(n)
    BY <1>3, <1>7, <2>1 DEF Calls
  <2>3. x.version = n /\ x.content = c
    BY <1>3, <1>4, <1>7 DEF Calls
  <2>. QED  BY <2>2, <2>3
<1>9. UnderWay(x, versions')
  BY <1>5, <1>6, <1>8 DEF UnderWay, Froze
<1>10. signing' = [signing EXCEPT ![p] = x] /\ cycles' = cycles
  BY <1>6, <1>7 DEF Freezes
<1>11. \A k \in People : signing'[k] = signing[k] \/ UnderWay(signing'[k], versions')
  BY <1>9, <1>10 DEF SopInv
<1>. QED  BY <1>5, <1>10, <1>11, SopGoes DEF SopInv

LEMMA Recording ==
    ASSUME SopInv, NEW p \in People, Records(p)
    PROVE  SopInv'
<1>1. PICK s \in Seq(Tables), c \in {signing[p]} : s = versions /\ c = signing[p]
  BY DEF SopInv, VInv
<1>2. c # NoCall /\ c.version # NoVersion /\ signing' = [signing EXCEPT ![p] = NoCall] /\ versions' = versions
  BY <1>1 DEF Records
<1>3. \A k \in People : signing'[k] # NoCall => signing'[k] = signing[k]
  BY <1>2 DEF SopInv
<1>4. CASE ~(Has(c.month) /\ NextStep(c.month) = c.step)
  <2>1. cycles' = cycles
    BY <1>1, <1>4 DEF Records
  <2>. QED  BY <1>2, <1>3, <2>1, SopGoes DEF SopInv
<1>5. CASE Has(c.month) /\ NextStep(c.month) = c.step
  <2>1. c \in Calls(Len(s)) /\ Froze(s, c.version, c.content)
    BY <1>1, <1>2 DEF SopInv, UnderWay
  <2>2. PICK m \in Months, n \in Number, g \in Contents \cup {NoVersion}, v \in 0..Len(s) :
           m = c.month /\ n = c.step /\ g = c.content /\ v = c.version
    BY <2>1 DEF Calls
  <2>3. PICK x : x = cycles[m] /\ Right(x, s)
    BY <1>1, <1>5, <2>2 DEF SopInv
  <2>4. ~x.steps[n].signed /\ \A k \in 1..n : k # n => x.steps[k].signed
    BY <1>5, <2>2, <2>3, NextIs
  <2>5. PICK yes \in BOOLEAN, b \in BOOLEAN : yes = TRUE /\ (b <=> x.closed \/ n = Last)
    BY <2>3, StepIs
  <2>6. PICK o \in People \cup {NoOwner} : o = x.steps[n].owner
    BY <2>3, StepIs
  <2>7x. PICK st : st = [owner |-> o, signed |-> yes, version |-> v, figures |-> g]
    OBVIOUS
  <2>7. st \in SopSteps(Len(s)) /\ st.signed = TRUE /\ st.version = v /\ st.figures = g
    <3>1. st \in SopSteps(Len(s))
      BY <2>7x DEF SopSteps
    <3>. QED  BY <2>5, <2>7x, <3>1
  <2>8. PICK y : y = [[x EXCEPT !.steps = [x.steps EXCEPT ![n] = st]] EXCEPT !.closed = b]
    OBVIOUS
  <2>9. y \in Cycles(Len(s)) /\ y.closed = b /\ \A k \in Number : y.steps[k] = IF k = n THEN st ELSE x.steps[k]
    <3>1. PICK q : q = [x.steps EXCEPT ![n] = st]
      OBVIOUS
    <3>2. q \in [Number -> SopSteps(Len(s))] /\ \A k \in Number : q[k] = IF k = n THEN st ELSE x.steps[k]
      BY <2>3, <2>7, <3>1, StepIs
    <3>3. PICK z : z = [x EXCEPT !.steps = q]
      OBVIOUS
    <3>4. z \in Cycles(Len(s)) /\ z.steps = q
      BY <2>3, <3>2, <3>3, StepIs DEF Cycles
    <3>5. y = [z EXCEPT !.closed = b]
      BY <2>8, <3>1, <3>3
    <3>6. y \in Cycles(Len(s)) /\ y.closed = b /\ y.steps = q
      BY <3>4, <3>5 DEF Cycles
    <3>. QED  BY <3>2, <3>6
  <2>10. InOrder(y)
    <3>1. n \in 1..Last /\ Last \in Nat
      BY NumberIs
    <3>2. \A k \in Number : x.steps[k].signed => \A j \in 1..k : x.steps[j].signed
      BY <2>3 DEF Right, InOrder
    <3>3. ASSUME NEW k \in Number, y.steps[k].signed, NEW j \in 1..k
          PROVE  y.steps[j].signed
      <4>1. j \in Number /\ k \in Nat /\ j \in Nat
        BY NumberIs
      <4>2. CASE k = n
        BY <2>4, <2>7, <2>9, <3>3, <4>1, <4>2
      <4>3. CASE k # n
        BY <2>7, <2>9, <3>2, <3>3, <4>1, <4>3
      <4>. QED  BY <4>2, <4>3
    <3>4. y.closed <=> \A k \in Number : y.steps[k].signed
      <4>1. ~x.closed
        BY <2>3, <2>4 DEF Right, InOrder
      <4>2. y.closed <=> n = Last
        BY <2>5, <2>9, <4>1
      <4>3. CASE n = Last
        BY <2>4, <2>7, <2>9, <4>2, <4>3, NumberIs
      <4>4. CASE n # Last
        <5>1. Last \in Number /\ n \in 1..Last
          BY NumberIs
        <5>2. ~x.steps[Last].signed
          BY <2>4, <3>2, <5>1
        <5>. QED  BY <2>9, <4>2, <4>4, <5>1, <5>2
      <4>. QED  BY <4>3, <4>4
    <3>. QED  BY <3>3, <3>4 DEF InOrder
  <2>11. Right(y, s)
    <3>1. ASSUME NEW k \in Number
          PROVE  /\ y.steps[k].signed => y.steps[k].version # NoVersion
                 /\ Froze(s, y.steps[k].version, y.steps[k].figures)
      <4>1. CASE k = n
        BY <1>2, <2>1, <2>2, <2>7, <2>9, <4>1
      <4>2. CASE k # n
        BY <2>3, <2>9, <4>2 DEF Right
      <4>. QED  BY <4>1, <4>2
    <3>. QED  BY <2>9, <2>10, <3>1 DEF Right
  <2>12. cycles' = [cycles EXCEPT ![m] = y]
    <3>1. cycles' = SignedOff(m, n, g, v)
      BY <1>1, <1>5, <2>2 DEF Records
    <3>2. yes = TRUE /\ b \in BOOLEAN /\ x.closed \in BOOLEAN
      BY <2>3, <2>5, StepIs
    <3>3. b = (x.closed \/ n = Last)
      BY <2>5, <3>2, Zenon
    <3>4. SignedOff(m, n, g, v) = [cycles EXCEPT ![m] = y]
      BY <2>3, <2>6, <2>7x, <2>8, <3>2, <3>3 DEF SignedOff, SopInv
    <3>. QED  BY <3>1, <3>4
  <2>13. \A k \in Months : cycles'[k] = cycles[k] \/ Right(cycles'[k], versions')
    BY <1>1, <1>2, <2>11, <2>12 DEF SopInv
  <2>. QED  BY <1>2, <1>3, <2>12, <2>13, SopGoes DEF SopInv
<1>. QED  BY <1>4, <1>5

LEMMA Reopening ==
    ASSUME SopInv, NEW p \in People, NEW m \in Months, NEW n \in Number, Reopen(p, m, n)
    PROVE  SopInv'
<1>1. PICK s \in Seq(Tables), x \in {cycles[m]} : s = versions /\ x = cycles[m] /\ Right(x, s)
  BY DEF SopInv, VInv, Reopen
<1>2. PICK no \in BOOLEAN : no = FALSE
  OBVIOUS
<1>3. PICK q : q = [k \in Number |-> IF k >= n THEN [x.steps[k] EXCEPT !.signed = no] ELSE x.steps[k]]
  OBVIOUS
<1>4. ASSUME NEW k \in Number
      PROVE  /\ q[k] \in SopSteps(Len(s)) /\ q[k].version = x.steps[k].version /\ q[k].figures = x.steps[k].figures
             /\ q[k].signed <=> (x.steps[k].signed /\ ~(k >= n))
  <2>1. x.steps[k] \in SopSteps(Len(s))
    BY <1>1, StepIs
  <2>2. CASE k >= n
    <3>1. q[k] = [x.steps[k] EXCEPT !.signed = no]
      BY <1>3, <2>2
    <3>. QED  BY <1>2, <2>1, <2>2, <3>1 DEF SopSteps
  <2>3. CASE ~(k >= n)
    <3>1. q[k] = x.steps[k]
      BY <1>3, <2>3
    <3>. QED  BY <2>1, <2>3, <3>1
  <2>. QED  BY <2>2, <2>3
<1>5. q \in [Number -> SopSteps(Len(s))]
  BY <1>3, <1>4
<1>6. PICK y : y = [[x EXCEPT !.closed = no] EXCEPT !.steps = q]
  OBVIOUS
<1>7. y \in Cycles(Len(s)) /\ y.closed = FALSE /\ y.steps = q
  <2>1. PICK z : z = [x EXCEPT !.closed = no]
    OBVIOUS
  <2>2. z \in Cycles(Len(s)) /\ z.closed = no
    BY <1>1, <2>1, StepIs DEF Cycles
  <2>3. y = [z EXCEPT !.steps = q]
    BY <1>6, <2>1
  <2>. QED  BY <1>2, <1>5, <2>2, <2>3 DEF Cycles
<1>8. InOrder(y)
  <2>1. ASSUME NEW k \in Number, y.steps[k].signed, NEW j \in 1..k
        PROVE  y.steps[j].signed
    <3>1. j \in Number /\ n \in Nat /\ k \in Nat /\ j \in Nat /\ j <= k
      BY NumberIs
    <3>2. x.steps[k].signed /\ ~(k >= n)
      BY <1>4, <1>7, <2>1
    <3>3. x.steps[j].signed /\ ~(j >= n)
      BY <1>1, <3>1, <3>2 DEF Right, InOrder
    <3>. QED  BY <1>4, <1>7, <3>1, <3>3
  <2>2. ~y.steps[n].signed
    <3>1. n >= n
      BY NumberIs
    <3>. QED  BY <1>4, <1>7, <3>1
  <2>. QED  BY <1>7, <2>1, <2>2 DEF InOrder
<1>9. Right(y, s)
  BY <1>1, <1>4, <1>7, <1>8 DEF Right
<1>10. cycles' = [cycles EXCEPT ![m] = y] /\ versions' = versions /\ signing' = signing
  BY <1>1, <1>2, <1>3, <1>6 DEF Reopen, SopInv
<1>11. \A k \in Months : cycles'[k] = cycles[k] \/ Right(cycles'[k], versions')
  BY <1>1, <1>9, <1>10 DEF SopInv
<1>. QED  BY <1>10, <1>11, SopGoes DEF SopInv

LEMMA SopStarts == SopInit => SopInv
<1>. SUFFICES ASSUME SopInit PROVE SopInv
  OBVIOUS
<1>1. versions = <<>> /\ cycles = [m \in Months |-> NoCycle] /\ signing = [p \in People |-> NoCall]
  BY DEF SopInit, VersionsInit
<1>2. VInv
  BY <1>1 DEF VInv, Rooted, Stand
<1>. QED  BY <1>1, <1>2 DEF SopInv, Has

LEMMA SopMoves == SopInv /\ [SopNext]_sopVars => SopInv'
<1>. SUFFICES ASSUME SopInv, [SopNext]_sopVars PROVE SopInv'
  OBVIOUS
<1>1. CASE VersionsNext /\ UNCHANGED <<cycles, signing>>
  <2>1. Shifts
    BY <1>1, VersionsShift DEF SopInv
  <2>. QED  BY <1>1, <2>1, SopGoes DEF SopInv
<1>2. ASSUME NEW m \in Months, Create(m) \/ Delete(m)
      PROVE  SopInv'
  BY <1>2, Creating, Deleting
<1>3. ASSUME NEW m \in Months, NEW n \in Number, NEW who \in People \cup {NoOwner}, SetOwner(m, n, who)
      PROVE  SopInv'
  BY <1>3, Owning
<1>4. ASSUME NEW m \in Months, NEW p \in People, NEW n \in Number, Reopen(p, m, n) \/ \E c \in Contents : Looks(p, m, n, c)
      PROVE  SopInv'
  BY <1>4, Reopening, Looking
<1>5. ASSUME NEW p \in People, Freezes(p) \/ Records(p)
      PROVE  SopInv'
  BY <1>5, FreezingFor, Recording
<1>6. CASE UNCHANGED sopVars
  BY <1>6, SopGoes DEF sopVars, SopInv
<1>. QED  BY <1>1, <1>2, <1>3, <1>4, <1>5, <1>6 DEF SopNext

LEMMA SopAlways == SopSpec => []SopInv
BY SopStarts, SopMoves, PTL DEF SopSpec

\* Versions, cycles and sign-offs under way hold values of their kind.
THEOREM SopType == SopSpec => []SopTypeOK
BY SopAlways, SopSays, PTL

\* A cycle is signed off in order and closed when all of it is, and what was frozen at a sign-off stays what its figures
\* are of, whoever signs, reopens, deletes and starts cycles and promotes scenarios in between (sop/cycle.py;
\* versions/store.py), for any steps, months, people and number of versions.
THEOREM SignedOffInOrder == SopSpec => []SignedInOrder
BY SopAlways, SopSays, PTL
=============================================================================
