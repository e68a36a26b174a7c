----------------------------- MODULE SalesProofs -----------------------------
(* Theorems about what a company sells: order lines delivered, taken back and  *)
(* rolled forward (SalesOrders), and what was shipped billed, paid, taken back *)
(* and credited (Billing). For any number of lines, postings, days, bills and  *)
(* returns, and any quantities.                                                *)
EXTENDS SalesOrders, Billing, Sums

-----------------------------------------------------------------------------
(* The journal: every reversal takes one posting back whole, and none twice.   *)

JournalPairs(ms) ==
    /\ \A j \in DOMAIN ms : ms[j].undoes # 0 =>
          /\ ms[j].undoes \in DOMAIN ms /\ ms[ms[j].undoes].undoes = 0
          /\ ms[ms[j].undoes].qty = ms[j].qty /\ ms[ms[j].undoes].line = ms[j].line
    /\ \A j, k \in DOMAIN ms : ms[j].undoes # 0 /\ ms[j].undoes = ms[k].undoes => j = k

\* Postings with all that their reversals take back.
Closes(ms, T) == \A j \in T : ms[j].undoes # 0 => ms[j].undoes \in T

NetOf(ms) == [i \in DOMAIN ms |-> Net(ms[i])]

LEMMA NetValues ==
    ASSUME NEW ms \in Seq(Moves), NEW T, T \subseteq DOMAIN ms
    PROVE  /\ IsFiniteSet(T)
           /\ \A i \in T : /\ ms[i] \in Moves /\ ms[i].qty \in Nat
                           /\ NetOf(ms)[i] = (IF ms[i].undoes # 0 THEN -ms[i].qty ELSE ms[i].qty)
                           /\ NetOf(ms)[i] \in Int
<1>1. IsFiniteSet(T) /\ \A i \in T : i \in DOMAIN ms /\ ms[i] \in Moves
  BY Places
<1>2. \A m \in Moves : m.qty \in Nat
  BY DEF Moves
<1>3. \A i \in T : NetOf(ms)[i] = (IF ms[i].undoes # 0 THEN -ms[i].qty ELSE ms[i].qty)
  BY <1>1 DEF NetOf, Net
<1>4. \A i \in T : NetOf(ms)[i] \in Int
  BY <1>1, <1>2, <1>3
<1>. QED  BY <1>1, <1>2, <1>3, <1>4

\* They never add up to less than nothing.
LEMMA PairsCancel ==
    ASSUME NEW ms \in Seq(Moves), JournalPairs(ms), NEW S, S \subseteq DOMAIN ms, Closes(ms, S)
    PROVE  SumFunctionOnSet(NetOf(ms), S) \in Int /\ SumFunctionOnSet(NetOf(ms), S) >= 0
<1>1. PICK f : f = NetOf(ms)
  OBVIOUS
<1>2. \A T \in SUBSET S : IsFiniteSet(T) /\ SumFunctionOnSet(f, T) \in Int
  <2>. SUFFICES ASSUME NEW T \in SUBSET S PROVE IsFiniteSet(T) /\ SumFunctionOnSet(f, T) \in Int
    OBVIOUS
  <2>1. IsFiniteSet(T) /\ \A i \in T : f[i] \in Int
    BY <1>1, NetValues
  <2>. QED  BY <2>1, SumInt
<1>. DEFINE Less == {T \in SUBSET S : Closes(ms, T) /\ ~(SumFunctionOnSet(f, T) >= 0)}
<1>3. Less = {}
  <2>. SUFFICES ASSUME Less # {} PROVE FALSE
    OBVIOUS
  <2>1. \A T \in Less : IsFiniteSet(T)
    BY <1>2
  <2>2. PICK V \in Less : /\ IsFiniteSet(V)
                         /\ \A W \in SUBSET V : Cardinality(W) < Cardinality(V) => W \notin Less
    <3>. HIDE DEF Less
    <3>. QED  BY <2>1, LeastSet
  <2>3. V \in SUBSET S /\ Closes(ms, V) /\ ~(SumFunctionOnSet(f, V) >= 0)
    OBVIOUS
  <2>4. \A i \in V : /\ ms[i] \in Moves /\ ms[i].qty \in Nat /\ f[i] \in Int
                     /\ f[i] = IF ms[i].undoes # 0 THEN -ms[i].qty ELSE ms[i].qty
    BY <1>1, <2>3, NetValues
  <2>5. PICK j \in V : ms[j].undoes # 0
    <3>. SUFFICES ASSUME \A j \in V : ms[j].undoes = 0 PROVE FALSE
      OBVIOUS
    <3>1. \A i \in V : f[i] \in Nat
      BY <2>4
    <3>2. SumFunctionOnSet(f, V) \in Nat
      BY <2>2, <3>1, SumNat
    <3>. QED  BY <2>3, <3>2
  <2>6. PICK i \in V : i = ms[j].undoes /\ ms[i].undoes = 0 /\ ms[i].qty = ms[j].qty /\ i # j
    <3>1. ms[j].undoes \in V /\ j \in DOMAIN ms
      BY <2>3, <2>5 DEF Closes
    <3>2. ms[ms[j].undoes].undoes = 0 /\ ms[ms[j].undoes].qty = ms[j].qty
      BY <2>5, <3>1 DEF JournalPairs
    <3>. QED  BY <2>5, <3>1, <3>2
  <2>7. PICK U : U = V \ {j} /\ IsFiniteSet(U) /\ i \in U /\ U \in SUBSET S
    <3>1. IsFiniteSet(V \ {j}) /\ i \in V \ {j} /\ V \ {j} \in SUBSET S
      BY <2>2, <2>3, <2>6, SmallerWithout
    <3>. QED  BY <3>1
  <2>8. PICK W : W = U \ {i} /\ IsFiniteSet(W) /\ W \in SUBSET S /\ W \in SUBSET V
    <3>1. IsFiniteSet(U \ {i}) /\ U \ {i} \in SUBSET S /\ U \ {i} \in SUBSET V
      BY <2>7, SmallerWithout
    <3>. QED  BY <3>1
  <2>9. Cardinality(W) < Cardinality(V)
    <3>1. Cardinality(U) < Cardinality(V)
      BY <2>2, <2>7, SmallerWithout
    <3>2. Cardinality(W) < Cardinality(U)
      BY <2>7, <2>8, SmallerWithout
    <3>3. {Cardinality(U), Cardinality(V), Cardinality(W)} \subseteq Nat
      BY <2>2, <2>7, <2>8, FS_CardinalityType
    <3>. QED  BY <3>1, <3>2, <3>3
  <2>10. Closes(ms, W)
    <3>. SUFFICES ASSUME NEW k \in W, ms[k].undoes # 0 PROVE ms[k].undoes \in W
      BY DEF Closes
    <3>1. k \in V /\ k # j /\ k # i /\ k \in DOMAIN ms /\ j \in DOMAIN ms
      BY <2>3, <2>7, <2>8
    <3>2. ms[k].undoes \in V /\ ms[ms[k].undoes].undoes = 0
      BY <2>3, <3>1 DEF Closes, JournalPairs
    <3>3. ms[k].undoes # j
      BY <2>5, <3>2
    <3>4. ms[k].undoes # i
      BY <2>6, <3>1 DEF JournalPairs
    <3>. QED  BY <2>7, <2>8, <3>2, <3>3, <3>4
  <2>11. SumFunctionOnSet(f, W) >= 0
    <3>1. W \notin Less
      <4>. HIDE DEF Less
      <4>. QED  BY <2>2, <2>8, <2>9
    <3>. QED  BY <2>8, <2>10, <3>1
  <2>12. /\ SumFunctionOnSet(f, V) = f[j] + SumFunctionOnSet(f, U)
         /\ SumFunctionOnSet(f, U) = f[i] + SumFunctionOnSet(f, W)
    <3>1. \A x \in U : f[x] \in Int
      BY <2>4, <2>7
    <3>. QED  BY <2>2, <2>4, <2>7, <2>8, <3>1, SumRemove, SMTT(30)
  <2>13. f[j] = -ms[j].qty /\ f[i] = ms[j].qty /\ ms[j].qty \in Nat /\ SumFunctionOnSet(f, W) \in Int
    BY <1>2, <2>4, <2>5, <2>6, <2>8
  <2>. HIDE DEF Less
  <2>. QED  BY <2>3, <2>11, <2>12, <2>13
<1>4. S \notin Less
  BY <1>3
<1>. QED  BY <1>1, <1>2, <1>4

-----------------------------------------------------------------------------
(* One roll and two.                                                          *)

\* Delivered before a day that no posting and its reversal are on both sides of.
LEMMA DeliveredGrows ==
    ASSUME journal \in Seq(Moves), JournalPairs(journal), NEW d \in Int, NEW e \in Int, d <= e,
           ~Straddles(d), ~Straddles(e), NEW l
    PROVE  /\ DeliveredIn(Before(d), l) \in Int /\ DeliveredIn(Before(e), l) \in Int
           /\ DeliveredIn(Before(d), l) >= 0
           /\ DeliveredIn(Before(d), l) <= DeliveredIn(Before(e), l)
           /\ FinalIn(Before(d), l) => FinalIn(Before(e), l)
<1>1. PICK ms \in Seq(Moves) : ms = journal /\ JournalPairs(ms)
  OBVIOUS
<1>2. \A i \in DOMAIN ms : ms[i].day \in Int /\ ms[i].undoes \in Nat /\ i # 0
  <2>1. \A i \in DOMAIN ms : ms[i] \in Moves /\ i # 0
    BY Places
  <2>2. \A m \in Moves : m.day \in Int /\ m.undoes \in Nat
    BY SalesAssumption DEF Moves, Days
  <2>. QED  BY <2>1, <2>2
<1>3. \A j \in DOMAIN ms : ms[j].undoes # 0 => /\ (ms[j].day < d) = (ms[ms[j].undoes].day < d)
                                               /\ (ms[j].day < e) = (ms[ms[j].undoes].day < e)
  BY <1>1 DEF Straddles
<1>4. PICK D, E : /\ D = {i \in Before(d) : journal[i].line = l}
                  /\ E = {i \in Before(e) : journal[i].line = l}
  OBVIOUS
<1>5. /\ \A i : i \in D <=> i \in DOMAIN ms /\ ms[i].day < d /\ ms[i].line = l
      /\ \A i : i \in E <=> i \in DOMAIN ms /\ ms[i].day < e /\ ms[i].line = l
  BY <1>1, <1>4 DEF Before
<1>6. D \subseteq E /\ E \subseteq DOMAIN ms
  BY <1>2, <1>5
<1>7. PICK R : R = E \ D
  OBVIOUS
<1>8. Closes(ms, D) /\ Closes(ms, E) /\ Closes(ms, R)
  <2>1. ASSUME NEW j \in DOMAIN ms, ms[j].undoes # 0
        PROVE  (j \in D <=> ms[j].undoes \in D) /\ (j \in E <=> ms[j].undoes \in E)
    <3>1. ms[j].undoes \in DOMAIN ms /\ ms[ms[j].undoes].line = ms[j].line
      BY <1>1, <2>1 DEF JournalPairs
    <3>2. /\ (ms[j].day < d) = (ms[ms[j].undoes].day < d)
          /\ (ms[j].day < e) = (ms[ms[j].undoes].day < e)
      BY <1>3, <2>1
    <3>. QED  BY <1>5, <3>1, <3>2
  <2>. QED  BY <1>6, <1>7, <2>1 DEF Closes
<1>9. PICK f : f = NetOf(ms)
  OBVIOUS
<1>10. /\ SumFunctionOnSet(f, D) \in Int /\ SumFunctionOnSet(f, D) >= 0
       /\ SumFunctionOnSet(f, R) \in Int /\ SumFunctionOnSet(f, R) >= 0
  BY <1>1, <1>6, <1>7, <1>8, <1>9, PairsCancel
<1>11. SumFunctionOnSet(f, E) = SumFunctionOnSet(f, D) + SumFunctionOnSet(f, R)
  <2>1. IsFiniteSet(D) /\ IsFiniteSet(R) /\ \A x \in D \cup R : f[x] \in Int
    BY <1>6, <1>7, <1>9, NetValues
  <2>2. D \cap R = {} /\ D \cup R = E
    BY <1>6, <1>7
  <2>. QED  BY <2>1, <2>2, SumParts
<1>12. DeliveredIn(Before(d), l) = SumFunctionOnSet(f, D) /\ DeliveredIn(Before(e), l) = SumFunctionOnSet(f, E)
  BY <1>1, <1>4, <1>9 DEF DeliveredIn, NetOf
<1>13. ASSUME FinalIn(Before(d), l)
       PROVE  FinalIn(Before(e), l)
  <2>1. PICK i \in Before(d) : /\ journal[i].line = l /\ journal[i].final /\ journal[i].undoes = 0
                              /\ \A j \in Before(d) : journal[j].undoes # i
    BY <1>13 DEF FinalIn
  <2>2. \A x : (x \in Before(d) <=> x \in DOMAIN ms /\ ms[x].day < d) /\ (x \in Before(e) <=> x \in DOMAIN ms /\ ms[x].day < e)
    BY <1>1 DEF Before
  <2>3. i \in DOMAIN ms /\ ms[i].day < d /\ i \in Before(e)
    BY <1>2, <2>1, <2>2
  <2>4. ASSUME NEW j \in Before(e), journal[j].undoes = i
        PROVE  FALSE
    <3>1. j \in DOMAIN ms /\ ms[j].undoes # 0 /\ ms[j].undoes = i
      BY <1>1, <1>2, <2>2, <2>3, <2>4
    <3>2. (ms[j].day < d) = (ms[i].day < d)
      BY <1>3, <3>1
    <3>3. j \in Before(d)
      BY <2>2, <2>3, <3>1, <3>2
    <3>. QED  BY <2>1, <2>4, <3>3
  <2>. QED  BY <2>1, <2>3, <2>4 DEF FinalIn
<1>. QED  BY <1>10, <1>11, <1>12, <1>13

\* An order line rolled on, by the quantity delivered before the day and whether a final delivery stands before it.
RollBy(r, q, fin) ==
    IF r.is # "open" THEN r
    ELSE IF Ordered(r) - q <= 0 \/ fin THEN Closed(r, "closed")
    ELSE [r EXCEPT !.qty = Ordered(r) - q, !.whole = IF q > 0 THEN Ordered(r) ELSE @]

LEMMA OpenLine ==
    ASSUME NEW r \in OrderLines, NEW n \in Int, NEW w \in Nat, NEW x, x = [r EXCEPT !.qty = n, !.whole = w]
    PROVE  x \in OrderLines /\ x.is = r.is /\ x.qty = n /\ x.whole = w /\ x.blocked = r.blocked
BY DEF OrderLines

LEMMA RollByTwice ==
    ASSUME NEW r \in OrderLines, NEW D \in Int, NEW E \in Int, 0 <= D, D <= E,
           NEW fd \in BOOLEAN, NEW fe \in BOOLEAN, fd => fe, r.is = "open" => Ordered(r) \in Nat
    PROVE  RollBy(r, D, fd) \in OrderLines /\ RollBy(RollBy(r, D, fd), E, fe) = RollBy(r, E, fe)
<1>1. CASE r.is # "open"
  BY <1>1 DEF RollBy
<1>2. CASE r.is = "open"
  <2>1. PICK o \in Nat : o = Ordered(r)
    BY <1>2
  <2>2. r.whole \in Nat /\ r.qty \in Int /\ r.blocked \in BOOLEAN /\ DOMAIN r = {"is", "qty", "whole", "blocked"}
    BY DEF OrderLines
  <2>3. /\ Closed(r, "closed") = [is |-> "closed", qty |-> o, whole |-> o, blocked |-> r.blocked]
        /\ Closed(r, "closed") \in OrderLines /\ Closed(r, "closed").is = "closed"
    BY <2>1 DEF Closed, OrderLines
  <2>4. CASE o - D <= 0 \/ fd
    <3>1. o - E <= 0 \/ fe
      BY <2>4
    <3>2. RollBy(r, D, fd) = Closed(r, "closed") /\ RollBy(r, E, fe) = Closed(r, "closed")
      BY <1>2, <2>1, <2>4, <3>1 DEF RollBy
    <3>3. RollBy(Closed(r, "closed"), E, fe) = Closed(r, "closed")
      BY <2>3 DEF RollBy
    <3>. QED  BY <2>3, <3>2, <3>3
  <2>5. CASE ~(o - D <= 0 \/ fd)
    <3>1. PICK w \in Nat : w = IF D > 0 THEN o ELSE r.whole
      BY <2>2
    <3>2. PICK x : x = [is |-> "open", qty |-> o - D, whole |-> w, blocked |-> r.blocked]
      OBVIOUS
    <3>3. x \in OrderLines /\ x.is = "open" /\ x.qty = o - D /\ x.whole = w /\ x.blocked = r.blocked
      BY <2>2, <3>2 DEF OrderLines
    <3>4. RollBy(r, D, fd) = x
      <4>1. RollBy(r, D, fd) = [r EXCEPT !.qty = o - D, !.whole = IF D > 0 THEN o ELSE r.whole]
        BY <1>2, <2>1, <2>5 DEF RollBy
      <4>2. RollBy(r, D, fd) = [r EXCEPT !.qty = o - D, !.whole = w]
        BY <3>1, <4>1
      <4>. QED  BY <1>2, <3>2, <4>2 DEF OrderLines
    <3>5. Ordered(x) = o
      BY <2>1, <2>2, <2>5, <3>1, <3>3 DEF Ordered
    <3>6. CASE o - E <= 0 \/ fe
      <4>1. RollBy(x, E, fe) = Closed(x, "closed") /\ RollBy(r, E, fe) = Closed(r, "closed")
        BY <1>2, <2>1, <3>3, <3>5, <3>6 DEF RollBy
      <4>2. Closed(x, "closed") = [is |-> "closed", qty |-> o, whole |-> o, blocked |-> r.blocked]
        BY <3>2, <3>5 DEF Closed
      <4>. QED  BY <2>3, <3>3, <3>4, <4>1, <4>2
    <3>7. CASE ~(o - E <= 0 \/ fe)
      <4>1. PICK y \in Nat : y = IF E > 0 THEN o ELSE r.whole
        BY <2>2
      <4>2. y = IF E > 0 THEN o ELSE w
        <5>1. CASE E > 0
          BY <4>1, <5>1
        <5>2. CASE ~(E > 0)
          <6>1. ~(D > 0)
            BY <5>2
          <6>. QED  BY <3>1, <4>1, <5>2, <6>1
        <5>. QED  BY <5>1, <5>2
      <4>3. RollBy(x, E, fe) = [x EXCEPT !.qty = o - E, !.whole = y]
        <5>1. RollBy(x, E, fe) = [x EXCEPT !.qty = o - E, !.whole = IF E > 0 THEN o ELSE w]
          BY <3>3, <3>5, <3>7 DEF RollBy
        <5>. QED  BY <4>2, <5>1
      <4>4. RollBy(r, E, fe) = [r EXCEPT !.qty = o - E, !.whole = y]
        <5>1. RollBy(r, E, fe) = [r EXCEPT !.qty = o - E, !.whole = IF E > 0 THEN o ELSE r.whole]
          BY <1>2, <2>1, <3>7 DEF RollBy
        <5>. QED  BY <4>1, <5>1
      <4>5. PICK u, v : u = RollBy(x, E, fe) /\ v = RollBy(r, E, fe)
        OBVIOUS
      <4>6. u \in OrderLines /\ v \in OrderLines
        <5>1. o - E \in Int
          BY <2>1
        <5>2. u = [x EXCEPT !.qty = o - E, !.whole = y] /\ v = [r EXCEPT !.qty = o - E, !.whole = y]
          BY <4>3, <4>4, <4>5
        <5>3. u \in OrderLines
          BY <3>3, <4>1, <5>1, <5>2, OpenLine, ZenonT(30)
        <5>4. v \in OrderLines
          BY <4>1, <5>1, <5>2, OpenLine
        <5>. QED  BY <5>3, <5>4
      <4>7. u.is = v.is /\ u.qty = v.qty /\ u.whole = v.whole /\ u.blocked = v.blocked
        BY <1>2, <3>3, <4>3, <4>4, <4>5 DEF OrderLines
      <4>8. u = v
        BY <4>6, <4>7 DEF OrderLines
      <4>. QED  BY <3>3, <3>4, <4>5, <4>8
    <3>. QED  BY <3>3, <3>4, <3>6, <3>7
  <2>. QED  BY <2>4, <2>5
<1>. QED  BY <1>1, <1>2

-----------------------------------------------------------------------------
(* Every action keeps the journal's pairs.                                    *)

SalesInv ==
    /\ SalesTypeOK
    /\ JournalPairs(journal)
    /\ \A l \in SalesLines : line[l].whole = 0 => line[l].qty \in Nat

\* The whole quantity of an order line is a number.
LEMMA OrderedNat ==
    ASSUME NEW r \in OrderLines, r.whole = 0 => r.qty \in Nat
    PROVE  Ordered(r) \in Nat
BY DEF Ordered, OrderLines

LEMMA DocNat ==
    ASSUME journal \in Seq(Moves)
    PROVE  NextDoc \in Nat
<1>1. PICK f : f = [i \in DOMAIN journal |-> journal[i].doc]
  OBVIOUS
<1>2. PICK T : T = {0} \cup {journal[i].doc : i \in DOMAIN journal}
  OBVIOUS
<1>3. T = {f[i] : i \in DOMAIN journal} \cup {0}
  BY <1>1, <1>2
<1>4. IsFiniteSet(T)
  <2>1. IsFiniteSet(DOMAIN journal)
    BY Places
  <2>2. IsFiniteSet({f[i] : i \in DOMAIN journal})
    BY <2>1, ImageFinite
  <2>. QED  BY <1>3, <2>2, FS_AddElement
<1>5. T \subseteq Nat /\ T # {}
  <2>1. \A i \in DOMAIN journal : journal[i].doc \in Nat
    <3>1. \A i \in DOMAIN journal : journal[i] \in Moves
      BY Places
    <3>. QED  BY <3>1 DEF Moves
  <2>. QED  BY <1>2, <2>1
<1>6. Max(T) \in Nat
  <2>1. T \subseteq Int
    BY <1>5
  <2>. QED  BY <1>4, <1>5, <2>1, GreatestOf
<1>. QED  BY <1>2, <1>6 DEF NextDoc

LEMMA JournalGrows ==
    ASSUME NEW s \in Seq(Moves), JournalPairs(s), NEW m \in Seq(Moves), NEW t, t = s \o m,
           \A k \in DOMAIN m : m[k].undoes # 0 =>
               /\ m[k].undoes \in DOMAIN s /\ s[m[k].undoes].undoes = 0
               /\ s[m[k].undoes].qty = m[k].qty /\ s[m[k].undoes].line = m[k].line
               /\ \A j \in DOMAIN s : s[j].undoes # m[k].undoes,
           \A j, k \in DOMAIN m : m[j].undoes # 0 /\ m[j].undoes = m[k].undoes => j = k
    PROVE  t \in Seq(Moves) /\ Len(t) = Len(s) + Len(m) /\ JournalPairs(t)
<1>1. PICK n \in Nat, p \in Nat : n = Len(s) /\ p = Len(m)
  <2>1. Len(s) \in Nat /\ Len(m) \in Nat
    OBVIOUS
  <2>. QED  BY <2>1
<1>2. /\ t \in Seq(Moves) /\ Len(t) = n + p /\ DOMAIN t = 1..(n + p) /\ DOMAIN s = 1..n /\ DOMAIN m = 1..p
      /\ \A i \in 1..(n + p) : t[i] = IF i <= n THEN s[i] ELSE m[i - n]
  BY <1>1
<1>3. \A i \in 1..n : i \in DOMAIN s /\ i \in DOMAIN t /\ t[i] = s[i]
  BY <1>2
<1>4. \A i \in DOMAIN t : i \in 1..n \/ (i - n \in DOMAIN m /\ t[i] = m[i - n])
  BY <1>2
<1>5. ASSUME NEW j \in DOMAIN t, t[j].undoes # 0
      PROVE  /\ t[j].undoes \in DOMAIN t /\ t[t[j].undoes].undoes = 0
             /\ t[t[j].undoes].qty = t[j].qty /\ t[t[j].undoes].line = t[j].line
             /\ t[j].undoes \in 1..n
  <2>1. CASE j \in 1..n
    BY <1>2, <1>3, <1>5, <2>1 DEF JournalPairs
  <2>2. CASE j - n \in DOMAIN m /\ t[j] = m[j - n]
    BY <1>2, <1>3, <1>5, <2>2
  <2>. QED  BY <1>4, <2>1, <2>2
<1>6. ASSUME NEW j \in DOMAIN t, NEW k \in DOMAIN t, t[j].undoes # 0, t[j].undoes = t[k].undoes
      PROVE  j = k
  <2>1. CASE j \in 1..n /\ k \in 1..n
    BY <1>3, <1>6, <2>1 DEF JournalPairs
  <2>2. CASE j \in 1..n /\ k - n \in DOMAIN m /\ t[k] = m[k - n]
    BY <1>3, <1>6, <2>2
  <2>3. CASE k \in 1..n /\ j - n \in DOMAIN m /\ t[j] = m[j - n]
    BY <1>3, <1>6, <2>3
  <2>4. CASE j - n \in DOMAIN m /\ t[j] = m[j - n] /\ k - n \in DOMAIN m /\ t[k] = m[k - n]
    <3>1. j - n = k - n
      BY <1>6, <2>4
    <3>. QED  BY <1>1, <1>2, <3>1
  <2>. QED  BY <1>4, <2>1, <2>2, <2>3, <2>4
<1>. QED  BY <1>1, <1>2, <1>5, <1>6 DEF JournalPairs

LEMMA SalesInvInit == SalesInit => SalesInv
<1>. SUFFICES ASSUME SalesInit PROVE SalesInv
  OBVIOUS
<1>1. start = 0 /\ line = [l \in SalesLines |-> NoLine] /\ journal = <<>> /\ deliveries = <<>>
  BY DEF SalesInit
<1>2. NoLine \in OrderLines /\ NoLine.qty \in Nat
  BY DEF NoLine, OrderLines
<1>3. SalesTypeOK
  BY <1>1, <1>2, SalesAssumption DEF SalesTypeOK
<1>4. JournalPairs(journal)
  BY <1>1 DEF JournalPairs
<1>. QED  BY <1>1, <1>2, <1>3, <1>4 DEF SalesInv

\* Orders taken, changed, released and cancelled.
LEMMA OrderSteps ==
    ASSUME SalesInv, TakeSalesOrder \/ ChangeSalesOrder \/ ReleaseCredit \/ CancelSalesOrder
    PROVE  SalesInv'
<1>1. /\ line \in [SalesLines -> OrderLines] /\ \A l \in SalesLines : line[l].whole = 0 => line[l].qty \in Nat
      /\ \A l \in SalesLines : Ordered(line[l]) \in Nat
  BY OrderedNat DEF SalesInv, SalesTypeOK
<1>2. UNCHANGED <<start, journal, deliveries>>
  BY DEF TakeSalesOrder, ChangeSalesOrder, ReleaseCredit, CancelSalesOrder
<1>3. PICK l \in SalesLines, r \in OrderLines : line' = [line EXCEPT ![l] = r] /\ (r.whole = 0 => r.qty \in Nat)
  <2>1. CASE TakeSalesOrder
    <3>1. PICK l \in SalesLines, q \in Units, over \in BOOLEAN :
             line' = [line EXCEPT ![l] = [is |-> "open", qty |-> q, whole |-> 0, blocked |-> over]]
      BY <2>1 DEF TakeSalesOrder
    <3>2. q \in Nat
      BY SalesAssumption DEF Units
    <3>3. PICK r : r = [is |-> "open", qty |-> q, whole |-> 0, blocked |-> over]
      OBVIOUS
    <3>4. r \in OrderLines /\ r.qty = q
      BY <3>2, <3>3 DEF OrderLines
    <3>. QED  BY <3>1, <3>2, <3>3, <3>4
  <2>2. CASE ChangeSalesOrder
    <3>1. PICK l \in SalesLines, q \in Units :
             line' = [line EXCEPT ![l] = [line[l] EXCEPT !.qty = q - (Ordered(line[l]) - line[l].qty),
                                                        !.whole = IF line[l].whole # 0 THEN q ELSE 0]]
      BY <2>2 DEF ChangeSalesOrder
    <3>2. q \in Nat /\ q # 0 /\ line[l] \in OrderLines /\ line[l].qty \in Int /\ Ordered(line[l]) \in Nat
      <4>1. q \in Nat /\ q # 0
        BY SalesAssumption DEF Units
      <4>2. line[l] \in OrderLines
        BY <1>1
      <4>. QED  BY <1>1, <4>1, <4>2 DEF OrderLines
    <3>3. PICK n \in Int, w \in Nat : /\ n = q - (Ordered(line[l]) - line[l].qty)
                                      /\ w = IF line[l].whole # 0 THEN q ELSE 0
      BY <3>2
    <3>4. PICK r : r = [line[l] EXCEPT !.qty = n, !.whole = w]
      OBVIOUS
    <3>5. r \in OrderLines /\ r.qty = n /\ r.whole = w
      <4>1. PICK b \in OrderLines : b = line[l]
        BY <3>2
      <4>2. r = [b EXCEPT !.qty = n, !.whole = w]
        BY <3>4, <4>1
      <4>3. r \in OrderLines /\ r.qty = n /\ r.whole = w /\ r.blocked = b.blocked /\ r.is = b.is
        BY <4>2 DEF OrderLines
      <4>. QED  BY <4>3
    <3>6. w = 0 => n \in Nat
      <4>. SUFFICES ASSUME w = 0 PROVE n \in Nat
        OBVIOUS
      <4>1. line[l].whole = 0
        BY <3>2, <3>3
      <4>2. Ordered(line[l]) = line[l].qty
        BY <4>1 DEF Ordered
      <4>. QED  BY <3>2, <3>3, <4>2
    <3>7. line' = [line EXCEPT ![l] = r]
      BY <3>1, <3>3, <3>4
    <3>. QED  BY <3>5, <3>6, <3>7
  <2>3. CASE ReleaseCredit
    <3>1. PICK l \in SalesLines : line' = [line EXCEPT ![l].blocked = FALSE]
      BY <2>3 DEF ReleaseCredit
    <3>2. PICK r : r = [line[l] EXCEPT !.blocked = FALSE]
      OBVIOUS
    <3>3. line[l] \in OrderLines
      BY <1>1
    <3>4. r \in OrderLines /\ r.whole = line[l].whole /\ r.qty = line[l].qty
      BY <3>2, <3>3 DEF OrderLines
    <3>5. line' = [line EXCEPT ![l] = r]
      BY <3>1, <3>2
    <3>. QED  BY <1>1, <3>4, <3>5
  <2>4. CASE CancelSalesOrder
    <3>1. PICK l \in SalesLines : line' = [line EXCEPT ![l] = Closed(line[l], "cancelled")]
      BY <2>4 DEF CancelSalesOrder
    <3>2. Closed(line[l], "cancelled") \in OrderLines /\ Closed(line[l], "cancelled").qty \in Nat
      <4>1. line[l] \in OrderLines /\ Ordered(line[l]) \in Nat
        BY <1>1
      <4>2. line[l].blocked \in BOOLEAN
        BY <4>1 DEF OrderLines
      <4>. QED  BY <4>1, <4>2 DEF Closed, OrderLines
    <3>. QED  BY <3>1, <3>2
  <2>. QED  BY <2>1, <2>2, <2>3, <2>4
<1>4. /\ line' \in [SalesLines -> OrderLines]
      /\ \A k \in SalesLines : line'[k].whole = 0 => line'[k].qty \in Nat
  BY <1>1, <1>3
<1>. QED  BY <1>2, <1>4 DEF SalesInv, SalesTypeOK

\* A delivery made up, picked, or given up.
LEMMA DeliveryKind ==
    /\ \A ls \in SUBSET SalesLines : \A x \in [qty : [ls -> Units], picked : [ls -> 0..MostOrdered], doc : Nat] : x \in Deliveries
    /\ \A x \in Deliveries : \E ls \in SUBSET SalesLines : x \in [qty : [ls -> Units], picked : [ls -> 0..MostOrdered], doc : Nat]
BY DEF Deliveries, PerLine

LEMMA DeliverySteps ==
    ASSUME SalesInv, MakeDelivery \/ PickDelivery \/ CancelDelivery
    PROVE  SalesInv'
<1>1. deliveries \in Seq(Deliveries) /\ Len(deliveries) <= MaxDeliveries /\ Len(deliveries) \in Nat
  BY DEF SalesInv, SalesTypeOK
<1>2. UNCHANGED <<start, line, journal>>
  BY DEF MakeDelivery, PickDelivery, CancelDelivery
<1>3. deliveries' \in Seq(Deliveries) /\ Len(deliveries') <= MaxDeliveries
  <2>1. CASE MakeDelivery
    <3>0. PICK ls \in SUBSET SalesLines : \E q \in [ls -> Units] :
             /\ Len(deliveries) < MaxDeliveries
             /\ deliveries' = Append(deliveries, [qty |-> q, picked |-> q, doc |-> 0])
      BY <2>1 DEF MakeDelivery
    <3>1. PICK q \in [ls -> Units] :
             /\ Len(deliveries) < MaxDeliveries
             /\ deliveries' = Append(deliveries, [qty |-> q, picked |-> q, doc |-> 0])
      BY <3>0
    <3>2. q \in [ls -> 0..MostOrdered]
      BY SalesAssumption DEF Units
    <3>3. [qty |-> q, picked |-> q, doc |-> 0] \in Deliveries
      BY <3>2, DeliveryKind
    <3>. QED  BY <1>1, <3>1, <3>3, SalesAssumption
  <2>2. CASE PickDelivery
    <3>1. PICK i \in DOMAIN deliveries : \E l \in DOMAIN deliveries[i].qty : \E q \in 0..deliveries[i].qty[l] :
             deliveries' = [deliveries EXCEPT ![i].picked[l] = q]
      BY <2>2 DEF PickDelivery
    <3>2. PICK l \in DOMAIN deliveries[i].qty : \E q \in 0..deliveries[i].qty[l] :
             deliveries' = [deliveries EXCEPT ![i].picked[l] = q]
      BY <3>1
    <3>0. PICK q \in 0..deliveries[i].qty[l] : deliveries' = [deliveries EXCEPT ![i].picked[l] = q]
      BY <3>2
    <3>3. deliveries[i] \in Deliveries
      BY <1>1
    <3>4. PICK ls \in SUBSET SalesLines : deliveries[i] \in [qty : [ls -> Units], picked : [ls -> 0..MostOrdered], doc : Nat]
      BY <3>3, DeliveryKind
    <3>5. q \in 0..MostOrdered /\ l \in ls
      <4>1. l \in ls /\ deliveries[i].qty[l] \in Units
        BY <3>4
      <4>. QED  BY <4>1, SalesAssumption DEF Units
    <3>6. PICK p \in [ls -> 0..MostOrdered] : p = [deliveries[i].picked EXCEPT ![l] = q]
      BY <3>4, <3>5
    <3>7. PICK x : x = [deliveries[i] EXCEPT !.picked = p]
      OBVIOUS
    <3>8. x \in Deliveries
      <4>1. x \in [qty : [ls -> Units], picked : [ls -> 0..MostOrdered], doc : Nat]
        BY <3>4, <3>7
      <4>. QED  BY <4>1, DeliveryKind
    <3>9. deliveries' = [deliveries EXCEPT ![i] = x]
      BY <3>0, <3>6, <3>7
    <3>. QED  BY <1>1, <3>8, <3>9
  <2>3. CASE CancelDelivery
    <3>1. PICK i \in DOMAIN deliveries :
             deliveries' = [k \in 1..(Len(deliveries) - 1) |-> deliveries[IF k < i THEN k ELSE k + 1]]
      BY <2>3 DEF CancelDelivery
    <3>2. PICK n \in Nat : n = Len(deliveries) - 1
      BY <1>1, <3>1
    <3>3. \A k \in 1..n : deliveries[IF k < i THEN k ELSE k + 1] \in Deliveries
      BY <1>1, <3>2
    <3>4. deliveries' \in Seq(Deliveries) /\ Len(deliveries') = n
      BY <3>1, <3>2, <3>3
    <3>. QED  BY <1>1, <3>2, <3>4, SalesAssumption
  <2>. QED  BY <2>1, <2>2, <2>3
<1>. QED  BY <1>2, <1>3 DEF SalesInv, SalesTypeOK

-----------------------------------------------------------------------------
(* Goods posted and taken back.                                               *)

\* Movements that take nothing back.
LEMMA PostedPlainly ==
    ASSUME SalesInv, NEW m \in Seq(Moves), \A k \in DOMAIN m : m[k].undoes = 0, Posted(m)
    PROVE  journal' \in Seq(Moves) /\ Len(journal') <= MaxMoves /\ JournalPairs(journal')
<1>1. journal \in Seq(Moves) /\ JournalPairs(journal) /\ journal' = journal \o m /\ Len(journal) + Len(m) <= MaxMoves
  BY DEF SalesInv, SalesTypeOK, Posted
<1>2. journal' \in Seq(Moves) /\ Len(journal') = Len(journal) + Len(m) /\ JournalPairs(journal')
  BY <1>1, JournalGrows
<1>. QED  BY <1>1, <1>2

\* A movement of this journal.
LEMMA MoveOf ==
    ASSUME journal \in Seq(Moves), NEW l \in SalesLines, NEW q \in Nat, NEW d \in Days, NEW undoes \in Nat, NEW final \in BOOLEAN
    PROVE  /\ Move(l, q, d, undoes, final) \in Moves /\ Move(l, q, d, undoes, final).undoes = undoes
           /\ Move(l, q, d, undoes, final).qty = q /\ Move(l, q, d, undoes, final).line = l
<1>1. PICK n \in Nat : n = NextDoc
  BY DocNat
<1>. QED  BY <1>1 DEF Move, Moves

LEMMA Delivers ==
    ASSUME SalesInv, DeliverSalesOrder
    PROVE  SalesInv'
<1>1. PICK l \in SalesLines, q \in Units, d \in Days, final \in BOOLEAN : Posted(<<Move(l, q, d, 0, final)>>)
  BY DEF DeliverSalesOrder
<1>2. PICK v \in Moves : v = Move(l, q, d, 0, final) /\ v.undoes = 0
  <2>1. q \in Nat /\ journal \in Seq(Moves)
    BY SalesAssumption DEF Units, SalesInv, SalesTypeOK
  <2>. QED  BY <2>1, MoveOf
<1>3. PICK m \in Seq(Moves) : m = <<v>> /\ \A k \in DOMAIN m : m[k].undoes = 0
  <2>1. <<v>> \in Seq(Moves)
    OBVIOUS
  <2>2. \A k \in DOMAIN <<v>> : <<v>>[k] = v
    OBVIOUS
  <2>. QED  BY <1>2, <2>1, <2>2
<1>4. journal' \in Seq(Moves) /\ Len(journal') <= MaxMoves /\ JournalPairs(journal')
  BY <1>1, <1>2, <1>3, PostedPlainly
<1>5. UNCHANGED <<start, line, deliveries>>
  BY DEF DeliverSalesOrder
<1>. QED  BY <1>4, <1>5 DEF SalesInv, SalesTypeOK

LEMMA Issues ==
    ASSUME SalesInv, IssueDelivery
    PROVE  SalesInv'
<1>1. PICK i \in DOMAIN deliveries, d \in Days :
         LET dl == deliveries[i]
             out == {l \in DOMAIN dl.qty : dl.picked[l] > 0}
         IN /\ \E order \in [1..Cardinality(out) -> out] :
                  Posted([k \in DOMAIN order |-> Move(order[k], dl.picked[order[k]], d, 0, FALSE)])
            /\ deliveries' = [deliveries EXCEPT ![i].doc = NextDoc]
            /\ UNCHANGED <<start, line>>
  BY DEF IssueDelivery
<1>2. PICK dl, out : dl = deliveries[i] /\ out = {l \in DOMAIN dl.qty : dl.picked[l] > 0}
  OBVIOUS
<1>3. deliveries \in Seq(Deliveries) /\ journal \in Seq(Moves) /\ dl \in Deliveries
  BY <1>2 DEF SalesInv, SalesTypeOK
<1>4. PICK ls \in SUBSET SalesLines : dl \in [qty : [ls -> Units], picked : [ls -> 0..MostOrdered], doc : Nat]
  BY <1>3, DeliveryKind
<1>5. PICK n \in Nat : n = Cardinality(out)
  <2>1. out \subseteq SalesLines
    BY <1>2, <1>4
  <2>2. IsFiniteSet(out)
    BY <2>1, SalesAssumption, FS_Subset
  <2>. QED  BY <2>2, FS_CardinalityType
<1>6. PICK order \in [1..n -> out] : Posted([k \in DOMAIN order |-> Move(order[k], dl.picked[order[k]], d, 0, FALSE)])
  BY <1>1, <1>2, <1>5
<1>7. PICK m : m = [k \in 1..n |-> Move(order[k], dl.picked[order[k]], d, 0, FALSE)]
  OBVIOUS
<1>8. \A k \in 1..n : m[k] \in Moves /\ m[k].undoes = 0
  <2>. SUFFICES ASSUME NEW k \in 1..n PROVE m[k] \in Moves /\ m[k].undoes = 0
    OBVIOUS
  <2>1. order[k] \in SalesLines /\ dl.picked[order[k]] \in Nat
    <3>1. order[k] \in out
      OBVIOUS
    <3>2. order[k] \in ls
      BY <1>2, <1>4, <3>1
    <3>. QED  BY <1>4, <3>2, SalesAssumption
  <2>2. PICK l \in SalesLines, q \in Nat : l = order[k] /\ q = dl.picked[order[k]]
    BY <2>1
  <2>3. m[k] = Move(l, q, d, 0, FALSE)
    BY <1>7, <2>2
  <2>4. PICK u \in Nat, fin \in BOOLEAN : u = 0 /\ fin = FALSE
    OBVIOUS
  <2>5. Move(l, q, d, u, fin) \in Moves /\ Move(l, q, d, u, fin).undoes = u
    BY <1>3, MoveOf
  <2>. QED  BY <2>3, <2>4, <2>5
<1>9. m \in Seq(Moves) /\ DOMAIN m = 1..n
  <2>1. m = [k \in 1..n |-> m[k]]
    BY <1>7
  <2>. QED  BY <1>8, <2>1, ListOf
<1>10. Posted(m)
  BY <1>6, <1>7
<1>11. journal' \in Seq(Moves) /\ Len(journal') <= MaxMoves /\ JournalPairs(journal')
  BY <1>8, <1>9, <1>10, PostedPlainly
<1>12. deliveries' \in Seq(Deliveries) /\ Len(deliveries') = Len(deliveries)
  <2>1. PICK e \in Nat : e = NextDoc
    BY <1>3, DocNat
  <2>2. PICK x : x = [dl EXCEPT !.doc = e]
    OBVIOUS
  <2>3. x \in [qty : [ls -> Units], picked : [ls -> 0..MostOrdered], doc : Nat]
    BY <1>4, <2>2
  <2>4. x \in Deliveries
    BY <2>3, DeliveryKind
  <2>5. deliveries' = [deliveries EXCEPT ![i] = x]
    BY <1>1, <1>2, <2>1, <2>2
  <2>. QED  BY <1>3, <2>4, <2>5
<1>13. UNCHANGED <<start, line>>
  BY <1>1
<1>. QED  BY <1>11, <1>12, <1>13 DEF SalesInv, SalesTypeOK

\* A document taken back: what is taken back stood, and each movement of it once.
LEMMA Reverses ==
    ASSUME SalesInv, ReverseMove
    PROVE  SalesInv'
<1>1. PICK i \in Standing(journal) :
         LET group == {j \in Standing(journal) : journal[j].doc = journal[i].doc}
             sold == {journal[j].line : j \in group}
             ruled == IF journal[i].day > start THEN journal[i].day ELSE start
         IN \E d \in ReversalDays \cup ({ruled} \cap Days) : \E order \in [1..Cardinality(group) -> group] :
               /\ \A j, k \in DOMAIN order : j < k => order[j] < order[k]
               /\ Posted([k \in DOMAIN order |-> Move(journal[order[k]].line, journal[order[k]].qty, d, order[k], FALSE)])
               /\ line' = [l \in SalesLines |-> IF l \in sold THEN Reopened(line[l]) ELSE line[l]]
               /\ UNCHANGED <<start, deliveries>>
  BY DEF ReverseMove
<1>2. PICK group, sold : /\ group = {j \in Standing(journal) : journal[j].doc = journal[i].doc}
                        /\ sold = {journal[j].line : j \in group}
  OBVIOUS
<1>3. journal \in Seq(Moves) /\ JournalPairs(journal) /\ line \in [SalesLines -> OrderLines]
  BY DEF SalesInv, SalesTypeOK
<1>4. \A j \in group : /\ j \in DOMAIN journal /\ journal[j].undoes = 0 /\ j \in Nat /\ j # 0 /\ journal[j] \in Moves
                       /\ \A h \in DOMAIN journal : journal[h].undoes # j
  <2>1. \A j \in group : j \in DOMAIN journal /\ journal[j].undoes = 0 /\ j \notin Undone(journal)
    BY <1>2 DEF Standing
  <2>2. \A j \in DOMAIN journal : j \in Nat /\ j # 0 /\ journal[j] \in Moves
    BY <1>3, Places
  <2>. QED  BY <2>1, <2>2 DEF Undone
<1>5. PICK n \in Nat : n = Cardinality(group)
  <2>1. group \subseteq DOMAIN journal
    BY <1>4
  <2>2. IsFiniteSet(group)
    BY <1>3, <2>1, Places
  <2>. QED  BY <2>2, FS_CardinalityType
<1>6. PICK d \in Days : \E order \in [1..n -> group] :
               /\ \A j, k \in DOMAIN order : j < k => order[j] < order[k]
               /\ Posted([k \in DOMAIN order |-> Move(journal[order[k]].line, journal[order[k]].qty, d, order[k], FALSE)])
               /\ line' = [l \in SalesLines |-> IF l \in sold THEN Reopened(line[l]) ELSE line[l]]
               /\ UNCHANGED <<start, deliveries>>
  BY <1>1, <1>2, <1>5, SalesAssumption DEF Days
<1>7. PICK order \in [1..n -> group] :
               /\ \A j, k \in DOMAIN order : j < k => order[j] < order[k]
               /\ Posted([k \in DOMAIN order |-> Move(journal[order[k]].line, journal[order[k]].qty, d, order[k], FALSE)])
               /\ line' = [l \in SalesLines |-> IF l \in sold THEN Reopened(line[l]) ELSE line[l]]
               /\ UNCHANGED <<start, deliveries>>
  BY <1>6
<1>8. PICK m : m = [k \in 1..n |-> Move(journal[order[k]].line, journal[order[k]].qty, d, order[k], FALSE)]
  OBVIOUS
<1>9. \A k \in 1..n : /\ order[k] \in group /\ m[k] \in Moves /\ m[k].undoes = order[k]
                      /\ m[k].qty = journal[order[k]].qty /\ m[k].line = journal[order[k]].line
  <2>. SUFFICES ASSUME NEW k \in 1..n
                PROVE  /\ order[k] \in group /\ m[k] \in Moves /\ m[k].undoes = order[k]
                       /\ m[k].qty = journal[order[k]].qty /\ m[k].line = journal[order[k]].line
    OBVIOUS
  <2>1. order[k] \in group /\ order[k] \in Nat /\ journal[order[k]] \in Moves
    BY <1>4
  <2>2. journal[order[k]].line \in SalesLines /\ journal[order[k]].qty \in Nat
    BY <2>1 DEF Moves
  <2>3. PICK l \in SalesLines, q \in Nat, u \in Nat : l = journal[order[k]].line /\ q = journal[order[k]].qty /\ u = order[k]
    BY <2>1, <2>2
  <2>4. m[k] = Move(l, q, d, u, FALSE)
    BY <1>8, <2>3
  <2>5. /\ Move(l, q, d, u, FALSE) \in Moves /\ Move(l, q, d, u, FALSE).undoes = u
        /\ Move(l, q, d, u, FALSE).qty = q /\ Move(l, q, d, u, FALSE).line = l
    BY <1>3, MoveOf, ZenonT(30)
  <2>. QED  BY <2>1, <2>3, <2>4, <2>5
<1>10. m \in Seq(Moves) /\ DOMAIN m = 1..n /\ Posted(m)
  <2>1. m = [k \in 1..n |-> m[k]]
    BY <1>8
  <2>2. Posted(m)
    BY <1>7, <1>8
  <2>. QED  BY <1>9, <2>1, <2>2, ListOf
<1>11. \A j, k \in 1..n : order[j] = order[k] => j = k
  <2>. SUFFICES ASSUME NEW j \in 1..n, NEW k \in 1..n, order[j] = order[k], j # k PROVE FALSE
    OBVIOUS
  <2>1. order[j] \in Nat /\ order[k] \in Nat
    BY <1>4
  <2>2. j < k \/ k < j
    OBVIOUS
  <2>. QED  BY <1>7, <2>1, <2>2
<1>12. journal' \in Seq(Moves) /\ Len(journal') <= MaxMoves /\ JournalPairs(journal')
  <2>1. journal' = journal \o m /\ Len(journal) + Len(m) <= MaxMoves
    BY <1>10 DEF Posted
  <2>2. \A k \in DOMAIN m : m[k].undoes # 0 =>
               /\ m[k].undoes \in DOMAIN journal /\ journal[m[k].undoes].undoes = 0
               /\ journal[m[k].undoes].qty = m[k].qty /\ journal[m[k].undoes].line = m[k].line
               /\ \A j \in DOMAIN journal : journal[j].undoes # m[k].undoes
    BY <1>4, <1>9, <1>10
  <2>3. \A j, k \in DOMAIN m : m[j].undoes # 0 /\ m[j].undoes = m[k].undoes => j = k
    BY <1>9, <1>10, <1>11
  <2>4. journal' \in Seq(Moves) /\ Len(journal') = Len(journal) + Len(m) /\ JournalPairs(journal')
    BY <1>3, <1>10, <2>1, <2>2, <2>3, JournalGrows
  <2>. QED  BY <2>1, <2>4
<1>13. /\ line' \in [SalesLines -> OrderLines]
       /\ \A l \in SalesLines : line'[l].whole = 0 => line'[l].qty \in Nat
  <2>1. ASSUME NEW l \in SalesLines
        PROVE  /\ line'[l] \in OrderLines /\ line'[l].whole = line[l].whole /\ line'[l].qty = line[l].qty
    <3>1. line[l] \in OrderLines
      BY <1>3
    <3>2. /\ Reopened(line[l]) \in OrderLines
          /\ Reopened(line[l]).whole = line[l].whole /\ Reopened(line[l]).qty = line[l].qty
      BY <3>1 DEF Reopened, OrderLines
    <3>. QED  BY <1>7, <3>1, <3>2
  <2>2. line' = [l \in SalesLines |-> line'[l]]
    BY <1>7
  <2>. QED  BY <2>1, <2>2 DEF SalesInv
<1>. QED  BY <1>7, <1>12, <1>13 DEF SalesInv, SalesTypeOK

-----------------------------------------------------------------------------
(* The planning start moved on.                                               *)

LEMMA DeliveredInt ==
    ASSUME journal \in Seq(Moves), NEW S, S \subseteq DOMAIN journal, NEW l
    PROVE  DeliveredIn(S, l) \in Int
<1>1. PICK T : T = {i \in S : journal[i].line = l} /\ T \subseteq DOMAIN journal
  OBVIOUS
<1>2. IsFiniteSet(T) /\ \A i \in T : NetOf(journal)[i] \in Int
  BY <1>1, NetValues
<1>3. SumFunctionOnSet(NetOf(journal), T) \in Int
  BY <1>2, SumInt
<1>. QED  BY <1>1, <1>3 DEF DeliveredIn, NetOf

LEMMA RolledIs ==
    ASSUME NEW r, NEW S, NEW l, NEW q, q = DeliveredIn(S, l), NEW fin \in BOOLEAN, fin <=> FinalIn(S, l)
    PROVE  RolledLine(r, S, l) = RollBy(r, q, fin)
BY DEF RolledLine, RollBy

LEMMA RollByKind ==
    ASSUME NEW r \in OrderLines, NEW q \in Int, NEW fin \in BOOLEAN, r.whole = 0 => r.qty \in Nat
    PROVE  RollBy(r, q, fin) \in OrderLines /\ (RollBy(r, q, fin).whole = 0 => RollBy(r, q, fin).qty \in Nat)
<1>1. PICK o \in Nat : o = Ordered(r)
  BY OrderedNat
<1>2. r.whole \in Nat /\ r.blocked \in BOOLEAN
  BY DEF OrderLines
<1>3. CASE r.is # "open"
  BY <1>3 DEF RollBy
<1>4. CASE r.is = "open" /\ (o - q <= 0 \/ fin)
  <2>1. RollBy(r, q, fin) = [is |-> "closed", qty |-> o, whole |-> o, blocked |-> r.blocked]
    BY <1>1, <1>4 DEF RollBy, Closed
  <2>. QED  BY <1>2, <2>1 DEF OrderLines
<1>5. CASE r.is = "open" /\ ~(o - q <= 0 \/ fin)
  <2>1. PICK n \in Nat : n = o - q
    BY <1>5
  <2>2. PICK w \in Nat : w = IF q > 0 THEN o ELSE r.whole
    BY <1>2
  <2>3. RollBy(r, q, fin) = [r EXCEPT !.qty = n, !.whole = w]
    <3>1. RollBy(r, q, fin) = [r EXCEPT !.qty = o - q, !.whole = IF q > 0 THEN o ELSE r.whole]
      BY <1>1, <1>5 DEF RollBy
    <3>. QED  BY <2>1, <2>2, <3>1
  <2>4. PICK x : x = [r EXCEPT !.qty = n, !.whole = w]
    OBVIOUS
  <2>5. PICK k \in Int : k = n
    OBVIOUS
  <2>6. x = [r EXCEPT !.qty = k, !.whole = w]
    BY <2>4, <2>5
  <2>7. x \in OrderLines /\ x.qty = k
    BY <2>6 DEF OrderLines
  <2>8. x = RollBy(r, q, fin)
    BY <2>3, <2>4
  <2>. QED  BY <2>5, <2>7, <2>8
<1>. QED  BY <1>3, <1>4, <1>5

LEMMA Rolls ==
    ASSUME SalesInv, RollForward
    PROVE  SalesInv'
<1>1. PICK d \in start..(LastDay + 1) : start' = d /\ line' = Rolled(line, d) /\ UNCHANGED <<journal, deliveries>>
  BY DEF RollForward
<1>2. ASSUME NEW l \in SalesLines
      PROVE  line'[l] \in OrderLines /\ (line'[l].whole = 0 => line'[l].qty \in Nat)
  <2>1. PICK r \in OrderLines : r = line[l] /\ (r.whole = 0 => r.qty \in Nat)
    BY DEF SalesInv, SalesTypeOK
  <2>2. PICK q \in Int : q = DeliveredIn(Before(d), l)
    <3>1. Before(d) \subseteq DOMAIN journal
      BY DEF Before
    <3>. QED  BY <3>1, DeliveredInt DEF SalesInv, SalesTypeOK
  <2>3. PICK fin \in BOOLEAN : fin <=> FinalIn(Before(d), l)
    BY Zenon
  <2>4. line'[l] = RollBy(r, q, fin)
    <3>1. RolledLine(r, Before(d), l) = RollBy(r, q, fin)
      BY <2>2, <2>3, RolledIs
    <3>. QED  BY <1>1, <2>1, <3>1 DEF Rolled
  <2>. QED  BY <2>1, <2>4, RollByKind
<1>3. line' \in [SalesLines -> OrderLines]
  <2>1. line' = [l \in SalesLines |-> line'[l]]
    BY <1>1 DEF Rolled
  <2>. QED  BY <1>2, <2>1
<1>4. start' \in 0..(LastDay + 1)
  BY <1>1, SalesAssumption DEF SalesInv, SalesTypeOK
<1>. QED  BY <1>1, <1>2, <1>3, <1>4 DEF SalesInv, SalesTypeOK

LEMMA SalesInvStep == SalesInv /\ [SalesNext]_salesVars => SalesInv'
<1>. SUFFICES ASSUME SalesInv, [SalesNext]_salesVars PROVE SalesInv'
  OBVIOUS
<1>1. CASE UNCHANGED salesVars
  BY <1>1 DEF salesVars, SalesInv, SalesTypeOK
<1>2. CASE SalesNext
  BY <1>2, OrderSteps, DeliverySteps, Delivers, Issues, Reverses, Rolls DEF SalesNext
<1>. QED  BY <1>1, <1>2

LEMMA RollsComposeInv == SalesInv => RollsCompose
<1>. SUFFICES ASSUME SalesInv, NEW d \in start..(LastDay + 1), NEW e \in start..(LastDay + 1),
                     d <= e, ~Straddles(d), ~Straddles(e)
              PROVE  Rolled(Rolled(line, d), e) = Rolled(line, e)
  BY DEF RollsCompose
<1>1. d \in Int /\ e \in Int
  BY SalesAssumption DEF SalesInv, SalesTypeOK
<1>2. ASSUME NEW l \in SalesLines
      PROVE  RolledLine(RolledLine(line[l], Before(d), l), Before(e), l) = RolledLine(line[l], Before(e), l)
  <2>1. PICK r \in OrderLines : r = line[l] /\ Ordered(r) \in Nat
    BY OrderedNat DEF SalesInv, SalesTypeOK
  <2>2. /\ DeliveredIn(Before(d), l) \in Int /\ DeliveredIn(Before(e), l) \in Int
        /\ DeliveredIn(Before(d), l) >= 0
        /\ DeliveredIn(Before(d), l) <= DeliveredIn(Before(e), l)
        /\ FinalIn(Before(d), l) => FinalIn(Before(e), l)
    BY <1>1, DeliveredGrows DEF SalesInv, SalesTypeOK
  <2>3. PICK D \in Int, E \in Int : D = DeliveredIn(Before(d), l) /\ E = DeliveredIn(Before(e), l) /\ 0 <= D /\ D <= E
    BY <2>2
  <2>4. PICK fd \in BOOLEAN : fd <=> FinalIn(Before(d), l)
    BY Zenon
  <2>5. PICK fe \in BOOLEAN : fe <=> FinalIn(Before(e), l)
    BY Zenon
  <2>6. fd => fe
    BY <2>2, <2>4, <2>5
  <2>7. RollBy(RollBy(r, D, fd), E, fe) = RollBy(r, E, fe)
    BY <2>1, <2>3, <2>6, RollByTwice
  <2>8. /\ RolledLine(r, Before(d), l) = RollBy(r, D, fd)
        /\ RolledLine(r, Before(e), l) = RollBy(r, E, fe)
    BY <2>3, <2>4, <2>5, RolledIs
  <2>9. PICK x : x = RollBy(r, D, fd)
    OBVIOUS
  <2>10. RolledLine(x, Before(e), l) = RollBy(x, E, fe)
    BY <2>3, <2>5, RolledIs
  <2>. QED  BY <2>1, <2>7, <2>8, <2>9, <2>10
<1>3. \A l \in SalesLines : Rolled(line, d)[l] = RolledLine(line[l], Before(d), l)
  BY DEF Rolled
<1>. QED  BY <1>2, <1>3 DEF Rolled

\* Order lines, movements and deliveries are of their kinds whatever is taken, posted, reversed and rolled.
THEOREM SalesType == SalesSpec => []SalesTypeOK
<1>1. SalesInv => SalesTypeOK
  BY DEF SalesInv
<1>. QED  BY SalesInvInit, SalesInvStep, <1>1, PTL DEF SalesSpec

\* Rolling to a day and on to a later one leaves every order line as rolling to the later one at once, for any journal
\* the postings can make and any days no posting and its reversal are on both sides of: reversals take whole movements
\* back, each once, so what was delivered before a day is never less than nothing and never falls.
THEOREM RollingComposes == SalesSpec => []RollsCompose
<1>. QED  BY SalesInvInit, SalesInvStep, RollsComposeInv, PTL DEF SalesSpec

-----------------------------------------------------------------------------
(* Bills: the sums over them, for any list of bills.                          *)

Stands(s, c, kind) == s[c].kind = kind /\ s[c].live
NotesOf(s, r) == {c \in DOMAIN s : Stands(s, c, "credit") /\ s[c].return = r}
NotesTo(s, b) == {c \in DOMAIN s : Stands(s, c, "credit") /\ s[c].against = b}
Totals(s) == [c \in DOMAIN s |-> SumFunction(s[c].qty)]
AtLine(s, l) == [c \in DOMAIN s |-> s[c].qty[l]]
SumOfReturn(s, r) == SumFunctionOnSet(Totals(s), NotesOf(s, r))
SumAgainst(s, b, l) == SumFunctionOnSet(AtLine(s, l), NotesTo(s, b))

\* The properties of Billing, said of a list of bills and one of returns, and what the links between them are.
MovesApart(s) == \A a, b \in DOMAIN s :
    Stands(s, a, "invoice") /\ Stands(s, b, "invoice") /\ a # b => s[a].moves \cap s[b].moves = {}
CreditsRight(s, t) ==
    /\ \A r \in DOMAIN t : SumOfReturn(s, r) <= t[r].came
    /\ \A b \in DOMAIN s, l \in BilledLines : Stands(s, b, "invoice") => SumAgainst(s, b, l) <= s[b].qty[l]
LinksRight(s, t) == \A c \in DOMAIN s : s[c].kind = "credit" => s[c].return \in DOMAIN t /\ s[c].against < c

BillInv == BillingTypeOK /\ MovesApart(bills) /\ CreditsRight(bills, returns) /\ LinksRight(bills, returns)

LEMMA BillQty ==
    ASSUME NEW s \in Seq(Bills)
    PROVE  /\ \A c \in DOMAIN s : s[c] \in Bills /\ s[c].qty \in [BilledLines -> Nat] /\ s[c].against \in Nat /\ c \in Nat
           /\ DOMAIN s = 1..Len(s) /\ Len(s) \in Nat
<1>1. \A c \in DOMAIN s : s[c] \in Bills /\ c \in Nat
  OBVIOUS
<1>2. \A x \in Bills : x.qty \in [BilledLines -> Nat] /\ x.against \in Nat
  BY BillingAssumption DEF Bills
<1>. QED  BY <1>1, <1>2

LEMMA TotalNat ==
    ASSUME NEW q \in [BilledLines -> Nat]
    PROVE  SumFunction(q) \in Nat
BY SumNat, BillingAssumption DEF SumFunction

LEMMA SumsNat ==
    ASSUME NEW s \in Seq(Bills), NEW T, T \subseteq DOMAIN s
    PROVE  /\ IsFiniteSet(T)
           /\ \A c \in T : Totals(s)[c] \in Nat
           /\ SumFunctionOnSet(Totals(s), T) \in Nat
           /\ \A l \in BilledLines : /\ \A c \in T : AtLine(s, l)[c] \in Nat
                                     /\ SumFunctionOnSet(AtLine(s, l), T) \in Nat
<1>1. IsFiniteSet(T)
  BY Places
<1>2. \A c \in T : Totals(s)[c] \in Nat
  BY BillQty, TotalNat DEF Totals
<1>3. SumFunctionOnSet(Totals(s), T) \in Nat
  BY <1>1, <1>2, SumNat
<1>4. ASSUME NEW l \in BilledLines
      PROVE  /\ \A c \in T : AtLine(s, l)[c] \in Nat
             /\ SumFunctionOnSet(AtLine(s, l), T) \in Nat
  <2>1. \A c \in T : AtLine(s, l)[c] \in Nat
    BY BillQty DEF AtLine
  <2>. QED  BY <1>1, <2>1, SumNat
<1>. QED  BY <1>1, <1>2, <1>3, <1>4

\* The sums of the module are these.
LEMMA CreditsAre ==
    ASSUME bills \in Seq(Bills)
    PROVE  /\ \A r : CreditedOf(r) = SumOfReturn(bills, r)
           /\ \A b : \A l \in BilledLines : CreditedAgainst(b, l) = SumAgainst(bills, b, l)
<1>1. ASSUME NEW r
      PROVE  CreditedOf(r) = SumOfReturn(bills, r)
  <2>1. NotesOf(bills, r) = {x \in Live("credit") : bills[x].return = r}
    BY DEF NotesOf, Live, Stands
  <2>2. PICK T : T = NotesOf(bills, r) /\ T \subseteq DOMAIN bills
    BY DEF NotesOf
  <2>3. CreditedOf(r) = SumFunction([c \in T |-> Total(c)])
    BY <2>1, <2>2 DEF CreditedOf
  <2>4. PICK f : f = [c \in T |-> Total(c)]
    OBVIOUS
  <2>5. \A c \in T : f[c] = Totals(bills)[c]
    BY <2>2, <2>4 DEF Totals, Total
  <2>6. SumFunctionOnSet(f, T) = SumFunctionOnSet(Totals(bills), T)
    BY <2>2, <2>5, SumsNat, SumSame
  <2>. QED  BY <2>2, <2>3, <2>4, <2>6 DEF SumFunction, SumOfReturn
<1>2. ASSUME NEW b, NEW l \in BilledLines
      PROVE  CreditedAgainst(b, l) = SumAgainst(bills, b, l)
  <2>1. NotesTo(bills, b) = {x \in Live("credit") : bills[x].against = b}
    BY DEF NotesTo, Live, Stands
  <2>2. PICK T : T = NotesTo(bills, b) /\ T \subseteq DOMAIN bills
    BY DEF NotesTo
  <2>3. CreditedAgainst(b, l) = SumFunction([c \in T |-> bills[c].qty[l]])
    BY <2>1, <2>2 DEF CreditedAgainst
  <2>4. PICK f : f = [c \in T |-> bills[c].qty[l]]
    OBVIOUS
  <2>5. \A c \in T : f[c] = AtLine(bills, l)[c]
    BY <2>2, <2>4 DEF AtLine
  <2>6. SumFunctionOnSet(f, T) = SumFunctionOnSet(AtLine(bills, l), T)
    BY <2>2, <2>5, SumsNat, SumSame
  <2>. QED  BY <2>2, <2>3, <2>4, <2>6 DEF SumFunction, SumAgainst
<1>. QED  BY <1>1, <1>2

LEMMA BillInvSays == BillInv => BillingTypeOK /\ BilledAndCreditedOnce
<1>. SUFFICES ASSUME BillInv PROVE BillingTypeOK /\ BilledAndCreditedOnce
  OBVIOUS
<1>1. bills \in Seq(Bills)
  BY DEF BillInv, BillingTypeOK
<1>2. BilledOnce
  BY DEF BillInv, BilledOnce, MovesApart, Live, Stands
<1>3. CreditedOnce
  <2>1. \A r \in DOMAIN returns : CreditedOf(r) <= returns[r].came
    BY <1>1, CreditsAre DEF BillInv, CreditsRight
  <2>2. \A b \in Live("invoice"), l \in BilledLines : CreditedAgainst(b, l) <= bills[b].qty[l]
    BY <1>1, CreditsAre DEF BillInv, CreditsRight, Live, Stands
  <2>. QED  BY <2>1, <2>2 DEF CreditedOnce
<1>. QED  BY <1>2, <1>3 DEF BillInv, BilledAndCreditedOnce

-----------------------------------------------------------------------------
(* Bills made, paid and cancelled, no note among them.                        *)

\* t goes on from s: what was there keeps its quantities, links and kind, and may only be cancelled; what is new is no
\* credit note.
Continues(s, t) ==
    /\ Len(s) <= Len(t)
    /\ \A c \in DOMAIN s : /\ t[c].kind = s[c].kind /\ t[c].qty = s[c].qty /\ t[c].moves = s[c].moves
                           /\ t[c].against = s[c].against /\ t[c].return = s[c].return
                           /\ t[c].live => s[c].live
    /\ \A c \in DOMAIN t \ DOMAIN s : t[c].kind = "invoice"

LEMMA ContinuesSums ==
    ASSUME NEW s \in Seq(Bills), NEW t \in Seq(Bills), Continues(s, t)
    PROVE  /\ \A r : SumOfReturn(t, r) <= SumOfReturn(s, r) /\ SumOfReturn(t, r) \in Nat /\ SumOfReturn(s, r) \in Nat
           /\ \A b : \A l \in BilledLines : /\ SumAgainst(t, b, l) <= SumAgainst(s, b, l)
                                            /\ SumAgainst(t, b, l) \in Nat /\ SumAgainst(s, b, l) \in Nat
<1>1. DOMAIN s \subseteq DOMAIN t
  BY BillQty DEF Continues
<1>2. ASSUME NEW r
      PROVE  SumOfReturn(t, r) <= SumOfReturn(s, r) /\ SumOfReturn(t, r) \in Nat /\ SumOfReturn(s, r) \in Nat
  <2>1. PICK T, S : T = NotesOf(t, r) /\ S = NotesOf(s, r)
    OBVIOUS
  <2>2. T \subseteq S /\ S \subseteq DOMAIN s /\ T \subseteq DOMAIN t
    <3>1. \A c \in T : c \in S
      BY <1>1, <2>1 DEF NotesOf, Continues, Stands
    <3>. QED  BY <2>1, <3>1 DEF NotesOf
  <2>3. \A c \in T : Totals(t)[c] = Totals(s)[c]
    BY <1>1, <2>2 DEF Totals, Continues
  <2>4. SumFunctionOnSet(Totals(t), T) = SumFunctionOnSet(Totals(s), T)
    BY <2>2, <2>3, SumsNat, SumSame
  <2>5. IsFiniteSet(S) /\ \A c \in S : Totals(s)[c] \in Nat
    BY <2>2, SumsNat
  <2>6. SumFunctionOnSet(Totals(s), T) <= SumFunctionOnSet(Totals(s), S)
    BY <2>2, <2>5, SumMore
  <2>7. SumFunctionOnSet(Totals(s), S) \in Nat /\ SumFunctionOnSet(Totals(t), T) \in Nat
    BY <2>2, SumsNat
  <2>. QED  BY <2>1, <2>4, <2>6, <2>7 DEF SumOfReturn
<1>3. ASSUME NEW b, NEW l \in BilledLines
      PROVE  /\ SumAgainst(t, b, l) <= SumAgainst(s, b, l)
             /\ SumAgainst(t, b, l) \in Nat /\ SumAgainst(s, b, l) \in Nat
  <2>1. PICK T, S : T = NotesTo(t, b) /\ S = NotesTo(s, b)
    OBVIOUS
  <2>2. T \subseteq S /\ S \subseteq DOMAIN s /\ T \subseteq DOMAIN t
    <3>1. \A c \in T : c \in S
      BY <1>1, <2>1 DEF NotesTo, Continues, Stands
    <3>. QED  BY <2>1, <3>1 DEF NotesTo
  <2>3. \A c \in T : AtLine(t, l)[c] = AtLine(s, l)[c]
    BY <1>1, <2>2 DEF AtLine, Continues
  <2>4. SumFunctionOnSet(AtLine(t, l), T) = SumFunctionOnSet(AtLine(s, l), T)
    BY <2>2, <2>3, SumsNat, SumSame
  <2>5. IsFiniteSet(S) /\ \A c \in S : AtLine(s, l)[c] \in Nat
    BY <2>2, SumsNat
  <2>6. SumFunctionOnSet(AtLine(s, l), T) <= SumFunctionOnSet(AtLine(s, l), S)
    BY <2>2, <2>5, SumMore
  <2>7. SumFunctionOnSet(AtLine(s, l), S) \in Nat /\ SumFunctionOnSet(AtLine(t, l), T) \in Nat
    BY <2>2, SumsNat
  <2>. QED  BY <2>1, <2>4, <2>6, <2>7 DEF SumAgainst
<1>. QED  BY <1>2, <1>3

\* The returns keep what came, or more comes.
LEMMA ContinuesRight ==
    ASSUME NEW s \in Seq(Bills), NEW t \in Seq(Bills), Continues(s, t),
           NEW u \in Seq(Returns), NEW v \in Seq(Returns), DOMAIN u \subseteq DOMAIN v,
           \A r \in DOMAIN u : u[r].came <= v[r].came,
           CreditsRight(s, u), LinksRight(s, u)
    PROVE  CreditsRight(t, v) /\ LinksRight(t, v)
<1>1. DOMAIN s \subseteq DOMAIN t /\ DOMAIN s = 1..Len(s) /\ DOMAIN t = 1..Len(t) /\ Len(s) \in Nat /\ Len(t) \in Nat
  BY BillQty DEF Continues
<1>2. LinksRight(t, v)
  BY <1>1 DEF LinksRight, Continues
<1>3. \A r \in DOMAIN u : u[r].came \in Nat
  <2>1. \A r \in DOMAIN u : u[r] \in Returns
    OBVIOUS
  <2>. QED  BY <2>1, BillingAssumption DEF Returns
<1>4. \A r \in DOMAIN v : v[r].came \in Nat
  <2>1. \A r \in DOMAIN v : v[r] \in Returns
    OBVIOUS
  <2>. QED  BY <2>1, BillingAssumption DEF Returns
<1>5. ASSUME NEW r \in DOMAIN v
      PROVE  SumOfReturn(t, r) <= v[r].came
  <2>1. CASE r \in DOMAIN u
    <3>1. SumOfReturn(s, r) <= u[r].came
      BY <2>1 DEF CreditsRight
    <3>2. SumOfReturn(t, r) <= SumOfReturn(s, r) /\ SumOfReturn(t, r) \in Nat /\ SumOfReturn(s, r) \in Nat
      BY ContinuesSums
    <3>. QED  BY <1>3, <1>4, <2>1, <3>1, <3>2
  <2>2. CASE r \notin DOMAIN u
    <3>1. NotesOf(s, r) = {}
      BY <2>2 DEF NotesOf, LinksRight, Stands
    <3>2. SumOfReturn(s, r) = 0
      BY <3>1, SumEmpty DEF SumOfReturn
    <3>3. SumOfReturn(t, r) <= SumOfReturn(s, r) /\ SumOfReturn(t, r) \in Nat /\ SumOfReturn(s, r) \in Nat
      BY ContinuesSums
    <3>. QED  BY <1>4, <3>2, <3>3
  <2>. QED  BY <2>1, <2>2
<1>6. ASSUME NEW b \in DOMAIN t, NEW l \in BilledLines, Stands(t, b, "invoice")
      PROVE  SumAgainst(t, b, l) <= t[b].qty[l]
  <2>1. SumAgainst(t, b, l) <= SumAgainst(s, b, l) /\ SumAgainst(t, b, l) \in Nat /\ SumAgainst(s, b, l) \in Nat
    BY ContinuesSums
  <2>2. t[b].qty[l] \in Nat
    BY BillQty
  <2>3. CASE b \in DOMAIN s
    <3>1. Stands(s, b, "invoice") /\ t[b].qty = s[b].qty
      BY <1>6, <2>3 DEF Stands, Continues
    <3>2. SumAgainst(s, b, l) <= s[b].qty[l]
      BY <2>3, <3>1 DEF CreditsRight
    <3>. QED  BY <2>1, <2>2, <3>1, <3>2
  <2>4. CASE b \notin DOMAIN s
    <3>1. NotesTo(s, b) = {}
      <4>1. \A c \in DOMAIN s : s[c].kind = "credit" => s[c].against # b
        <5>1. b > Len(s)
          BY <1>1, <2>4
        <5>2. \A c \in DOMAIN s : s[c].against \in Nat
          BY BillQty
        <5>. QED  BY <1>1, <5>1, <5>2 DEF LinksRight
      <4>. QED  BY <4>1 DEF NotesTo, Stands
    <3>2. SumAgainst(s, b, l) = 0
      BY <3>1, SumEmpty DEF SumAgainst
    <3>. QED  BY <2>1, <2>2, <3>2
  <2>. QED  BY <2>3, <2>4
<1>. QED  BY <1>2, <1>5, <1>6 DEF CreditsRight

-----------------------------------------------------------------------------
(* The notes of a return.                                                     *)

\* Taken from a line of shares, the oldest first, no more is given than was left to give.
LEMMA OldestFirst ==
    ASSUME NEW n \in Nat, NEW m \in Nat, NEW N \in Nat, NEW left \in Nat,
           NEW G \in [0..N -> Nat], \A i, j \in 0..N : i <= j => G[i] <= G[j],
           NEW order \in [1..m -> 1..N], \A j, k \in 1..m : j < k => order[j] < order[k],
           NEW f, \A k \in 1..m : f[n + k] = Lesser(left, G[order[k]]) - Lesser(left, G[order[k] - 1])
    PROVE  SumFunctionOnSet(f, (n + 1)..(n + m)) <= Lesser(left, G[N])
<1>. DEFINE Part(k) == (n + 1)..(n + k)
            Given(k) == IF k = 0 THEN 0 ELSE Lesser(left, G[order[k]])
            Bad == {k \in 0..m : ~(SumFunctionOnSet(f, Part(k)) <= Given(k))}
<1>1. \A i, j \in 0..N : /\ Lesser(left, G[i]) \in Nat
                         /\ i <= j => Lesser(left, G[i]) <= Lesser(left, G[j])
  <2>1. \A i \in 0..N : G[i] \in Nat
    OBVIOUS
  <2>. QED  BY <2>1 DEF Lesser
<1>2. \A k \in 1..m : order[k] \in 1..N /\ order[k] \in 0..N /\ order[k] - 1 \in 0..N
  OBVIOUS
<1>3. \A k \in 1..m : f[n + k] \in Int
  <2>. SUFFICES ASSUME NEW k \in 1..m PROVE f[n + k] \in Int
    OBVIOUS
  <2>1. Lesser(left, G[order[k]]) \in Nat /\ Lesser(left, G[order[k] - 1]) \in Nat
    BY <1>1, <1>2
  <2>2. f[n + k] = Lesser(left, G[order[k]]) - Lesser(left, G[order[k] - 1])
    OBVIOUS
  <2>. QED  BY <2>1, <2>2
<1>4. ASSUME NEW k \in 0..m
      PROVE  /\ IsFiniteSet(Part(k)) /\ \A x \in Part(k) : f[x] \in Int
             /\ SumFunctionOnSet(f, Part(k)) \in Int
  <2>1. IsFiniteSet(Part(k))
    BY FS_Interval
  <2>2. \A x \in Part(k) : f[x] \in Int
    <3>. SUFFICES ASSUME NEW x \in Part(k) PROVE f[x] \in Int
      OBVIOUS
    <3>1. PICK y \in 1..m : x = n + y
      <4>1. x - n \in 1..m /\ x = n + (x - n)
        OBVIOUS
      <4>. QED  BY <4>1
    <3>. QED  BY <1>3, <3>1
  <2>. HIDE DEF Part
  <2>. QED  BY <2>1, <2>2, SumInt
<1>5. Bad = {}
  <2>. SUFFICES ASSUME Bad # {} PROVE FALSE
    OBVIOUS
  <2>1. PICK k \in Bad : \A y \in Bad : k <= y
    <3>1. Bad \subseteq Nat
      OBVIOUS
    <3>. HIDE DEF Bad
    <3>. QED  BY <3>1, LeastOf
  <2>2. k # 0
    <3>1. Part(0) = {}
      OBVIOUS
    <3>2. SumFunctionOnSet(f, Part(0)) = 0
      BY <3>1, SumEmpty
    <3>. QED  BY <3>2, <2>1
  <2>3. k \in 1..m /\ k - 1 \in 0..m /\ k - 1 \notin Bad
    <3>1. k \in 1..m /\ k - 1 \in 0..m /\ ~(k <= k - 1)
      BY <2>2
    <3>. HIDE DEF Bad
    <3>. QED  BY <2>1, <3>1
  <2>4. SumFunctionOnSet(f, Part(k - 1)) <= Given(k - 1)
    BY <2>3
  <2>5. SumFunctionOnSet(f, Part(k)) = SumFunctionOnSet(f, Part(k - 1)) + f[n + k]
    <3>0. k \in Nat /\ k >= 1
      BY <2>3
    <3>1. Part(k) = Part(k - 1) \cup {n + k} /\ (n + k) \notin Part(k - 1)
      <4>1. \A x \in Int : x \in (n + 1)..(n + k) <=> (x \in (n + 1)..(n + (k - 1)) \/ x = n + k)
        BY <3>0, SMTT(30)
      <4>3. n + k \in Int /\ (n + 1)..(n + k) \subseteq Int /\ (n + 1)..(n + (k - 1)) \subseteq Int
        BY <3>0
      <4>2. n + k \notin (n + 1)..(n + (k - 1))
        BY <3>0
      <4>. QED  BY <4>1, <4>2, <4>3, Zenon
    <3>2. /\ IsFiniteSet(Part(k - 1)) /\ \A x \in Part(k - 1) : f[x] \in Int
      BY <1>4, <2>3
    <3>3. f[n + k] \in Int
      BY <1>3, <2>3
    <3>4. PICK S, e : S = Part(k - 1) /\ e = n + k
      OBVIOUS
    <3>5. SumFunctionOnSet(f, S \cup {e}) = SumFunctionOnSet(f, S) + f[e]
      <4>. HIDE DEF Part
      <4>1. IsFiniteSet(S) /\ e \notin S /\ \A x \in S \cup {e} : f[x] \in Int
        BY <3>1, <3>2, <3>3, <3>4
      <4>. QED  BY <4>1, SumWith
    <3>. HIDE DEF Part
    <3>. QED  BY <3>1, <3>4, <3>5
  <2>6. f[n + k] = Lesser(left, G[order[k]]) - Lesser(left, G[order[k] - 1])
    BY <2>3
  <2>7. Given(k - 1) <= Lesser(left, G[order[k] - 1]) /\ Given(k - 1) \in Nat
    <3>1. CASE k = 1
      BY <1>1, <1>2, <2>3, <3>1
    <3>2. CASE k # 1
      <4>1. k - 1 \in 1..m /\ k - 1 < k
        BY <2>3, <3>2
      <4>2. order[k - 1] < order[k]
        BY <2>3, <4>1
      <4>3. order[k - 1] \in 0..N /\ order[k] - 1 \in 0..N /\ order[k - 1] <= order[k] - 1
        BY <1>2, <2>3, <4>1, <4>2, SMTT(30)
      <4>4. Given(k - 1) = Lesser(left, G[order[k - 1]])
        BY <4>1
      <4>. QED  BY <1>1, <4>3, <4>4
    <3>. QED  BY <3>1, <3>2
  <2>8. /\ SumFunctionOnSet(f, Part(k - 1)) \in Int /\ SumFunctionOnSet(f, Part(k)) \in Int
        /\ Lesser(left, G[order[k]]) \in Nat /\ Lesser(left, G[order[k] - 1]) \in Nat
    BY <1>1, <1>2, <1>4, <2>3
  <2>9. SumFunctionOnSet(f, Part(k)) <= Given(k)
    <3>1. PICK s, s1, x, y, v : /\ s = SumFunctionOnSet(f, Part(k)) /\ s1 = SumFunctionOnSet(f, Part(k - 1))
                                /\ x = Lesser(left, G[order[k]]) /\ y = Lesser(left, G[order[k] - 1]) /\ v = Given(k - 1)
      OBVIOUS
    <3>2. s \in Int /\ s1 \in Int /\ x \in Nat /\ y \in Nat /\ v \in Nat
      BY <2>7, <2>8, <3>1
    <3>3. s = s1 + (x - y) /\ s1 <= v /\ v <= y
      BY <2>4, <2>5, <2>6, <2>7, <3>1
    <3>4. s <= x
      BY <3>2, <3>3
    <3>5. Given(k) = x
      BY <2>2, <3>1
    <3>. QED  BY <3>1, <3>4, <3>5
  <2>. QED  BY <2>1, <2>9
<1>6. SumFunctionOnSet(f, Part(m)) <= Given(m)
  <2>1. m \in 0..m
    OBVIOUS
  <2>2. m \notin Bad
    BY <1>5
  <2>. QED  BY <2>1, <2>2
<1>7. Given(m) <= Lesser(left, G[N]) /\ Given(m) \in Nat
  <2>1. CASE m = 0
    BY <1>1, <2>1
  <2>2. CASE m # 0
    <3>1. order[m] \in 0..N /\ order[m] <= N /\ N \in 0..N
      BY <1>2, <2>2
    <3>. QED  BY <1>1, <2>2, <3>1
  <2>. QED  BY <2>1, <2>2
<1>8. SumFunctionOnSet(f, Part(m)) \in Int /\ Lesser(left, G[N]) \in Nat
  <2>1. m \in 0..m /\ N \in 0..N
    OBVIOUS
  <2>. HIDE DEF Part
  <2>. QED  BY <1>1, <1>4, <2>1
<1>. QED  BY <1>6, <1>7, <1>8

\* What the invoices among the first n can give back grows with n, by what the n-th can.
LEMMA GivenGrows ==
    ASSUME bills \in Seq(Bills), NEW l \in BilledLines
    PROVE  /\ \A i \in 0..Len(bills) : GivenBy(i, l) \in Nat
           /\ \A i, j \in 0..Len(bills) : i <= j => GivenBy(i, l) <= GivenBy(j, l)
           /\ \A b \in 1..Len(bills) : IF b \in Live("invoice") THEN GivenBy(b, l) = GivenBy(b - 1, l) + Creditable(b, l)
                                                                 ELSE GivenBy(b, l) = GivenBy(b - 1, l)
           /\ \A b \in Live("invoice") : Creditable(b, l) \in Nat
<1>0. Len(bills) \in Nat /\ DOMAIN bills = 1..Len(bills) /\ Live("invoice") \subseteq DOMAIN bills
  BY BillQty DEF Live
<1>1. \A b \in Live("invoice") : Creditable(b, l) \in Nat
  <2>. SUFFICES ASSUME NEW b \in Live("invoice") PROVE Creditable(b, l) \in Nat
    OBVIOUS
  <2>1. bills[b].qty[l] \in Nat
    BY <1>0, BillQty
  <2>2. CreditedAgainst(b, l) \in Nat
    <3>1. NotesTo(bills, b) \subseteq DOMAIN bills
      BY DEF NotesTo
    <3>2. SumAgainst(bills, b, l) \in Nat
      BY <3>1, SumsNat DEF SumAgainst
    <3>. QED  BY <3>2, CreditsAre
  <2>. QED  BY <2>1, <2>2, SMTT(30) DEF Creditable, NotNegative
<1>2. PICK F : F = [b \in Live("invoice") |-> Creditable(b, l)]
  OBVIOUS
<1>. DEFINE S(i) == {x \in Live("invoice") : x <= i}
<1>3. ASSUME NEW i \in 0..Len(bills)
      PROVE  /\ GivenBy(i, l) = SumFunctionOnSet(F, S(i))
             /\ IsFiniteSet(S(i)) /\ \A x \in S(i) : F[x] \in Nat
  <2>1. PICK T : T = S(i) /\ T \subseteq Live("invoice") /\ T \subseteq DOMAIN bills
    BY <1>0
  <2>2. PICK g : g = [b \in T |-> Creditable(b, l)]
    OBVIOUS
  <2>3. IsFiniteSet(T)
    BY <2>1, Places
  <2>4. \A x \in T : g[x] = F[x] /\ F[x] \in Nat
    BY <1>1, <1>2, <2>1, <2>2
  <2>5. SumFunctionOnSet(g, T) = SumFunctionOnSet(F, T)
    BY <2>3, <2>4, SumSame
  <2>6. GivenBy(i, l) = SumFunctionOnSet(g, T)
    BY <2>1, <2>2 DEF GivenBy, SumFunction
  <2>. QED  BY <2>1, <2>3, <2>4, <2>5, <2>6
<1>4. \A i \in 0..Len(bills) : GivenBy(i, l) \in Nat
  <2>. HIDE DEF S
  <2>. QED  BY <1>3, SumNat
<1>5. ASSUME NEW i \in 0..Len(bills), NEW j \in 0..Len(bills), i <= j
      PROVE  GivenBy(i, l) <= GivenBy(j, l)
  <2>1. S(i) \subseteq S(j)
    BY <1>0, <1>5
  <2>. HIDE DEF S
  <2>. QED  BY <1>3, <2>1, SumMore
<1>6. ASSUME NEW b \in 1..Len(bills)
      PROVE  IF b \in Live("invoice") THEN GivenBy(b, l) = GivenBy(b - 1, l) + Creditable(b, l)
                                      ELSE GivenBy(b, l) = GivenBy(b - 1, l)
  <2>1. b \in 0..Len(bills) /\ b - 1 \in 0..Len(bills)
    BY <1>0
  <2>2. CASE b \notin Live("invoice")
    <3>1. S(b) = S(b - 1)
      BY <1>0, <2>2
    <3>. HIDE DEF S
    <3>. QED  BY <1>3, <2>1, <2>2, <3>1
  <2>3. CASE b \in Live("invoice")
    <3>1. S(b) = S(b - 1) \cup {b} /\ b \notin S(b - 1)
      BY <1>0, <2>3
    <3>2. F[b] = Creditable(b, l) /\ F[b] \in Nat
      BY <1>1, <1>2, <2>3
    <3>3. PICK T : T = S(b - 1)
      OBVIOUS
    <3>. HIDE DEF S
    <3>4. IsFiniteSet(T) /\ b \notin T /\ \A x \in T \cup {b} : F[x] \in Int
      BY <1>3, <2>1, <3>1, <3>2, <3>3
    <3>5. SumFunctionOnSet(F, T \cup {b}) = SumFunctionOnSet(F, T) + F[b]
      BY <3>4, SumWith
    <3>6. GivenBy(b, l) = SumFunctionOnSet(F, T \cup {b}) /\ GivenBy(b - 1, l) = SumFunctionOnSet(F, T)
      BY <1>3, <2>1, <3>1, <3>3
    <3>. QED  BY <2>3, <3>2, <3>5, <3>6
  <2>. QED  BY <2>2, <2>3
<1>. QED  BY <1>1, <1>4, <1>5, <1>6

\* An invoice gives no more than it can.
LEMMA ShareAtMost ==
    ASSUME bills \in Seq(Bills), NEW l \in BilledLines, NEW left \in Nat, NEW b \in DOMAIN bills, Share(b, left, l) > 0
    PROVE  /\ Share(b, left, l) \in Nat /\ b \in Live("invoice")
           /\ Share(b, left, l) <= Creditable(b, l) /\ Creditable(b, l) \in Nat
<1>1. b \in 1..Len(bills) /\ b \in 0..Len(bills) /\ b - 1 \in 0..Len(bills)
  BY BillQty
<1>2. PICK x \in Nat, y \in Nat : x = GivenBy(b, l) /\ y = GivenBy(b - 1, l)
  BY <1>1, GivenGrows
<1>3. Share(b, left, l) = Lesser(left, x) - Lesser(left, y)
  BY <1>2 DEF Share
<1>4. b \in Live("invoice")
  <2>1. CASE b \notin Live("invoice")
    <3>1. x = y
      BY <1>1, <1>2, <2>1, GivenGrows
    <3>. QED  BY <1>3, <3>1 DEF Lesser
  <2>. QED  BY <2>1
<1>5. PICK c \in Nat : c = Creditable(b, l) /\ x = y + c
  BY <1>1, <1>2, <1>4, GivenGrows
<1>6. Lesser(left, x) - Lesser(left, y) \in Int /\ Lesser(left, x) - Lesser(left, y) <= c
  BY <1>5 DEF Lesser
<1>. QED  BY <1>3, <1>4, <1>5, <1>6

LEMMA OfLineSum ==
    ASSUME NEW l \in BilledLines, NEW q \in Nat
    PROVE  OfLine(l, q) \in [BilledLines -> Nat] /\ SumFunction(OfLine(l, q)) = q
<1>1. PICK f : f = OfLine(l, q)
  OBVIOUS
<1>2. f \in [BilledLines -> Nat] /\ f[l] = q /\ \A k \in BilledLines \ {l} : f[k] = 0
  BY <1>1 DEF OfLine
<1>3. SumFunctionOnSet(f, BilledLines) = f[l] + SumFunctionOnSet(f, BilledLines \ {l})
  BY <1>2, SumRemove, BillingAssumption
<1>4. SumFunctionOnSet(f, BilledLines \ {l}) = 0
  BY <1>2, SumZero, BillingAssumption, FS_RemoveElement
<1>. QED  BY <1>1, <1>2, <1>3, <1>4 DEF SumFunction

\* Notes of r added to a list of bills: m of them against invoices of it, no two against one, and, if rest is not 0, a
\* last one of rest against none. All are for quantities of line l.
NotesAdded(s, t, m, rest, l, r) ==
    /\ Len(t) = Len(s) + m + (IF rest > 0 THEN 1 ELSE 0)
    /\ \A c \in DOMAIN s : t[c] = s[c]
    /\ \A c \in DOMAIN t \ DOMAIN s :
          /\ Stands(t, c, "credit") /\ t[c].return = r /\ t[c].against \in 0..Len(s)
          /\ \A x \in BilledLines : t[c].qty[x] = (IF x = l THEN Totals(t)[c] ELSE 0)
    /\ \A c, d \in DOMAIN t \ DOMAIN s : t[c].against = t[d].against => c = d
    /\ rest > 0 => Totals(t)[Len(s) + m + 1] = rest

\* What the other returns are credited stays; what this one is grows by the notes.
LEMMA NotesSum ==
    ASSUME NEW s \in Seq(Bills), NEW t \in Seq(Bills), NEW m \in Nat, NEW rest \in Nat,
           NEW l \in BilledLines, NEW r \in Nat, NotesAdded(s, t, m, rest, l, r)
    PROVE  /\ \A x : x # r => SumOfReturn(t, x) = SumOfReturn(s, x)
           /\ SumOfReturn(t, r) = SumOfReturn(s, r) + SumFunctionOnSet(Totals(t), (Len(s) + 1)..(Len(s) + m)) + rest
<1>1. Len(s) \in Nat /\ Len(t) \in Nat /\ DOMAIN s = 1..Len(s) /\ DOMAIN t = 1..Len(t) /\ DOMAIN s \subseteq DOMAIN t
      /\ Len(t) = Len(s) + m + (IF rest > 0 THEN 1 ELSE 0)
  <2>1. Len(s) \in Nat /\ Len(t) \in Nat /\ DOMAIN s = 1..Len(s) /\ DOMAIN t = 1..Len(t)
    BY BillQty
  <2>2. Len(t) = Len(s) + m + (IF rest > 0 THEN 1 ELSE 0)
    BY DEF NotesAdded
  <2>. QED  BY <2>1, <2>2
<1>2. PICK n \in Nat : n = Len(s)
  BY <1>1
<1>3. \A c \in DOMAIN s : t[c] = s[c] /\ Totals(t)[c] = Totals(s)[c]
  BY <1>1 DEF NotesAdded, Totals
<1>4. \A c \in DOMAIN t : c \notin DOMAIN s => Stands(t, c, "credit") /\ t[c].return = r
  BY DEF NotesAdded
<1>5. ASSUME NEW x, x # r
      PROVE  SumOfReturn(t, x) = SumOfReturn(s, x)
  <2>1. \A c \in DOMAIN t : c \in NotesOf(t, x) <=> c \in NotesOf(s, x)
    <3>. SUFFICES ASSUME NEW c \in DOMAIN t PROVE c \in NotesOf(t, x) <=> c \in NotesOf(s, x)
      OBVIOUS
    <3>1. CASE c \in DOMAIN s
      BY <1>3, <3>1 DEF NotesOf, Stands
    <3>2. CASE c \notin DOMAIN s
      BY <1>4, <1>5, <3>2 DEF NotesOf
    <3>. QED  BY <3>1, <3>2
  <2>2. PICK T : T = NotesOf(t, x) /\ T = NotesOf(s, x) /\ T \subseteq DOMAIN s
    BY <1>1, <2>1 DEF NotesOf
  <2>3. SumFunctionOnSet(Totals(t), T) = SumFunctionOnSet(Totals(s), T)
    BY <1>3, <2>2, SumsNat, SumSame
  <2>. QED  BY <2>2, <2>3 DEF SumOfReturn
<1>6. SumOfReturn(t, r) = SumOfReturn(s, r) + SumFunctionOnSet(Totals(t), (n + 1)..(n + m)) + rest
  <2>1. PICK Old, Part, Last : /\ Old = NotesOf(s, r) /\ Part = (n + 1)..(n + m)
                               /\ Last = IF rest > 0 THEN {n + m + 1} ELSE {}
    OBVIOUS
  <2>2. /\ Old \subseteq DOMAIN s /\ Part \subseteq DOMAIN t /\ Last \subseteq DOMAIN t
        /\ Part \cap DOMAIN s = {} /\ Last \cap DOMAIN s = {} /\ Part \cap Last = {}
        /\ \A c \in DOMAIN t : c \in DOMAIN s \/ c \in Part \/ c \in Last
    <3>1. Old \subseteq DOMAIN s
      BY <2>1 DEF NotesOf
    <3>2. Part \subseteq DOMAIN t /\ Part \cap DOMAIN s = {}
      BY <1>1, <1>2, <2>1
    <3>3. Last \subseteq DOMAIN t /\ Last \cap DOMAIN s = {} /\ Part \cap Last = {}
      BY <1>1, <1>2, <2>1
    <3>4. \A c \in DOMAIN t : c \in DOMAIN s \/ c \in Part \/ c \in Last
      BY <1>1, <1>2, <2>1
    <3>. QED  BY <3>1, <3>2, <3>3, <3>4
  <2>3. NotesOf(t, r) = (Old \cup Part) \cup Last
    <3>1. \A c \in DOMAIN t : c \notin DOMAIN s => c \in NotesOf(t, r)
      BY <1>4 DEF NotesOf
    <3>2. \A c \in DOMAIN s : c \in NotesOf(t, r) <=> c \in Old
      BY <1>1, <1>3, <2>1 DEF NotesOf, Stands
    <3>3. NotesOf(t, r) \subseteq DOMAIN t
      BY DEF NotesOf
    <3>. QED  BY <1>1, <2>2, <3>1, <3>2, <3>3
  <2>4. SumFunctionOnSet(Totals(t), Last) = rest
    <3>1. CASE rest > 0
      <4>1. PICK e : e = n + m + 1 /\ Totals(t)[e] = rest
        BY <1>2, <3>1 DEF NotesAdded
      <4>2. Last = {} \cup {e}
        BY <2>1, <3>1, <4>1
      <4>3. IsFiniteSet({}) /\ e \notin {} /\ \A x \in {} \cup {e} : Totals(t)[x] \in Int
        BY <4>1, FS_EmptySet
      <4>4. SumFunctionOnSet(Totals(t), {} \cup {e}) = SumFunctionOnSet(Totals(t), {}) + Totals(t)[e]
        BY <4>3, SumWith
      <4>5. SumFunctionOnSet(Totals(t), {}) = 0
        BY SumEmpty
      <4>. QED  BY <4>1, <4>2, <4>4, <4>5
    <3>2. CASE ~(rest > 0)
      <4>1. rest = 0 /\ Last = {}
        BY <2>1, <3>2
      <4>2. SumFunctionOnSet(Totals(t), {}) = 0
        BY SumEmpty
      <4>. QED  BY <4>1, <4>2
    <3>. QED  BY <3>1, <3>2
  <2>5. SumFunctionOnSet(Totals(t), Old) = SumOfReturn(s, r)
    <3>1. IsFiniteSet(Old)
      BY <2>2, SumsNat
    <3>2. \A c \in Old : Totals(t)[c] = Totals(s)[c]
      BY <1>3, <2>2
    <3>3. SumFunctionOnSet(Totals(t), Old) = SumFunctionOnSet(Totals(s), Old)
      BY <3>1, <3>2, SumSame
    <3>. QED  BY <2>1, <3>3 DEF SumOfReturn
  <2>6. /\ Old \cap Part = {} /\ (Old \cup Part) \cap Last = {}
        /\ IsFiniteSet(Old) /\ IsFiniteSet(Part) /\ IsFiniteSet(Last) /\ IsFiniteSet(Old \cup Part)
        /\ \A x \in Old \cup Part : Totals(t)[x] \in Int
        /\ \A x \in (Old \cup Part) \cup Last : Totals(t)[x] \in Int
    <3>1. Old \subseteq DOMAIN t /\ Old \cup Part \subseteq DOMAIN t
      BY <1>1, <2>2
    <3>2. IsFiniteSet(Old) /\ IsFiniteSet(Part) /\ IsFiniteSet(Last) /\ IsFiniteSet(Old \cup Part)
      BY <2>2, <3>1, Places
    <3>3. \A x \in DOMAIN t : Totals(t)[x] \in Nat
      BY SumsNat
    <3>. QED  BY <2>2, <3>1, <3>2, <3>3
  <2>7. SumFunctionOnSet(Totals(t), Old \cup Part) = SumFunctionOnSet(Totals(t), Old) + SumFunctionOnSet(Totals(t), Part)
    BY <2>6, SumParts
  <2>8. SumFunctionOnSet(Totals(t), (Old \cup Part) \cup Last)
           = SumFunctionOnSet(Totals(t), Old \cup Part) + SumFunctionOnSet(Totals(t), Last)
    BY <2>6, SumParts
  <2>9. SumOfReturn(t, r) = SumFunctionOnSet(Totals(t), (Old \cup Part) \cup Last)
    BY <2>3 DEF SumOfReturn
  <2>. QED  BY <2>1, <2>4, <2>5, <2>7, <2>8, <2>9
<1>. QED  BY <1>2, <1>5, <1>6

\* What is credited against an invoice grows by the one note against it, if there is one.
OneNote(s, t, l, b, x) ==
    \/ SumAgainst(t, b, x) = SumAgainst(s, b, x)
    \/ \E c \in DOMAIN t \ DOMAIN s :
          t[c].against = b /\ SumAgainst(t, b, x) = SumAgainst(s, b, x) + (IF x = l THEN Totals(t)[c] ELSE 0)

LEMMA NotesAgainst ==
    ASSUME NEW s \in Seq(Bills), NEW t \in Seq(Bills), NEW m \in Nat, NEW rest \in Nat,
           NEW l \in BilledLines, NEW r \in Nat, NotesAdded(s, t, m, rest, l, r),
           NEW b \in Nat, NEW x \in BilledLines
    PROVE  OneNote(s, t, l, b, x)
<1>1. DOMAIN s \subseteq DOMAIN t /\ \A c \in DOMAIN s : t[c] = s[c] /\ AtLine(t, x)[c] = AtLine(s, x)[c]
  <2>1. Len(s) \in Nat /\ Len(t) \in Nat /\ DOMAIN s = 1..Len(s) /\ DOMAIN t = 1..Len(t)
    BY BillQty
  <2>2. Len(t) = Len(s) + m + (IF rest > 0 THEN 1 ELSE 0)
    BY DEF NotesAdded
  <2>3. DOMAIN s \subseteq DOMAIN t
    BY <2>1, <2>2
  <2>. QED  BY <2>3 DEF NotesAdded, AtLine
<1>2. \A c \in DOMAIN s : c \in NotesTo(t, b) <=> c \in NotesTo(s, b)
  BY <1>1 DEF NotesTo, Stands
<1>3. PICK T, S : T = NotesTo(t, b) /\ S = NotesTo(s, b)
  OBVIOUS
<1>4. T \subseteq DOMAIN t /\ S \subseteq DOMAIN s
  BY <1>3 DEF NotesTo
<1>5. SumFunctionOnSet(AtLine(t, x), S) = SumFunctionOnSet(AtLine(s, x), S) /\ IsFiniteSet(S)
  <2>1. IsFiniteSet(S)
    BY <1>4, Places
  <2>2. \A c \in S : AtLine(t, x)[c] = AtLine(s, x)[c]
    BY <1>1, <1>4
  <2>. QED  BY <2>1, <2>2, SumSame
<1>6. CASE T \subseteq DOMAIN s
  <2>1. T = S
    BY <1>2, <1>3, <1>4, <1>6
  <2>. QED  BY <1>3, <1>5, <2>1 DEF SumAgainst, OneNote
<1>7. ASSUME NEW e \in T, e \notin DOMAIN s
      PROVE  t[e].against = b /\ SumAgainst(t, b, x) = SumAgainst(s, b, x) + (IF x = l THEN Totals(t)[e] ELSE 0)
  <2>1. e \in DOMAIN t /\ t[e].against = b /\ AtLine(t, x)[e] = (IF x = l THEN Totals(t)[e] ELSE 0)
    <3>1. e \in DOMAIN t /\ t[e].against = b
      BY <1>3, <1>7 DEF NotesTo
    <3>. QED  BY <1>7, <3>1 DEF NotesAdded, AtLine
  <2>2. \A c \in T : c \in DOMAIN s \/ c = e
    BY <1>3, <1>7, <2>1 DEF NotesTo, NotesAdded
  <2>3. T = S \cup {e} /\ e \notin S
    BY <1>2, <1>3, <1>4, <1>7, <2>2
  <2>4. \A c \in S \cup {e} : AtLine(t, x)[c] \in Int
    <3>1. \A c \in T : AtLine(t, x)[c] \in Nat
      BY <1>4, SumsNat
    <3>. QED  BY <2>3, <3>1
  <2>5. SumFunctionOnSet(AtLine(t, x), S \cup {e}) = SumFunctionOnSet(AtLine(t, x), S) + AtLine(t, x)[e]
    BY <1>5, <2>3, <2>4, SumWith
  <2>. QED  BY <1>3, <1>5, <2>1, <2>3, <2>5 DEF SumAgainst
<1>. QED  BY <1>4, <1>6, <1>7 DEF OneNote

\* The notes together credit no more than is left of the return, and each no more than is left of its invoice.
NotesFit(s, t, m, rest, l, r, came) ==
    /\ SumFunctionOnSet(Totals(t), (Len(s) + 1)..(Len(s) + m)) + rest <= came - SumOfReturn(s, r)
    /\ \A c \in DOMAIN t \ DOMAIN s : t[c].against # 0 =>
          Totals(t)[c] <= s[t[c].against].qty[l] - SumAgainst(s, t[c].against, l)

LEMMA NotesRight ==
    ASSUME NEW s \in Seq(Bills), NEW t \in Seq(Bills), NEW m \in Nat, NEW rest \in Nat,
           NEW u \in Seq(Returns), NEW v \in Seq(Returns), DOMAIN v = DOMAIN u, \A x \in DOMAIN u : v[x].came = u[x].came,
           NEW l \in BilledLines, NEW r \in Nat, r \in DOMAIN u, NotesAdded(s, t, m, rest, l, r),
           NotesFit(s, t, m, rest, l, r, u[r].came),
           MovesApart(s), CreditsRight(s, u), LinksRight(s, u)
    PROVE  MovesApart(t) /\ CreditsRight(t, v) /\ LinksRight(t, v)
<1>1. /\ Len(s) \in Nat /\ DOMAIN s = 1..Len(s) /\ DOMAIN t = 1..Len(t)
      /\ Len(t) = Len(s) + m + (IF rest > 0 THEN 1 ELSE 0)
      /\ DOMAIN s \subseteq DOMAIN t /\ \A c \in DOMAIN s : t[c] = s[c]
  <2>1. Len(s) \in Nat /\ Len(t) \in Nat /\ DOMAIN s = 1..Len(s) /\ DOMAIN t = 1..Len(t)
    BY BillQty
  <2>2. Len(t) = Len(s) + m + (IF rest > 0 THEN 1 ELSE 0) /\ \A c \in DOMAIN s : t[c] = s[c]
    BY DEF NotesAdded
  <2>. QED  BY <2>1, <2>2
<1>2. ASSUME NEW c \in DOMAIN t, c \notin DOMAIN s
      PROVE  t[c].kind = "credit" /\ t[c].return = r /\ t[c].against < c
  <2>1. t[c].kind = "credit" /\ t[c].return = r /\ t[c].against \in 0..Len(s)
    BY <1>2 DEF NotesAdded, Stands
  <2>. QED  BY <1>1, <1>2, <2>1
<1>3. MovesApart(t)
  <2>1. \A c \in DOMAIN t : Stands(t, c, "invoice") => c \in DOMAIN s /\ Stands(s, c, "invoice") /\ t[c].moves = s[c].moves
    BY <1>1, <1>2 DEF Stands
  <2>. QED  BY <2>1 DEF MovesApart
<1>4. LinksRight(t, v)
  BY <1>1, <1>2 DEF LinksRight
<1>5. \A x \in DOMAIN u : u[x].came \in Nat
  <2>1. \A x \in DOMAIN u : u[x] \in Returns
    OBVIOUS
  <2>. QED  BY <2>1, BillingAssumption DEF Returns
<1>6. /\ \A x : x # r => SumOfReturn(t, x) = SumOfReturn(s, x)
      /\ SumOfReturn(t, r) = SumOfReturn(s, r) + SumFunctionOnSet(Totals(t), (Len(s) + 1)..(Len(s) + m)) + rest
  BY NotesSum
<1>7. ASSUME NEW x \in DOMAIN v
      PROVE  SumOfReturn(t, x) <= v[x].came
  <2>1. CASE x # r
    <3>1. SumOfReturn(t, x) = SumOfReturn(s, x)
      BY <1>6, <2>1
    <3>. QED  BY <3>1 DEF CreditsRight
  <2>2. CASE x = r
    <3>1. SumOfReturn(s, r) \in Nat
      <4>1. NotesOf(s, r) \subseteq DOMAIN s
        BY DEF NotesOf
      <4>. QED  BY <4>1, SumsNat DEF SumOfReturn
    <3>2. SumFunctionOnSet(Totals(t), (Len(s) + 1)..(Len(s) + m)) \in Nat
      <4>1. (Len(s) + 1)..(Len(s) + m) \subseteq DOMAIN t
        BY <1>1
      <4>. QED  BY <4>1, SumsNat
    <3>3. u[r].came \in Nat /\ v[r].came = u[r].came
      BY <1>5
    <3>4. SumFunctionOnSet(Totals(t), (Len(s) + 1)..(Len(s) + m)) + rest <= u[r].came - SumOfReturn(s, r)
      BY DEF NotesFit
    <3>. QED  BY <1>6, <2>2, <3>1, <3>2, <3>3, <3>4
  <2>. QED  BY <2>1, <2>2
<1>8. ASSUME NEW b \in DOMAIN t, NEW x \in BilledLines, Stands(t, b, "invoice")
      PROVE  SumAgainst(t, b, x) <= t[b].qty[x]
  <2>1. b \in DOMAIN s /\ Stands(s, b, "invoice") /\ t[b] = s[b] /\ b \in Nat /\ b # 0
    BY <1>1, <1>2, <1>8 DEF Stands
  <2>2. SumAgainst(s, b, x) <= s[b].qty[x]
    BY <2>1 DEF CreditsRight
  <2>3. s[b].qty[x] \in Nat /\ SumAgainst(s, b, x) \in Nat
    <3>1. NotesTo(s, b) \subseteq DOMAIN s
      BY DEF NotesTo
    <3>2. s[b].qty \in [BilledLines -> Nat]
      BY <2>1, BillQty
    <3>. QED  BY <3>1, <3>2, SumsNat DEF SumAgainst
  <2>4. \/ SumAgainst(t, b, x) = SumAgainst(s, b, x)
        \/ \E c \in DOMAIN t \ DOMAIN s :
              t[c].against = b /\ SumAgainst(t, b, x) = SumAgainst(s, b, x) + (IF x = l THEN Totals(t)[c] ELSE 0)
    <3>1. PICK d \in Nat : d = b
      BY <2>1
    <3>2. OneNote(s, t, l, d, x)
      BY NotesAgainst
    <3>. QED  BY <3>1, <3>2 DEF OneNote
  <2>5. ASSUME NEW c \in DOMAIN t \ DOMAIN s, t[c].against = b,
               SumAgainst(t, b, x) = SumAgainst(s, b, x) + (IF x = l THEN Totals(t)[c] ELSE 0)
        PROVE  SumAgainst(t, b, x) <= s[b].qty[x]
    <3>1. CASE x = l
      <4>1. Totals(t)[c] <= s[b].qty[x] - SumAgainst(s, b, x)
        BY <2>1, <2>5, <3>1 DEF NotesFit
      <4>2. Totals(t)[c] \in Nat
        BY SumsNat
      <4>. QED  BY <2>3, <2>5, <3>1, <4>1, <4>2, SMTT(30)
    <3>2. CASE x # l
      BY <2>2, <2>3, <2>5, <3>2
    <3>. QED  BY <3>1, <3>2
  <2>. QED  BY <2>1, <2>2, <2>4, <2>5
<1>. QED  BY <1>3, <1>4, <1>7, <1>8 DEF CreditsRight

LEMMA Joined ==
    ASSUME NEW S, NEW s \in Seq(S), NEW q \in Seq(S), NEW t, t = s \o q
    PROVE  /\ t \in Seq(S) /\ Len(t) = Len(s) + Len(q) /\ Len(s) \in Nat /\ Len(q) \in Nat
           /\ DOMAIN s = 1..Len(s) /\ DOMAIN q = 1..Len(q) /\ DOMAIN t = 1..(Len(s) + Len(q))
           /\ \A c \in 1..Len(s) : t[c] = s[c]
           /\ \A c \in (Len(s) + 1)..(Len(s) + Len(q)) : c - Len(s) \in 1..Len(q) /\ t[c] = q[c - Len(s)]
OBVIOUS

LEMMA NoteOf ==
    ASSUME NEW q \in [BilledLines -> Nat], NEW a \in 0..MaxBills, NEW r \in 0..MaxReturns
    PROVE  \E x \in Bills : /\ x = Bill("credit", q, {}, a, r)
                            /\ x.kind = "credit" /\ x.live = TRUE /\ x.return = r /\ x.against = a /\ x.qty = q
<1>1. PICK k \in {"invoice", "credit"}, ms \in SUBSET (1..MaxShipped), v \in BOOLEAN, p \in Nat :
         k = "credit" /\ ms = {} /\ v = TRUE /\ p = 0
  OBVIOUS
<1>2. PICK x : x = [kind |-> k, qty |-> q, moves |-> ms, live |-> v, paid |-> p, against |-> a, return |-> r]
  OBVIOUS
<1>3. x \in Bills
  BY <1>2 DEF Bills
<1>4. x = Bill("credit", q, {}, a, r)
  BY <1>1, <1>2 DEF Bill
<1>5. x.kind = "credit" /\ x.live = TRUE /\ x.return = r /\ x.against = a /\ x.qty = q
  BY <1>1, <1>2
<1>. QED  BY <1>3, <1>4, <1>5

\* The notes a credit makes.
NotesAre(ns, m, order, left, rest, l, r) ==
    /\ Len(ns) = m + (IF rest > 0 THEN 1 ELSE 0)
    /\ \A k \in 1..m : /\ Stands(ns, k, "credit") /\ ns[k].return = r /\ ns[k].against = order[k]
                       /\ ns[k].qty = OfLine(l, Share(order[k], left, l))
    /\ rest > 0 => /\ Stands(ns, m + 1, "credit") /\ ns[m + 1].return = r /\ ns[m + 1].against = 0
                   /\ ns[m + 1].qty = OfLine(l, rest)

LEMMA NotesMade ==
    ASSUME NEW r \in 1..MaxReturns, NEW l \in BilledLines, l = returns[r].line, NEW m \in Nat, NEW order \in [1..m -> 1..MaxBills],
           NEW left \in Nat, NEW rest \in Nat, \A k \in 1..m : Share(order[k], left, l) \in Nat
    PROVE  Notes(r, order, left, rest) \in Seq(Bills) /\ NotesAre(Notes(r, order, left, rest), m, order, left, rest, l, r)
<1>0. PICK ns : ns = Notes(r, order, left, rest)
  OBVIOUS
<1>1. PICK A : A = [k \in 1..m |-> Bill("credit", OfLine(l, Share(order[k], left, l)), {}, order[k], r)]
  OBVIOUS
<1>2. PICK B : B = IF rest > 0 THEN <<Bill("credit", OfLine(l, rest), {}, 0, r)>> ELSE <<>>
  OBVIOUS
<1>3. ns = A \o B
  <2>1. DOMAIN order = 1..m
    OBVIOUS
  <2>. QED  BY <1>0, <1>1, <1>2, <2>1 DEF Notes
<1>4. ASSUME NEW k \in 1..m
      PROVE  /\ A[k] \in Bills /\ A[k].kind = "credit" /\ A[k].live = TRUE /\ A[k].return = r /\ A[k].against = order[k]
             /\ A[k].qty = OfLine(l, Share(order[k], left, l))
  <2>1. PICK q \in Nat, a \in 0..MaxBills, u \in 0..MaxReturns : q = Share(order[k], left, l) /\ a = order[k] /\ u = r
    <3>1. order[k] \in 1..MaxBills
      OBVIOUS
    <3>. QED  BY <3>1, BillingAssumption
  <2>2. PICK f \in [BilledLines -> Nat] : f = OfLine(l, q)
    BY OfLineSum
  <2>3. A[k] = Bill("credit", f, {}, a, u)
    BY <1>1, <2>1, <2>2
  <2>4. PICK x \in Bills : /\ x = Bill("credit", f, {}, a, u)
                           /\ x.kind = "credit" /\ x.live = TRUE /\ x.return = u /\ x.against = a /\ x.qty = f
    BY NoteOf, ZenonT(30)
  <2>. QED  BY <2>1, <2>2, <2>3, <2>4
<1>5. A \in Seq(Bills) /\ Len(A) = m /\ DOMAIN A = 1..m
  <2>1. A = [k \in 1..m |-> A[k]]
    BY <1>1
  <2>2. \A k \in 1..m : A[k] \in Bills
    BY <1>4
  <2>. QED  BY <2>1, <2>2, ListOf
<1>6. CASE ~(rest > 0)
  <2>1. ns = A
    BY <1>2, <1>3, <1>5, <1>6
  <2>2. \A k \in 1..m : /\ Stands(ns, k, "credit") /\ ns[k].return = r /\ ns[k].against = order[k]
                        /\ ns[k].qty = OfLine(l, Share(order[k], left, l))
    BY <1>4, <2>1 DEF Stands
  <2>3. Len(ns) = m + (IF rest > 0 THEN 1 ELSE 0)
    BY <1>5, <1>6, <2>1
  <2>. QED  BY <1>0, <1>5, <1>6, <2>1, <2>2, <2>3 DEF NotesAre
<1>7. CASE rest > 0
  <2>1. PICK f \in [BilledLines -> Nat], a \in 0..MaxBills, u \in 0..MaxReturns : f = OfLine(l, rest) /\ a = 0 /\ u = r
    <3>1. 0 \in 0..MaxBills /\ r \in 0..MaxReturns
      BY BillingAssumption
    <3>2. OfLine(l, rest) \in [BilledLines -> Nat]
      BY OfLineSum
    <3>. QED  BY <3>1, <3>2
  <2>3. PICK x \in Bills : /\ x = Bill("credit", f, {}, a, u)
                           /\ x.kind = "credit" /\ x.live = TRUE /\ x.return = u /\ x.against = a /\ x.qty = f
    BY NoteOf, ZenonT(30)
  <2>4. ns = A \o <<x>>
    BY <1>2, <1>3, <1>7, <2>1, <2>3
  <2>5. ns \in Seq(Bills) /\ Len(ns) = m + 1 /\ ns[m + 1] = x /\ \A k \in 1..m : ns[k] = A[k]
    <3>1. PICK y : y = Append(A, x)
      OBVIOUS
    <3>2. y \in Seq(Bills) /\ Len(y) = Len(A) + 1 /\ y[Len(A) + 1] = x /\ \A k \in DOMAIN A : y[k] = A[k]
      BY <1>5, <2>3, <3>1, OneMore
    <3>3. A \o <<x>> = Append(A, x)
      BY <1>5, <2>3
    <3>. QED  BY <1>5, <2>4, <3>1, <3>2, <3>3
  <2>6. \A k \in 1..m : /\ Stands(ns, k, "credit") /\ ns[k].return = r /\ ns[k].against = order[k]
                        /\ ns[k].qty = OfLine(l, Share(order[k], left, l))
    BY <1>4, <2>5 DEF Stands
  <2>7. Len(ns) = m + (IF rest > 0 THEN 1 ELSE 0)
    BY <1>7, <2>5
  <2>8. /\ Stands(ns, m + 1, "credit") /\ ns[m + 1].return = r /\ ns[m + 1].against = 0
        /\ ns[m + 1].qty = OfLine(l, rest)
    BY <2>1, <2>3, <2>5 DEF Stands
  <2>. QED  BY <1>0, <2>5, <2>6, <2>7, <2>8 DEF NotesAre
<1>. QED  BY <1>6, <1>7

\* CreditReturn, for return r.
Credited(r) ==
    LET l == returns[r].line
        left == LeftToCredit(r)
        rest == left - Lesser(left, GivenBy(Len(bills), l))
        against == {b \in DOMAIN bills : Share(b, left, l) > 0}
    IN /\ left > 0
       /\ \E order \in [1..Cardinality(against) -> against] :
             /\ \A j, k \in DOMAIN order : j < k => order[j] < order[k]
             /\ Len(bills) + Len(Notes(r, order, left, rest)) <= MaxBills
             /\ bills' = bills \o Notes(r, order, left, rest)
       /\ returns' = [returns EXCEPT ![r].credit = Len(bills) + 1]
       /\ shipped' = shipped

LEMMA Credits ==
    ASSUME BillInv, CreditReturn
    PROVE  BillInv'
<1>1. /\ shipped \in Seq(Shipments) /\ Len(shipped) <= MaxShipped
      /\ bills \in Seq(Bills) /\ Len(bills) <= MaxBills /\ returns \in Seq(Returns) /\ Len(returns) <= MaxReturns
      /\ MovesApart(bills) /\ CreditsRight(bills, returns) /\ LinksRight(bills, returns)
  BY DEF BillInv, BillingTypeOK
<1>2. Len(bills) \in Nat /\ DOMAIN bills = 1..Len(bills) /\ Len(returns) \in Nat /\ DOMAIN returns = 1..Len(returns)
  BY <1>1
<1>0. PICK r \in DOMAIN returns : Credited(r)
  BY DEF CreditReturn, Credited
<1>3. PICK l, left, rest, against :
         /\ l = returns[r].line /\ left = LeftToCredit(r) /\ rest = left - Lesser(left, GivenBy(Len(bills), l))
         /\ against = {b \in DOMAIN bills : Share(b, left, l) > 0}
         /\ left > 0
         /\ \E order \in [1..Cardinality(against) -> against] :
               /\ \A j, k \in DOMAIN order : j < k => order[j] < order[k]
               /\ Len(bills) + Len(Notes(r, order, left, rest)) <= MaxBills
               /\ bills' = bills \o Notes(r, order, left, rest)
         /\ returns' = [returns EXCEPT ![r].credit = Len(bills) + 1]
         /\ shipped' = shipped
  BY <1>0 DEF Credited
<1>4. PICK m \in Nat : m = Cardinality(against)
  <2>1. IsFiniteSet(against)
    BY <1>1, <1>3, Places
  <2>. QED  BY <2>1, FS_CardinalityType
<1>5. PICK order \in [1..m -> against] :
         \E ns : /\ \A j, k \in 1..m : j < k => order[j] < order[k]
                 /\ ns = Notes(r, order, left, rest)
                 /\ Len(bills) + Len(ns) <= MaxBills
                 /\ bills' = bills \o ns
  BY <1>3, <1>4
<1>50. PICK ns : /\ \A j, k \in 1..m : j < k => order[j] < order[k]
                 /\ ns = Notes(r, order, left, rest)
                 /\ Len(bills) + Len(ns) <= MaxBills
                 /\ bills' = bills \o ns
  BY <1>5
<1>6. returns[r] \in Returns /\ l \in BilledLines /\ returns[r].came \in Nat /\ r \in Nat /\ r \in 1..MaxReturns
  <2>1. returns[r] \in Returns
    BY <1>1
  <2>. QED  BY <1>1, <1>2, <1>3, <2>1, BillingAssumption DEF Returns
<1>7. left = returns[r].came - SumOfReturn(bills, r) /\ SumOfReturn(bills, r) \in Nat /\ left \in Nat
  <2>1. NotesOf(bills, r) \subseteq DOMAIN bills
    BY DEF NotesOf
  <2>2. SumOfReturn(bills, r) \in Nat
    BY <1>1, <2>1, SumsNat DEF SumOfReturn
  <2>3. CreditedOf(r) = SumOfReturn(bills, r)
    BY <1>1, CreditsAre
  <2>. QED  BY <1>3, <1>6, <2>2, <2>3 DEF LeftToCredit
<1>8. ASSUME NEW k \in 1..m
      PROVE  /\ order[k] \in DOMAIN bills /\ Stands(bills, order[k], "invoice")
             /\ Share(order[k], left, l) \in Nat
             /\ Share(order[k], left, l) <= bills[order[k]].qty[l] - SumAgainst(bills, order[k], l)
  <2>1. PICK b \in DOMAIN bills : b = order[k] /\ Share(b, left, l) > 0
    BY <1>3
  <2>2. /\ Share(b, left, l) \in Nat /\ b \in Live("invoice")
        /\ Share(b, left, l) <= Creditable(b, l) /\ Creditable(b, l) \in Nat
    BY <1>1, <1>6, <1>7, <2>1, ShareAtMost
  <2>3. Stands(bills, b, "invoice")
    BY <2>2 DEF Live, Stands
  <2>4. Creditable(b, l) = bills[b].qty[l] - SumAgainst(bills, b, l)
    <3>1. SumAgainst(bills, b, l) <= bills[b].qty[l] /\ CreditedAgainst(b, l) = SumAgainst(bills, b, l)
      BY <1>1, <1>6, <2>3, CreditsAre DEF CreditsRight
    <3>2. bills[b].qty[l] \in Nat
      BY <1>1, <1>6, BillQty
    <3>3. SumAgainst(bills, b, l) \in Nat
      <4>1. NotesTo(bills, b) \subseteq DOMAIN bills
        BY DEF NotesTo
      <4>. QED  BY <1>1, <1>6, <4>1, SumsNat DEF SumAgainst
    <3>. QED  BY <3>1, <3>2, <3>3 DEF Creditable, NotNegative
  <2>. QED  BY <2>1, <2>2, <2>3, <2>4
<1>9. PICK G \in [0..Len(bills) -> Nat] : /\ \A i \in 0..Len(bills) : G[i] = GivenBy(i, l)
                                          /\ \A i, j \in 0..Len(bills) : i <= j => G[i] <= G[j]
  <2>1. /\ \A i \in 0..Len(bills) : GivenBy(i, l) \in Nat
        /\ \A i, j \in 0..Len(bills) : i <= j => GivenBy(i, l) <= GivenBy(j, l)
    BY <1>1, <1>6, GivenGrows
  <2>2. PICK G : G = [i \in 0..Len(bills) |-> GivenBy(i, l)]
    OBVIOUS
  <2>. QED  BY <2>1, <2>2, SMTT(30)
<1>10. rest \in Nat /\ rest = left - Lesser(left, G[Len(bills)]) /\ Lesser(left, G[Len(bills)]) \in Nat
  <2>1. Len(bills) \in 0..Len(bills)
    BY <1>2
  <2>2. G[Len(bills)] = GivenBy(Len(bills), l) /\ G[Len(bills)] \in Nat
    BY <1>9, <2>1
  <2>. QED  BY <1>3, <1>7, <2>2 DEF Lesser
<1>11. order \in [1..m -> 1..Len(bills)] /\ order \in [1..m -> 1..MaxBills]
  <2>1. \A k \in 1..m : order[k] \in 1..Len(bills)
    BY <1>2, <1>8
  <2>2. 1..Len(bills) \subseteq 1..MaxBills
    BY <1>1, <1>2, BillingAssumption
  <2>3. order = [k \in 1..m |-> order[k]]
    BY <1>50
  <2>. QED  BY <2>1, <2>2, <2>3
<1>12. ns \in Seq(Bills) /\ NotesAre(ns, m, order, left, rest, l, r)
  <2>1. PICK u \in 1..MaxReturns, left2 \in Nat, rest2 \in Nat, order2 \in [1..m -> 1..MaxBills] :
           u = r /\ left2 = left /\ rest2 = rest /\ order2 = order
    BY <1>6, <1>7, <1>10, <1>11
  <2>2. \A k \in 1..m : Share(order2[k], left2, l) \in Nat
    BY <1>8, <2>1
  <2>3. Notes(u, order2, left2, rest2) \in Seq(Bills) /\ NotesAre(Notes(u, order2, left2, rest2), m, order2, left2, rest2, l, u)
    BY <1>3, <1>6, <2>1, <2>2, NotesMade
  <2>. QED  BY <1>50, <2>1, <2>3
<1>13. PICK t \in Seq(Bills) : t = bills \o ns
  <2>1. PICK s \in Seq(Bills), q \in Seq(Bills) : s = bills /\ q = ns
    BY <1>1, <1>12
  <2>2. s \o q \in Seq(Bills)
    OBVIOUS
  <2>. QED  BY <2>1, <2>2
<1>14. /\ Len(t) = Len(bills) + Len(ns) /\ Len(ns) \in Nat
       /\ DOMAIN ns = 1..Len(ns) /\ DOMAIN t = 1..(Len(bills) + Len(ns))
       /\ \A c \in 1..Len(bills) : t[c] = bills[c]
       /\ \A c \in (Len(bills) + 1)..(Len(bills) + Len(ns)) : c - Len(bills) \in 1..Len(ns) /\ t[c] = ns[c - Len(bills)]
  BY <1>1, <1>12, <1>13, Joined
<1>15. Len(ns) = m + (IF rest > 0 THEN 1 ELSE 0)
  BY <1>12 DEF NotesAre
<1>16. ASSUME NEW k \in 1..m
       PROVE  /\ Len(bills) + k \in DOMAIN t \ DOMAIN bills /\ Stands(t, Len(bills) + k, "credit")
              /\ t[Len(bills) + k].return = r /\ t[Len(bills) + k].against = order[k]
              /\ t[Len(bills) + k].qty = OfLine(l, Share(order[k], left, l))
              /\ Totals(t)[Len(bills) + k] = Share(order[k], left, l)
  <2>1. PICK c : c = Len(bills) + k
    OBVIOUS
  <2>2. c \in (Len(bills) + 1)..(Len(bills) + Len(ns)) /\ c - Len(bills) = k /\ c \in DOMAIN t /\ c \notin DOMAIN bills
    BY <1>2, <1>14, <1>15, <2>1
  <2>3. t[c] = ns[k]
    BY <1>14, <2>2
  <2>4. Stands(t, c, "credit") /\ t[c].return = r /\ t[c].against = order[k] /\ t[c].qty = OfLine(l, Share(order[k], left, l))
    BY <1>12, <2>3 DEF NotesAre, Stands
  <2>5. Totals(t)[c] = SumFunction(OfLine(l, Share(order[k], left, l)))
    BY <2>2, <2>4 DEF Totals
  <2>6. PICK q \in Nat : q = Share(order[k], left, l)
    BY <1>8
  <2>7. SumFunction(OfLine(l, q)) = q
    BY <1>6, OfLineSum
  <2>. QED  BY <2>1, <2>2, <2>4, <2>5, <2>6, <2>7
<1>17. ASSUME rest > 0
       PROVE  /\ Len(bills) + m + 1 \in DOMAIN t \ DOMAIN bills /\ Stands(t, Len(bills) + m + 1, "credit")
              /\ t[Len(bills) + m + 1].return = r /\ t[Len(bills) + m + 1].against = 0
              /\ t[Len(bills) + m + 1].qty = OfLine(l, rest)
              /\ Totals(t)[Len(bills) + m + 1] = rest
  <2>1. PICK c : c = Len(bills) + m + 1
    OBVIOUS
  <2>2. /\ c \in (Len(bills) + 1)..(Len(bills) + Len(ns)) /\ c - Len(bills) = m + 1
        /\ c \in DOMAIN t /\ c \notin DOMAIN bills
    BY <1>2, <1>14, <1>15, <1>17, <2>1
  <2>3. t[c] = ns[m + 1]
    BY <1>14, <2>2
  <2>4. Stands(t, c, "credit") /\ t[c].return = r /\ t[c].against = 0 /\ t[c].qty = OfLine(l, rest)
    BY <1>12, <1>17, <2>3 DEF NotesAre, Stands
  <2>5. Totals(t)[c] = SumFunction(OfLine(l, rest))
    BY <2>2, <2>4 DEF Totals
  <2>6. SumFunction(OfLine(l, rest)) = rest
    BY <1>6, <1>10, OfLineSum
  <2>. QED  BY <2>1, <2>2, <2>4, <2>5, <2>6
<1>18. ASSUME NEW c \in DOMAIN t \ DOMAIN bills
       PROVE  (\E k \in 1..m : c = Len(bills) + k) \/ (rest > 0 /\ c = Len(bills) + m + 1)
  <2>1. PICK n \in Nat, j \in Nat : n = Len(bills) /\ j = Len(ns)
    BY <1>2, <1>14
  <2>2. c \in Int /\ c >= n + 1 /\ c <= n + j
    BY <1>2, <1>14, <2>1
  <2>3. m \in Nat /\ (j = m \/ (rest > 0 /\ j = m + 1))
    BY <1>3, <1>15, <2>1
  <2>4. PICK k \in Int : k = c - n
    BY <2>2
  <2>5. c = n + k /\ k >= 1 /\ k <= j
    BY <2>2, <2>4
  <2>6. CASE k <= m
    <3>1. k \in 1..m /\ c = Len(bills) + k
      BY <2>1, <2>3, <2>5, <2>6
    <3>. QED  BY <3>1
  <2>7. CASE ~(k <= m)
    <3>1. rest > 0 /\ k = m + 1
      BY <2>3, <2>5, <2>7
    <3>. QED  BY <2>1, <2>3, <2>5, <3>1
  <2>. QED  BY <2>6, <2>7
<1>19. \A j, k \in 1..m : order[j] = order[k] => j = k
  <2>1. \A j \in 1..m : order[j] \in 1..Len(bills)
    BY <1>11
  <2>2. \A j, k \in 1..m : j # k => j < k \/ k < j
    OBVIOUS
  <2>. QED  BY <1>2, <1>50, <2>1, <2>2
<1>20. ASSUME NEW c \in DOMAIN t \ DOMAIN bills
       PROVE  /\ Stands(t, c, "credit") /\ t[c].return = r /\ t[c].against \in 0..Len(bills)
              /\ \A x \in BilledLines : t[c].qty[x] = (IF x = l THEN Totals(t)[c] ELSE 0)
  <2>1. ASSUME NEW k \in 1..m, c = Len(bills) + k
        PROVE  /\ Stands(t, c, "credit") /\ t[c].return = r /\ t[c].against \in 0..Len(bills)
               /\ \A x \in BilledLines : t[c].qty[x] = (IF x = l THEN Totals(t)[c] ELSE 0)
    <3>1. order[k] \in 1..Len(bills)
      BY <1>11
    <3>2. /\ Stands(t, c, "credit") /\ t[c].return = r /\ t[c].against = order[k]
          /\ t[c].qty = OfLine(l, Totals(t)[c])
      BY <1>16, <2>1
    <3>. QED  BY <1>2, <3>1, <3>2 DEF OfLine
  <2>2. ASSUME rest > 0, c = Len(bills) + m + 1
        PROVE  /\ Stands(t, c, "credit") /\ t[c].return = r /\ t[c].against \in 0..Len(bills)
               /\ \A x \in BilledLines : t[c].qty[x] = (IF x = l THEN Totals(t)[c] ELSE 0)
    <3>1. /\ Stands(t, c, "credit") /\ t[c].return = r /\ t[c].against = 0
          /\ t[c].qty = OfLine(l, Totals(t)[c])
      BY <1>17, <2>2
    <3>. QED  BY <1>2, <3>1 DEF OfLine
  <2>. QED  BY <1>18, <2>1, <2>2
<1>21. ASSUME NEW c \in DOMAIN t \ DOMAIN bills, NEW d \in DOMAIN t \ DOMAIN bills, t[c].against = t[d].against
       PROVE  c = d
  <2>1. \A j \in 1..m : order[j] \in 1..Len(bills) /\ order[j] # 0
    BY <1>11
  <2>2. \A e \in DOMAIN t \ DOMAIN bills : \/ \E k \in 1..m : e = Len(bills) + k /\ t[e].against = order[k]
                                           \/ e = Len(bills) + m + 1 /\ t[e].against = 0
    <3>. SUFFICES ASSUME NEW e \in DOMAIN t \ DOMAIN bills
                  PROVE  \/ \E k \in 1..m : e = Len(bills) + k /\ t[e].against = order[k]
                         \/ e = Len(bills) + m + 1 /\ t[e].against = 0
      OBVIOUS
    <3>1. ASSUME NEW k \in 1..m, e = Len(bills) + k
          PROVE  t[e].against = order[k]
      BY <1>16, <3>1
    <3>2. (\E k \in 1..m : e = Len(bills) + k) \/ (rest > 0 /\ e = Len(bills) + m + 1)
      BY <1>18
    <3>. QED  BY <1>17, <3>1, <3>2
  <2>. QED  BY <1>19, <1>21, <2>1, <2>2
<1>22. NotesAdded(bills, t, m, rest, l, r)
  <2>1. rest > 0 => Totals(t)[Len(bills) + m + 1] = rest
    BY <1>17
  <2>2. Len(t) = Len(bills) + m + (IF rest > 0 THEN 1 ELSE 0)
    BY <1>2, <1>14, <1>15
  <2>3. \A c \in DOMAIN bills : t[c] = bills[c]
    BY <1>2, <1>14
  <2>. QED  BY <1>20, <1>21, <2>1, <2>2, <2>3 DEF NotesAdded
<1>23. NotesFit(bills, t, m, rest, l, r, returns[r].came)
  <2>1. SumFunctionOnSet(Totals(t), (Len(bills) + 1)..(Len(bills) + m)) <= Lesser(left, G[Len(bills)])
    <3>1. PICK f : f = Totals(t)
      OBVIOUS
    <3>2. \A k \in 1..m : f[Len(bills) + k] = Lesser(left, G[order[k]]) - Lesser(left, G[order[k] - 1])
      <4>. SUFFICES ASSUME NEW k \in 1..m
                    PROVE  f[Len(bills) + k] = Lesser(left, G[order[k]]) - Lesser(left, G[order[k] - 1])
        OBVIOUS
      <4>1. order[k] \in 1..Len(bills)
        BY <1>11
      <4>2. order[k] \in 0..Len(bills) /\ order[k] - 1 \in 0..Len(bills)
        BY <1>2, <4>1
      <4>3. G[order[k]] = GivenBy(order[k], l) /\ G[order[k] - 1] = GivenBy(order[k] - 1, l)
        BY <1>9, <4>2
      <4>. QED  BY <1>16, <3>1, <4>3 DEF Share
    <3>3. SumFunctionOnSet(f, (Len(bills) + 1)..(Len(bills) + m)) <= Lesser(left, G[Len(bills)])
      <4>1. PICK n \in Nat : n = Len(bills)
        BY <1>2
      <4>2. PICK left2 \in Nat, order2 \in [1..m -> 1..n], G2 \in [0..n -> Nat] : left2 = left /\ order2 = order /\ G2 = G
        BY <1>7, <1>11, <4>1
      <4>3. /\ \A i, j \in 0..n : i <= j => G2[i] <= G2[j]
            /\ \A j, k \in 1..m : j < k => order2[j] < order2[k]
            /\ \A k \in 1..m : f[n + k] = Lesser(left2, G2[order2[k]]) - Lesser(left2, G2[order2[k] - 1])
        BY <1>50, <1>9, <3>2, <4>1, <4>2
      <4>4. SumFunctionOnSet(f, (n + 1)..(n + m)) <= Lesser(left2, G2[n])
        BY <4>3, OldestFirst
      <4>. QED  BY <4>1, <4>2, <4>4
    <3>. QED  BY <3>1, <3>3
  <2>2. SumFunctionOnSet(Totals(t), (Len(bills) + 1)..(Len(bills) + m)) \in Nat
    <3>1. (Len(bills) + 1)..(Len(bills) + m) \subseteq DOMAIN t
      BY <1>2, <1>14, <1>15
    <3>. QED  BY <3>1, SumsNat
  <2>3. SumFunctionOnSet(Totals(t), (Len(bills) + 1)..(Len(bills) + m)) + rest <= returns[r].came - SumOfReturn(bills, r)
    BY <1>6, <1>7, <1>10, <2>1, <2>2, SMTT(30)
  <2>4. ASSUME NEW c \in DOMAIN t \ DOMAIN bills, t[c].against # 0
        PROVE  Totals(t)[c] <= bills[t[c].against].qty[l] - SumAgainst(bills, t[c].against, l)
    <3>1. PICK k \in 1..m : c = Len(bills) + k
      BY <1>17, <1>18, <2>4
    <3>. QED  BY <1>8, <1>16, <3>1
  <2>. QED  BY <2>3, <2>4 DEF NotesFit
<1>24. /\ returns' \in Seq(Returns) /\ Len(returns') = Len(returns) /\ DOMAIN returns' = DOMAIN returns
       /\ \A x \in DOMAIN returns : returns'[x].came = returns[x].came
  <2>1. PICK n \in Nat : n = Len(bills) + 1
    BY <1>2
  <2>2. PICK z \in Returns : z = [returns[r] EXCEPT !.credit = n] /\ z.came = returns[r].came
    <3>1. PICK z : z = [returns[r] EXCEPT !.credit = n]
      OBVIOUS
    <3>2. z \in Returns
      BY <1>6, <3>1 DEF Returns
    <3>3. z.came = returns[r].came
      BY <1>6, <3>1 DEF Returns
    <3>. QED  BY <3>1, <3>2, <3>3
  <2>3. returns' = [returns EXCEPT ![r] = z]
    BY <1>3, <2>1, <2>2
  <2>. QED  BY <1>1, <1>2, <2>2, <2>3
<1>25. MovesApart(t) /\ CreditsRight(t, returns') /\ LinksRight(t, returns')
  <2>1. PICK v \in Seq(Returns) : v = returns'
    BY <1>24
  <2>2. PICK u \in Nat, rest2 \in Nat, l2 \in BilledLines : u = r /\ rest2 = rest /\ l2 = l
    BY <1>6, <1>10
  <2>3. /\ u \in DOMAIN returns /\ DOMAIN v = DOMAIN returns /\ \A x \in DOMAIN returns : v[x].came = returns[x].came
        /\ NotesAdded(bills, t, m, rest2, l2, u) /\ NotesFit(bills, t, m, rest2, l2, u, returns[u].came)
    BY <1>22, <1>23, <1>24, <2>1, <2>2
  <2>4. MovesApart(t) /\ CreditsRight(t, v) /\ LinksRight(t, v)
    BY <1>1, <2>3, NotesRight
  <2>. QED  BY <2>1, <2>4
<1>26. BillingTypeOK'
  <2>1. bills' = t /\ Len(t) <= MaxBills
    BY <1>50, <1>13, <1>14
  <2>. QED  BY <1>1, <1>3, <1>24, <2>1 DEF BillingTypeOK
<1>. QED  BY <1>50, <1>13, <1>25, <1>26 DEF BillInv
-----------------------------------------------------------------------------
(* The other steps: the list of bills goes on.                                *)

LEMMA Goes ==
    ASSUME BillInv, NEW s \in Seq(Shipments), NEW t \in Seq(Bills), NEW v \in Seq(Returns),
           shipped' = s, Len(s) <= MaxShipped, bills' = t, Len(t) <= MaxBills, returns' = v, Len(v) <= MaxReturns,
           Continues(bills, t), MovesApart(t), DOMAIN returns \subseteq DOMAIN v,
           \A r \in DOMAIN returns : returns[r].came <= v[r].came
    PROVE  BillInv'
<1>1. PICK p \in Seq(Bills), u \in Seq(Returns) : p = bills /\ u = returns
  BY DEF BillInv, BillingTypeOK
<1>2. CreditsRight(p, u) /\ LinksRight(p, u) /\ Continues(p, t) /\ DOMAIN u \subseteq DOMAIN v
      /\ \A r \in DOMAIN u : u[r].came <= v[r].came
  BY <1>1 DEF BillInv
<1>3. CreditsRight(t, v) /\ LinksRight(t, v)
  BY <1>2, ContinuesRight
<1>4. BillingTypeOK'
  BY DEF BillingTypeOK
<1>. QED  BY <1>3, <1>4 DEF BillInv

\* What a step leaves as it is.
LEMMA Stays ==
    ASSUME BillInv
    PROVE  /\ shipped \in Seq(Shipments) /\ Len(shipped) <= MaxShipped /\ DOMAIN shipped = 1..Len(shipped) /\ Len(shipped) \in Nat
           /\ bills \in Seq(Bills) /\ Len(bills) <= MaxBills /\ DOMAIN bills = 1..Len(bills) /\ Len(bills) \in Nat
           /\ returns \in Seq(Returns) /\ Len(returns) <= MaxReturns /\ DOMAIN returns = 1..Len(returns) /\ Len(returns) \in Nat
           /\ Continues(bills, bills) /\ MovesApart(bills)
           /\ \A r \in DOMAIN returns : /\ returns[r] \in Returns /\ returns[r].came \in Nat
<1>1. \A x \in Returns : x.came \in Nat
  BY BillingAssumption DEF Returns
<1>. QED  BY <1>1 DEF BillInv, BillingTypeOK, Continues

\* Bills alike but for what was paid and whether they stand.
LEMMA Altered ==
    ASSUME NEW s \in Seq(Bills), MovesApart(s), NEW t \in Seq(Bills), Continues(s, t), Len(t) = Len(s)
    PROVE  MovesApart(t)
<1>1. DOMAIN t = DOMAIN s
  BY BillQty
<1>. QED  BY <1>1 DEF MovesApart, Continues, Stands

LEMMA Shipping ==
    ASSUME BillInv, ShipGoods \/ ReverseShipment
    PROVE  BillInv'
<1>1. bills' = bills /\ returns' = returns
  BY DEF ShipGoods, ReverseShipment
<1>2. shipped' \in Seq(Shipments) /\ Len(shipped') <= MaxShipped
  <2>1. CASE ShipGoods
    <3>1. PICK l \in BilledLines, q \in Amounts, no \in BOOLEAN :
             /\ Len(shipped) < MaxShipped /\ no = FALSE
             /\ shipped' = Append(shipped, [line |-> l, qty |-> q, undone |-> no])
      BY <2>1 DEF ShipGoods
    <3>2. PICK x \in Shipments : x = [line |-> l, qty |-> q, undone |-> no]
      BY DEF Shipments
    <3>3. shipped' \in Seq(Shipments) /\ Len(shipped') = Len(shipped) + 1
      BY <3>1, <3>2, Stays
    <3>. QED  BY <3>1, <3>3, Stays, BillingAssumption
  <2>2. CASE ReverseShipment
    <3>1. PICK m \in DOMAIN shipped : shipped' = [shipped EXCEPT ![m].undone = TRUE]
      BY <2>2 DEF ReverseShipment
    <3>2. shipped[m] \in Shipments
      BY Stays
    <3>3. PICK x \in Shipments : x = [shipped[m] EXCEPT !.undone = TRUE]
      BY <3>2 DEF Shipments
    <3>4. shipped' = [shipped EXCEPT ![m] = x]
      BY <3>1, <3>3
    <3>. QED  BY <3>4, Stays
  <2>. QED  BY <2>1, <2>2
<1>. QED  BY <1>1, <1>2, Stays, Goes

LEMMA Invoicing ==
    ASSUME BillInv, CreateInvoice
    PROVE  BillInv'
<1>1. PICK ls, q, ms, v :
         /\ ls \subseteq BilledLines
         /\ Len(bills) < MaxBills
         /\ q = [l \in BilledLines |-> IF l \in ls THEN Quantity(ToBill(l)) ELSE 0]
         /\ ms = UNION {ToBill(l) : l \in ls}
         /\ v = Bill("invoice", q, ms, 0, 0)
         /\ bills' = Append(bills, v)
         /\ shipped' = shipped /\ returns' = returns
  BY DEF CreateInvoice
<1>2. \A l \in BilledLines : ToBill(l) \subseteq DOMAIN shipped /\ ToBill(l) \cap BilledMoves = {}
  BY DEF ToBill, Counting
<1>3. \A l \in BilledLines : Quantity(ToBill(l)) \in Nat
  <2>. SUFFICES ASSUME NEW l \in BilledLines PROVE Quantity(ToBill(l)) \in Nat
    OBVIOUS
  <2>1. PICK T : T = ToBill(l) /\ T \subseteq DOMAIN shipped
    BY <1>2
  <2>2. PICK f : f = [m \in T |-> shipped[m].qty]
    OBVIOUS
  <2>3. DOMAIN f = T /\ \A m \in T : f[m] \in Nat
    <3>1. \A m \in T : shipped[m] \in Shipments
      BY <2>1, Stays
    <3>2. \A x \in Shipments : x.qty \in Nat
      BY BillingAssumption DEF Shipments, Amounts
    <3>. QED  BY <2>2, <3>1, <3>2
  <2>4. IsFiniteSet(T)
    BY <2>1, Stays, Places
  <2>5. SumFunctionOnSet(f, T) \in Nat
    BY <2>3, <2>4, SumNat
  <2>. QED  BY <2>1, <2>2, <2>3, <2>5 DEF Quantity, SumFunction
<1>4. q \in [BilledLines -> Nat]
  BY <1>1, <1>3
<1>5. ms \in SUBSET (1..MaxShipped) /\ ms \cap BilledMoves = {}
  <2>1. DOMAIN shipped \subseteq 1..MaxShipped
    BY Stays, BillingAssumption
  <2>. QED  BY <1>1, <1>2, <2>1
<1>6. PICK w \in Bills : w = v /\ w.kind = "invoice" /\ w.moves = ms /\ w.live = TRUE
  <2>1. PICK k \in {"invoice", "credit"}, yes \in BOOLEAN, p \in Nat, a \in 0..MaxBills, r \in 0..MaxReturns :
           k = "invoice" /\ yes = TRUE /\ p = 0 /\ a = 0 /\ r = 0
    <3>1. 0 \in 0..MaxBills /\ 0 \in 0..MaxReturns
      BY BillingAssumption
    <3>. QED  BY <3>1
  <2>2. PICK x : x = [kind |-> k, qty |-> q, moves |-> ms, live |-> yes, paid |-> p, against |-> a, return |-> r]
    OBVIOUS
  <2>3. x \in Bills
    BY <1>4, <1>5, <2>2 DEF Bills
  <2>4. x = v
    BY <1>1, <2>1, <2>2 DEF Bill
  <2>5. x.kind = "invoice" /\ x.moves = ms /\ x.live = TRUE
    BY <2>1, <2>2
  <2>. QED  BY <2>3, <2>4, <2>5
<1>7. PICK s \in Seq(Bills), t \in Seq(Bills) : s = bills /\ t = Append(s, w) /\ t = bills'
  <2>1. PICK s \in Seq(Bills) : s = bills
    BY Stays
  <2>2. PICK t : t = Append(s, w)
    OBVIOUS
  <2>3. t \in Seq(Bills)
    BY <2>2
  <2>4. t = bills'
    BY <1>1, <1>6, <2>1, <2>2
  <2>. QED  BY <2>1, <2>2, <2>3, <2>4
<1>8. /\ t \in Seq(Bills) /\ Len(t) = Len(s) + 1 /\ t[Len(s) + 1] = w /\ Len(s) \in Nat
      /\ DOMAIN s = 1..Len(s) /\ DOMAIN t = 1..(Len(s) + 1)
      /\ \A k \in DOMAIN s : k \in DOMAIN t /\ t[k] = s[k] /\ k # Len(s) + 1
      /\ \A k \in DOMAIN t : k \in DOMAIN s \/ k = Len(s) + 1
  <2>1. t = Append(s, w)
    BY <1>7
  <2>. QED  BY <2>1, OneMore
<1>9. Continues(s, t)
  <2>1. Len(s) <= Len(t)
    BY <1>8
  <2>. QED  BY <1>6, <1>8, <2>1 DEF Continues
<1>10. MovesApart(t)
  <2>1. \A a \in DOMAIN s : Stands(s, a, "invoice") => ms \cap s[a].moves = {}
    BY <1>5, <1>7 DEF BilledMoves, Live, Stands
  <2>2. MovesApart(s)
    BY <1>7, Stays
  <2>. SUFFICES ASSUME NEW a \in DOMAIN t, NEW b \in DOMAIN t, Stands(t, a, "invoice"), Stands(t, b, "invoice"), a # b
                PROVE  t[a].moves \cap t[b].moves = {}
    BY DEF MovesApart
  <2>3. CASE a \in DOMAIN s /\ b \in DOMAIN s
    BY <1>8, <2>2, <2>3 DEF MovesApart, Stands
  <2>4. CASE a \in DOMAIN s /\ b = Len(s) + 1
    BY <1>6, <1>8, <2>1, <2>4 DEF Stands
  <2>5. CASE b \in DOMAIN s /\ a = Len(s) + 1
    BY <1>6, <1>8, <2>1, <2>5 DEF Stands
  <2>. QED  BY <1>8, <2>3, <2>4, <2>5
<1>11. Len(t) <= MaxBills
  BY <1>1, <1>7, <1>8, BillingAssumption
<1>12. DOMAIN returns \subseteq DOMAIN returns' /\ \A r \in DOMAIN returns : returns[r].came <= returns[r].came
  BY <1>1, Stays
<1>. QED  BY <1>1, <1>7, <1>8, <1>9, <1>10, <1>11, <1>12, Stays, Goes

LEMMA Paying ==
    ASSUME BillInv, PayBill
    PROVE  BillInv'
<1>1. PICK b \in DOMAIN bills, amount \in Nat :
         bills' = [bills EXCEPT ![b].paid = @ + amount] /\ shipped' = shipped /\ returns' = returns
  <2>1. PICK b \in DOMAIN bills : \E amount \in 1..StillOwed(b) :
           bills' = [bills EXCEPT ![b].paid = @ + amount] /\ shipped' = shipped /\ returns' = returns
    BY DEF PayBill
  <2>2. StillOwed(b) \in Int
    <3>1. bills[b] \in Bills /\ bills[b].qty \in [BilledLines -> Nat]
      BY Stays, BillQty
    <3>2. bills[b].paid \in Nat /\ Total(b) \in Nat
      BY <3>1, TotalNat DEF Bills, Total
    <3>. QED  BY <3>2 DEF StillOwed
  <2>3. 1..StillOwed(b) \subseteq Nat
    BY <2>2
  <2>. QED  BY <2>1, <2>3
<1>2. bills[b] \in Bills /\ bills[b].paid \in Nat
  <2>1. bills[b] \in Bills
    BY Stays
  <2>. QED  BY <2>1 DEF Bills
<1>3. PICK p \in Nat : p = bills[b].paid + amount
  BY <1>2
<1>4. PICK w \in Bills : w = [bills[b] EXCEPT !.paid = p]
  BY <1>2 DEF Bills
<1>5. /\ w.kind = bills[b].kind /\ w.qty = bills[b].qty /\ w.moves = bills[b].moves
      /\ w.against = bills[b].against /\ w.return = bills[b].return /\ w.live = bills[b].live
  BY <1>2, <1>4 DEF Bills
<1>6. PICK t : t = [bills EXCEPT ![b] = w]
  OBVIOUS
<1>7. bills' = t
  BY <1>1, <1>3, <1>4, <1>6
<1>8. t \in Seq(Bills) /\ Len(t) = Len(bills) /\ DOMAIN t = DOMAIN bills
      /\ t[b] = w /\ \A c \in DOMAIN bills \ {b} : t[c] = bills[c]
  BY <1>6, Stays
<1>9. Continues(bills, t)
  <2>1. Len(bills) <= Len(t)
    BY <1>8, Stays
  <2>. QED  BY <1>5, <1>8, <2>1 DEF Continues
<1>10. MovesApart(t)
  BY <1>8, <1>9, Stays, Altered
<1>11. DOMAIN returns \subseteq DOMAIN returns /\ \A r \in DOMAIN returns : returns[r].came <= returns[r].came
  BY Stays
<1>. QED  BY <1>1, <1>7, <1>8, <1>9, <1>10, <1>11, Stays, Goes

LEMMA Cancelling ==
    ASSUME BillInv, CancelBill
    PROVE  BillInv'
<1>1. PICK b \in DOMAIN bills :
         /\ bills' = [bills EXCEPT ![b].live = FALSE]
         /\ returns' = IF bills[b].kind = "credit" THEN [returns EXCEPT ![bills[b].return].credit = 0] ELSE returns
         /\ shipped' = shipped
  BY DEF CancelBill
<1>2. bills[b] \in Bills
  BY Stays
<1>3. PICK w \in Bills : w = [bills[b] EXCEPT !.live = FALSE]
  BY <1>2 DEF Bills
<1>4. /\ w.kind = bills[b].kind /\ w.qty = bills[b].qty /\ w.moves = bills[b].moves
      /\ w.against = bills[b].against /\ w.return = bills[b].return /\ w.live = FALSE
  BY <1>2, <1>3 DEF Bills
<1>5. PICK t : t = [bills EXCEPT ![b] = w]
  OBVIOUS
<1>6. bills' = t
  BY <1>1, <1>3, <1>5
<1>7. t \in Seq(Bills) /\ Len(t) = Len(bills) /\ DOMAIN t = DOMAIN bills
      /\ t[b] = w /\ \A c \in DOMAIN bills \ {b} : t[c] = bills[c]
  BY <1>5, Stays
<1>8. Continues(bills, t)
  <2>1. Len(bills) <= Len(t)
    BY <1>7, Stays
  <2>. QED  BY <1>4, <1>7, <2>1 DEF Continues
<1>9. MovesApart(t)
  BY <1>7, <1>8, Stays, Altered
<1>10. returns' \in Seq(Returns) /\ Len(returns') = Len(returns) /\ DOMAIN returns' = DOMAIN returns
       /\ \A r \in DOMAIN returns : returns[r].came <= returns'[r].came
  <2>1. CASE bills[b].kind = "credit"
    <3>1. PICK r \in DOMAIN returns : r = bills[b].return
      BY <2>1 DEF BillInv, LinksRight
    <3>2. returns[r] \in Returns
      BY Stays
    <3>3. PICK n \in Nat : n = 0
      OBVIOUS
    <3>4. PICK z : z = [returns[r] EXCEPT !.credit = n]
      OBVIOUS
    <3>5. z \in Returns /\ z.came = returns[r].came
      BY <3>2, <3>4 DEF Returns
    <3>6. returns' = [returns EXCEPT ![r] = z]
      BY <1>1, <2>1, <3>1, <3>3, <3>4
    <3>. QED  BY <3>5, <3>6, Stays
  <2>2. CASE bills[b].kind # "credit"
    BY <1>1, <2>2, Stays
  <2>. QED  BY <2>1, <2>2
<1>. QED  BY <1>1, <1>6, <1>7, <1>8, <1>9, <1>10, Stays, Goes, ZenonT(30)

LEMMA Returning ==
    ASSUME BillInv, CreateReturn \/ ReceiveReturn
    PROVE  BillInv'
<1>1. bills' = bills /\ shipped' = shipped
  BY DEF CreateReturn, ReceiveReturn
<1>2. CASE CreateReturn
  <2>1. PICK l \in BilledLines, q \in Amounts, n \in 0..MostShipped, k \in Nat :
           /\ n = 0 /\ k = 0 /\ Len(returns) < MaxReturns
           /\ returns' = Append(returns, [line |-> l, qty |-> q, came |-> n, credit |-> k])
    BY <1>2, BillingAssumption DEF CreateReturn
  <2>2. PICK z \in Returns : z = [line |-> l, qty |-> q, came |-> n, credit |-> k]
    BY DEF Returns
  <2>3. PICK u \in Seq(Returns), v \in Seq(Returns) : u = returns /\ v = Append(u, z) /\ v = returns'
    <3>1. PICK u \in Seq(Returns) : u = returns
      BY Stays
    <3>. QED  BY <2>1, <2>2, <3>1
  <2>4. v \in Seq(Returns) /\ Len(v) = Len(u) + 1 /\ \A r \in DOMAIN u : r \in DOMAIN v /\ v[r] = u[r]
    <3>1. v = Append(u, z)
      BY <2>3
    <3>. QED  BY <3>1, OneMore
  <2>5. Len(v) <= MaxReturns
    BY <2>1, <2>3, <2>4, Stays, BillingAssumption
  <2>6. DOMAIN returns \subseteq DOMAIN v /\ \A r \in DOMAIN returns : returns[r].came <= v[r].came
    BY <2>3, <2>4, Stays
  <2>. QED  BY <1>1, <2>3, <2>4, <2>5, <2>6, Stays, Goes
<1>3. CASE ReceiveReturn
  <2>1. PICK r \in DOMAIN returns : returns[r].came = 0 /\ \E q \in 1..returns[r].qty : returns' = [returns EXCEPT ![r].came = q]
    BY <1>3 DEF ReceiveReturn
  <2>2. returns[r] \in Returns /\ returns[r].qty \in Amounts
    <3>1. returns[r] \in Returns
      BY Stays
    <3>. QED  BY <3>1 DEF Returns
  <2>3. PICK n \in 0..MostShipped : returns' = [returns EXCEPT ![r].came = n]
    <3>1. PICK q \in 1..returns[r].qty : returns' = [returns EXCEPT ![r].came = q]
      BY <2>1
    <3>2. MostShipped \in Nat /\ returns[r].qty \in 1..MostShipped
      BY <2>2, BillingAssumption DEF Amounts
    <3>3. q \in 0..MostShipped
      BY <3>2
    <3>. QED  BY <3>1, <3>3
  <2>4. PICK z \in Returns : z = [returns[r] EXCEPT !.came = n] /\ z.came = n
    <3>1. PICK z : z = [returns[r] EXCEPT !.came = n]
      OBVIOUS
    <3>2. z \in Returns /\ z.came = n
      BY <2>2, <3>1 DEF Returns
    <3>. QED  BY <3>1, <3>2
  <2>5. PICK v : v = [returns EXCEPT ![r] = z]
    OBVIOUS
  <2>6. v = returns'
    BY <2>1, <2>3, <2>4, <2>5
  <2>7. v \in Seq(Returns) /\ Len(v) = Len(returns) /\ DOMAIN v = DOMAIN returns
        /\ v[r] = z /\ \A x \in DOMAIN returns \ {r} : v[x] = returns[x]
    BY <2>5, Stays
  <2>8. DOMAIN returns \subseteq DOMAIN v /\ \A x \in DOMAIN returns : returns[x].came <= v[x].came
    <3>1. n >= 0
      BY <2>3
    <3>2. returns[r].came <= v[r].came
      BY <2>1, <2>4, <2>7, <3>1
    <3>. QED  BY <2>7, <3>2, Stays
  <2>9. Len(v) <= MaxReturns
    BY <2>7, Stays
  <2>. QED  BY <1>1, <2>6, <2>7, <2>8, <2>9, Stays, Goes
<1>. QED  BY <1>2, <1>3

LEMMA BillStarts == BillingInit => BillInv
<1>. SUFFICES ASSUME BillingInit PROVE BillInv
  OBVIOUS
<1>1. shipped = <<>> /\ bills = <<>> /\ returns = <<>>
  BY DEF BillingInit
<1>. QED  BY <1>1, BillingAssumption DEF BillInv, BillingTypeOK, MovesApart, CreditsRight, LinksRight

LEMMA BillSteps == BillInv /\ [BillingNext]_billingVars => BillInv'
<1>. SUFFICES ASSUME BillInv, [BillingNext]_billingVars PROVE BillInv'
  OBVIOUS
<1>1. CASE ShipGoods \/ ReverseShipment
  BY <1>1, Shipping
<1>2. CASE CreateInvoice
  BY <1>2, Invoicing
<1>3. CASE PayBill
  BY <1>3, Paying
<1>4. CASE CancelBill
  BY <1>4, Cancelling
<1>5. CASE CreateReturn \/ ReceiveReturn
  BY <1>5, Returning
<1>6. CASE CreditReturn
  BY <1>6, Credits
<1>7. CASE UNCHANGED billingVars
  BY <1>7 DEF BillInv, BillingTypeOK, billingVars
<1>. QED  BY <1>1, <1>2, <1>3, <1>4, <1>5, <1>6, <1>7 DEF BillingNext

LEMMA BillAlways == BillingSpec => []BillInv
BY BillStarts, BillSteps, PTL DEF BillingSpec

\* Bills, returns and goods shipped hold values of their kind, whatever was billed, paid, credited and cancelled.
THEOREM BillingType == BillingSpec => []BillingTypeOK
BY BillAlways, BillInvSays, PTL

\* Goods delivered are on one standing invoice at most, and the standing credit notes give back no more of a return than
\* came nor more against an invoice than it billed (sales/__init__.py: create_invoices, credit_return), for any lines,
\* quantities and numbers of bills and returns.
THEOREM BilledAndCredited == BillingSpec => []BilledAndCreditedOnce
BY BillAlways, BillInvSays, PTL
=============================================================================
