--------------------------- MODULE PurchasingProofs ---------------------------
(* Theorems about what a company buys: a purchase order released by several     *)
(* people (PurchaseOrders), a line of one received and sent back (PurchaseLine), *)
(* and the supplier's invoices and credit memos of it (Payables). For any number *)
(* of people, lines, postings and documents, and any quantities.               *)
EXTENDS PurchaseOrders, PurchaseLine, Payables, Sums

-----------------------------------------------------------------------------
(* A purchase order: its documents and their value.                           *)

LEMMA ValueInt ==
    ASSUME NEW d \in PurchaseDocs
    PROVE  Value(d) \in Int
BY SumInt, PoAssumption DEF Value, PurchaseDocs

\* A line cancelled takes nothing to the order's value.
LEMMA CancelledIsLess ==
    ASSUME NEW d \in PurchaseDocs, NEW l \in PoLines
    PROVE  Value(LineCancelled(d, l)) <= Value(d)
<1>1. PICK f : f = d.lines
  OBVIOUS
<1>2. PICK g : g = [f EXCEPT ![l] = 0]
  OBVIOUS
<1>3. \A x \in PoLines : g[x] \in Int /\ f[x] \in Int /\ g[x] <= f[x]
  BY <1>1, <1>2, PoAssumption DEF PurchaseDocs
<1>4. SumFunctionOnSet(g, PoLines) <= SumFunctionOnSet(f, PoLines)
  BY <1>3, SumLeq, PoAssumption
<1>5. LineCancelled(d, l).lines = g
  BY <1>1, <1>2 DEF LineCancelled, PurchaseDocs
<1>. QED  BY <1>1, <1>4, <1>5 DEF Value

\* The documents that the actions on an order make.
LEMMA EditedDocs ==
    ASSUME NEW d \in PurchaseDocs
    PROVE  /\ \A p \in Clerks, k \in Ranks : Released(d, p, k) \in PurchaseDocs
           /\ [d EXCEPT !.header.approved = TRUE] \in PurchaseDocs
           /\ [d EXCEPT !.header.sent = TRUE] \in PurchaseDocs
           /\ \A l \in PoLines, q \in 0..MaxQty : Changed(d, l, q) \in PurchaseDocs
           /\ \A l \in PoLines : [d EXCEPT !.got = @ \cup {l}] \in PurchaseDocs
           /\ \A l \in PoLines : LineCancelled(d, l) \in PurchaseDocs
<1>1. \A p \in Clerks, k \in Ranks : Released(d, p, k) \in PurchaseDocs
  <2>. SUFFICES ASSUME NEW p \in Clerks, NEW k \in Ranks PROVE Released(d, p, k) \in PurchaseDocs
    OBVIOUS
  <2>1. PICK b \in BOOLEAN : b = Suffice(LevelsOf(d.header.approvals) \cup {k}, d)
    BY DEF Suffice
  <2>2. [level |-> k, by |-> p] \in Releases
    BY DEF Releases
  <2>3. PICK h \in Headers :
           h = [d.header EXCEPT !.approvals = @ \cup {[level |-> k, by |-> p]}, !.approved = b]
    BY <2>2 DEF PurchaseDocs, Headers
  <2>4. Released(d, p, k) = [d EXCEPT !.header = h]
    BY <2>1, <2>3 DEF Released, PurchaseDocs, Headers
  <2>. QED  BY <2>4 DEF PurchaseDocs
<1>2. [d EXCEPT !.header.approved = TRUE] \in PurchaseDocs
  BY DEF PurchaseDocs, Headers
<1>3. [d EXCEPT !.header.sent = TRUE] \in PurchaseDocs
  BY DEF PurchaseDocs, Headers
<1>4. \A l \in PoLines, q \in 0..MaxQty : Changed(d, l, q) \in PurchaseDocs
  <2>. SUFFICES ASSUME NEW l \in PoLines, NEW q \in 0..MaxQty PROVE Changed(d, l, q) \in PurchaseDocs
    OBVIOUS
  <2>1. PICK new \in PurchaseDocs : new = [d EXCEPT !.lines[l] = q]
    BY DEF PurchaseDocs
  <2>2. [new EXCEPT !.header.approved = FALSE, !.header.sent = FALSE, !.header.approvals = {}] \in PurchaseDocs
    BY DEF PurchaseDocs, Headers
  <2>. QED  BY <2>1, <2>2 DEF Changed
<1>5. \A l \in PoLines : [d EXCEPT !.got = @ \cup {l}] \in PurchaseDocs
  BY DEF PurchaseDocs
<1>6. \A l \in PoLines : LineCancelled(d, l) \in PurchaseDocs
  <2>. SUFFICES ASSUME NEW l \in PoLines PROVE LineCancelled(d, l) \in PurchaseDocs
    OBVIOUS
  <2>1. PICK b \in BOOLEAN : b = LastLine(d, l)
    BY DEF LastLine
  <2>2. PICK h \in Headers : h = [d.header EXCEPT !.cancelled = @ \cup {l}, !.gone = b]
    BY DEF PurchaseDocs, Headers
  <2>3. LineCancelled(d, l) = [d EXCEPT !.lines[l] = 0, !.header = h]
    BY <2>1, <2>2 DEF LineCancelled, PurchaseDocs, Headers
  <2>4. 0 \in 0..MaxQty
    BY PoAssumption
  <2>. QED  BY <2>3, <2>4 DEF PurchaseDocs
<1>. QED  BY <1>1, <1>2, <1>3, <1>4, <1>5, <1>6

-----------------------------------------------------------------------------
(* A purchase order: type correctness, and what every document in use is.      *)

\* A merge takes one of the two copies as it is, or makes a mixed one.
LEMMA MergedDocs ==
    ASSUME NEW b \in PurchaseDocs, NEW m \in PurchaseDocs, NEW t \in PurchaseDocs, NEW d \in Merged(b, m, t)
    PROVE  d \in PurchaseDocs /\ (d = m \/ d = t \/ d.mixed)
<1>1. PICK e \in [header : Picks(b.header, m.header, t.header),
                  lines : {g \in [PoLines -> 0..MaxQty] :
                              \A l \in PoLines : g[l] \in Picks(b.lines[l], m.lines[l], t.lines[l])},
                  got : {m.got \cup t.got},
                  mixed : {TRUE}] :
         d = IF [e EXCEPT !.mixed = m.mixed] = m THEN m ELSE IF [e EXCEPT !.mixed = t.mixed] = t THEN t ELSE e
  BY DEF Merged
<1>2. e \in PurchaseDocs /\ e.mixed
  <2>1. e.header \in Headers
    <3>1. e.header \in Picks(b.header, m.header, t.header)
      BY <1>1
    <3>. QED  BY <3>1 DEF Picks, PurchaseDocs
  <2>2. e.got \in SUBSET PoLines
    BY <1>1 DEF PurchaseDocs
  <2>. QED  BY <1>1, <2>1, <2>2 DEF PurchaseDocs
<1>. QED  BY <1>1, <1>2

\* The working copy on somebody's desk.
Desks == [who : Clerks, base : DOMAIN revisions, copy : PurchaseDocs, edits : 0..MaxEdits]

\* While a window works there is room for its save.
PoInv == PoTypeOK /\ (desk # NoDesk => Len(revisions) < MaxPoSaves)

\* What a step in the window makes of its copy: one of the actions' documents, of a copy whose order stands.
Edits(d) ==
    \/ \E k \in Ranks : d = Released(Copy, desk.who, k)
    \/ Suffice(LevelsOf(Copy.header.approvals), Copy) /\ d = [Copy EXCEPT !.header.approved = TRUE]
    \/ Copy.header.approved /\ d = [Copy EXCEPT !.header.sent = TRUE]
    \/ \E l \in PoLines, q \in 1..MaxQty : d = Changed(Copy, l, q)
    \/ \E l \in PoLines : d = [Copy EXCEPT !.got = @ \cup {l}]
    \/ \E l \in PoLines : d = LineCancelled(Copy, l)
    \/ \E x \in Releases, approved \in BOOLEAN :
          d = [Copy EXCEPT !.header.approvals = IF x \in @ THEN @ \ {x} ELSE @ \cup {x},
                           !.header.approved = approved, !.mixed = TRUE]

\* Every action on an order is one of these, in a window that has one.
LEMMA BuyingEdits ==
    ASSUME PoTypeOK, Buying
    PROVE  /\ desk \in Desks /\ ~Copy.header.gone
           /\ \E d \in PurchaseDocs : Edits(d) /\ Works(d)
<1>1. desk \in Desks /\ ~Copy.header.gone
  BY DEF PoTypeOK, Buying, ReleaseLevel, Clear, SendOrder, ChangeLine, ReceiveLine, CancelLine, WriteByHand,
         OnTheOrder, Desks
<1>2. PICK c \in PurchaseDocs : c = Copy
  BY <1>1 DEF Desks, Copy
<1>3. \E d : Edits(d) /\ Works(d)
  BY PoAssumption DEF Buying, ReleaseLevel, Clear, SendOrder, ChangeLine, ReceiveLine, CancelLine, WriteByHand, Edits, Open
<1>4. \A d : Edits(d) => d \in PurchaseDocs
  <2>1. \A q \in 1..MaxQty : q \in 0..MaxQty
    BY PoAssumption
  <2>2. desk.who \in Clerks
    BY <1>1 DEF Desks
  <2>. SUFFICES ASSUME NEW d, Edits(d) PROVE d \in PurchaseDocs
    OBVIOUS
  <2>3. ASSUME NEW k \in Ranks, d = Released(Copy, desk.who, k) PROVE d \in PurchaseDocs
    BY <1>2, <2>2, <2>3, EditedDocs
  <2>4. ASSUME d = [Copy EXCEPT !.header.approved = TRUE] PROVE d \in PurchaseDocs
    BY <1>2, <2>4, EditedDocs
  <2>5. ASSUME d = [Copy EXCEPT !.header.sent = TRUE] PROVE d \in PurchaseDocs
    BY <1>2, <2>5, EditedDocs
  <2>6. ASSUME NEW l \in PoLines, NEW q \in 1..MaxQty, d = Changed(Copy, l, q) PROVE d \in PurchaseDocs
    BY <1>2, <2>1, <2>6, EditedDocs
  <2>7. ASSUME NEW l \in PoLines, d = [Copy EXCEPT !.got = @ \cup {l}] PROVE d \in PurchaseDocs
    BY <1>2, <2>7, EditedDocs
  <2>8. ASSUME NEW l \in PoLines, d = LineCancelled(Copy, l) PROVE d \in PurchaseDocs
    BY <1>2, <2>8, EditedDocs
  <2>9. ASSUME NEW x \in Releases, NEW approved \in BOOLEAN,
               d = [Copy EXCEPT !.header.approvals = IF x \in @ THEN @ \ {x} ELSE @ \cup {x},
                                !.header.approved = approved, !.mixed = TRUE]
        PROVE  d \in PurchaseDocs
    BY <1>2, <2>9 DEF PurchaseDocs, Headers
  <2>. QED  BY <2>3, <2>4, <2>5, <2>6, <2>7, <2>8, <2>9 DEF Edits
<1>. QED  BY <1>1, <1>3, <1>4

\* What a save keeps.
LEMMA SavedDocs ==
    ASSUME PoInv, SavePo \/ MergePo \/ PutBackPo
    PROVE  \E d \in PurchaseDocs :
              /\ Keeps(d) /\ Len(revisions) < MaxPoSaves
              /\ \/ \E r \in DOMAIN revisions : d = revisions[r]
                 \/ desk \in Desks /\ Guarded(Latest, d, desk.who) /\ (d = Copy \/ d.mixed)
<1>1. /\ revisions \in Seq(PurchaseDocs) /\ Len(revisions) \in Nat \ {0} /\ Latest \in PurchaseDocs
      /\ Latest = revisions[Len(revisions)] /\ Len(revisions) \in DOMAIN revisions
      /\ \A r \in DOMAIN revisions : revisions[r] \in PurchaseDocs
  BY DEF PoInv, PoTypeOK, Latest
<1>2. CASE SavePo
  <2>1. desk \in Desks
    BY <1>2 DEF PoInv, PoTypeOK, SavePo, Desks
  <2>. QED  BY <1>2, <2>1 DEF SavePo, PoInv, Desks, Copy
<1>3. CASE MergePo
  <2>1. desk \in Desks /\ Copy \in PurchaseDocs
    BY <1>3 DEF PoInv, PoTypeOK, MergePo, Desks, Copy
  <2>2. PICK d \in Merged(revisions[desk.base], Copy, Latest) : Guarded(Latest, d, desk.who) /\ Keeps(d)
    BY <1>3 DEF MergePo
  <2>3. d \in PurchaseDocs /\ (d = Copy \/ d = Latest \/ d.mixed)
    <3>1. revisions[desk.base] \in PurchaseDocs
      BY <1>1, <2>1 DEF Desks
    <3>. QED  BY <1>1, <2>1, <2>2, <3>1, MergedDocs
  <2>. QED  BY <1>1, <1>3, <2>1, <2>2, <2>3 DEF MergePo, PoInv
<1>4. CASE PutBackPo
  BY <1>1, <1>4 DEF PutBackPo
<1>. QED  BY <1>2, <1>3, <1>4

\* A save adds a revision at the end, or none.
LEMMA KeepsRevision ==
    ASSUME revisions \in Seq(PurchaseDocs), Len(revisions) \in Nat \ {0}, NEW d \in PurchaseDocs, Keeps(d)
    PROVE  /\ revisions' \in Seq(PurchaseDocs)
           /\ Len(revisions') \in Len(revisions)..(Len(revisions) + 1)
           /\ \A r \in DOMAIN revisions' : revisions'[r] = d \/ (r \in DOMAIN revisions /\ revisions'[r] = revisions[r])
BY DEF Keeps

LEMMA PurchaseOrderInv == PoSpec => []PoInv
<1>1. PoInit => PoInv
  <2>. SUFFICES ASSUME PoInit PROVE PoInv
    OBVIOUS
  <2>1. PICK d \in PurchaseDocs : revisions = <<d>> /\ desk = NoDesk
    <3>1. PICK f \in [PoLines -> 1..MaxQty] :
             LET d == [header |-> [approvals |-> {}, approved |-> TRUE, sent |-> FALSE, cancelled |-> {}, gone |-> FALSE],
                       lines |-> f, got |-> {}, mixed |-> FALSE]
             IN revisions = <<[d EXCEPT !.header.approved = Suffice({}, d)]>>
      BY DEF PoInit
    <3>2. f \in [PoLines -> 0..MaxQty]
      BY PoAssumption
    <3>. DEFINE d == [header |-> [approvals |-> {}, approved |-> TRUE, sent |-> FALSE, cancelled |-> {}, gone |-> FALSE],
                      lines |-> f, got |-> {}, mixed |-> FALSE]
    <3>3. d \in PurchaseDocs
      BY <3>2 DEF PurchaseDocs, Headers
    <3>4. PICK b \in BOOLEAN : b = Suffice({}, d)
      BY DEF Suffice
    <3>5. [d EXCEPT !.header.approved = b] \in PurchaseDocs
      BY <3>3 DEF PurchaseDocs, Headers
    <3>. QED  BY <3>1, <3>4, <3>5 DEF PoInit
  <2>. QED  BY <2>1, PoAssumption DEF PoInv, PoTypeOK
<1>2. PoInv /\ [PoNext]_poVars => PoInv'
  <2>. SUFFICES ASSUME PoInv, [PoNext]_poVars PROVE PoInv'
    OBVIOUS
  <2>0. revisions \in Seq(PurchaseDocs) /\ Len(revisions) \in 1..MaxPoSaves /\ MaxPoSaves \in Nat
        /\ DOMAIN revisions = 1..Len(revisions)
    BY PoAssumption DEF PoInv, PoTypeOK
  <2>1. CASE Buying
    <3>1. PICK d \in PurchaseDocs : Works(d) /\ desk \in Desks
      BY <2>1, BuyingEdits DEF PoInv
    <3>2. desk # NoDesk
      BY <2>1 DEF Buying, ReleaseLevel, Clear, SendOrder, ChangeLine, ReceiveLine, CancelLine, WriteByHand, OnTheOrder
    <3>3. desk' \in Desks /\ UNCHANGED revisions
      <4>1. PICK e \in 0..MaxEdits : e = desk.edits + 1
        BY <3>1, PoAssumption DEF Works, Desks
      <4>2. desk' = [desk EXCEPT !.copy = d, !.edits = e] /\ UNCHANGED revisions
        BY <3>1, <4>1 DEF Works
      <4>. QED  BY <3>1, <4>2 DEF Desks
    <3>. QED  BY <3>2, <3>3 DEF PoInv, PoTypeOK, Desks
  <2>2. CASE SavePo \/ MergePo \/ PutBackPo
    <3>1. PICK d \in PurchaseDocs : Keeps(d) /\ Len(revisions) < MaxPoSaves
      BY <2>2, SavedDocs
    <3>2. desk' = NoDesk /\ revisions' \in Seq(PurchaseDocs) /\ Len(revisions') \in Len(revisions)..(Len(revisions) + 1)
      BY <2>0, <3>1, KeepsRevision DEF Keeps
    <3>. QED  BY <2>0, <3>1, <3>2 DEF PoInv, PoTypeOK
  <2>3. CASE OpenPo
    <3>1. PICK p \in Clerks, r \in DOMAIN revisions :
             desk' = [who |-> p, base |-> r, copy |-> revisions[r], edits |-> 0]
      BY <2>3 DEF OpenPo
    <3>2. revisions[r] \in PurchaseDocs /\ 0 \in 0..MaxEdits
      BY <2>0, <3>1, PoAssumption
    <3>3. desk' \in Desks
      BY <3>1, <3>2 DEF Desks
    <3>. QED  BY <2>0, <2>3, <3>3 DEF OpenPo, PoInv, PoTypeOK, Desks
  <2>4. CASE LeavePo
    BY <2>4 DEF LeavePo, PoInv, PoTypeOK
  <2>5. CASE UNCHANGED poVars
    BY <2>5 DEF poVars, PoInv, PoTypeOK
  <2>. QED  BY <2>1, <2>2, <2>3, <2>4, <2>5 DEF PoNext, Saving
<1>. QED  BY <1>1, <1>2, PTL DEF PoSpec

\* Every revision and every window's copy is a document, and there are no more revisions than the bound.
THEOREM PurchaseOrderType == PoSpec => []PoTypeOK
<1>1. PoInv => PoTypeOK
  BY DEF PoInv
<1>. QED  BY <1>1, PurchaseOrderInv, PTL

-----------------------------------------------------------------------------
(* A purchase order: nobody releases it at two levels.                        *)

Once(h) == \A x, y \in h.approvals : x.by = y.by => x = y

\* What the guard lets through over a revision released once by each is.
LEMMA GuardedOnce ==
    ASSUME NEW b, NEW d, NEW p, ~b.header.gone => Once(b.header), Guarded(b, d, p), ~d.header.gone
    PROVE  Once(d.header)
<1>1. CASE ~b.header.gone /\ (SameRelease(b, d) \/ TakenBack(b, d))
  BY <1>1 DEF Once, SameRelease, TakenBack
<1>2. CASE NotThere(b, d)
  BY <1>2 DEF Once, NotThere
<1>3. CASE Releasable(b, d, p)
  \* What was there before is of different people; the one added is of nobody of them.
  <2>. DEFINE before == IF b.header.gone THEN {} ELSE b.header.approvals
              kept == d.header.approvals \cap before
              new == d.header.approvals \ before
  <2>1. /\ \A x, y \in new : x = y
        /\ \A x \in new : x.by = p /\ p \notin GiversOf(kept)
    BY <1>3 DEF Releasable
  <2>2. \A x, y \in kept : x.by = y.by => x = y
    BY DEF Once
  <2>3. \A x \in new, y \in kept : x.by # y.by
    BY <2>1 DEF GiversOf
  <2>4. \A x \in d.header.approvals : x \in new \/ x \in kept
    OBVIOUS
  <2>. HIDE DEF new, kept
  <2>. QED  BY <2>1, <2>2, <2>3, <2>4 DEF Once
<1>. QED  BY <1>1, <1>2, <1>3 DEF Guarded

\* While an order stands each person has released it at one level at most, in every revision, whatever the saves
\* carried, however they were merged and whichever revision was put back (guards.py check_releases).
THEOREM NobodyTwice == PoSpec => []NobodyReleasesTwice
<1>. DEFINE Inv == \A r \in DOMAIN revisions : ~revisions[r].header.gone => Once(revisions[r].header)
<1>1. PoInit => Inv
  <2>. SUFFICES ASSUME PoInit PROVE Inv
    OBVIOUS
  <2>1. PICK f : LET d == [header |-> [approvals |-> {}, approved |-> TRUE, sent |-> FALSE, cancelled |-> {}, gone |-> FALSE],
                           lines |-> f, got |-> {}, mixed |-> FALSE]
                 IN revisions = <<[d EXCEPT !.header.approved = Suffice({}, d)]>>
    BY DEF PoInit
  <2>. QED  BY <2>1 DEF Once
<1>2. PoInv /\ Inv /\ [PoNext]_poVars => Inv'
  <2>. SUFFICES ASSUME PoInv, Inv, [PoNext]_poVars PROVE Inv'
    OBVIOUS
  <2>1. CASE UNCHANGED revisions
    BY <2>1
  <2>2. CASE SavePo \/ MergePo \/ PutBackPo
    <3>1. PICK d \in PurchaseDocs : Keeps(d) /\ (~d.header.gone => Once(d.header))
      <4>1. PICK d \in PurchaseDocs : Keeps(d) /\ ((\E r \in DOMAIN revisions : d = revisions[r])
                                                   \/ Guarded(Latest, d, desk.who))
        BY <2>2, SavedDocs
      <4>2. ~Latest.header.gone => Once(Latest.header)
        BY DEF PoInv, PoTypeOK, Latest
      <4>3. ~d.header.gone => Once(d.header)
        <5>1. CASE \E r \in DOMAIN revisions : d = revisions[r]
          BY <5>1
        <5>2. CASE Guarded(Latest, d, desk.who)
          BY <4>2, <5>2, GuardedOnce
        <5>. QED  BY <4>1, <5>1, <5>2
      <4>. QED  BY <4>1, <4>3
    <3>2. \A r \in DOMAIN revisions' : revisions'[r] = d \/ (r \in DOMAIN revisions /\ revisions'[r] = revisions[r])
      BY <3>1, KeepsRevision DEF PoInv, PoTypeOK
    <3>. QED  BY <3>1, <3>2
  <2>3. CASE Buying
    <3>1. UNCHANGED revisions
      BY <2>3, BuyingEdits DEF PoInv, Works
    <3>. QED  BY <2>1, <3>1
  <2>. QED  BY <2>1, <2>2, <2>3 DEF PoNext, Saving, OpenPo, LeavePo, poVars
<1>3. Inv => NobodyReleasesTwice
  BY DEF NobodyReleasesTwice, Once
<1>4. PoSpec => []PoInv
  BY PurchaseOrderInv
<1>. QED  BY <1>1, <1>2, <1>3, <1>4, PTL DEF PoSpec

-----------------------------------------------------------------------------
(* A purchase order: released only as far as its value was.                    *)

\* An order its own people's actions made is marked released when its levels suffice.
AsRaised(d) ==
    ~d.mixed /\ ~d.header.gone /\ d.header.approved => Suffice(LevelsOf(d.header.approvals), d)

LEMMA EditsAsRaised ==
    ASSUME NEW d \in PurchaseDocs, desk \in Desks, ~Copy.header.gone, AsRaised(Copy), Edits(d)
    PROVE  AsRaised(d)
<1>. DEFINE c == Copy
<1>0. c \in PurchaseDocs
  BY DEF Desks, Copy
<1>a. ASSUME d.lines = c.lines, NEW S PROVE Suffice(S, d) = Suffice(S, c)
  BY <1>a DEF Suffice, Needed, Value
<1>1. ASSUME NEW k \in Ranks, d = Released(c, desk.who, k) PROVE AsRaised(d)
  <2>1. PICK h : h = [c.header EXCEPT !.approvals = @ \cup {[level |-> k, by |-> desk.who]},
                                      !.approved = Suffice(LevelsOf(c.header.approvals) \cup {k}, c)]
    OBVIOUS
  <2>2. d = [c EXCEPT !.header = h]
    BY <1>1, <2>1 DEF Released
  <2>3. d.lines = c.lines /\ d.header = h
    BY <1>0, <2>2 DEF PurchaseDocs
  <2>4. /\ h.approvals = c.header.approvals \cup {[level |-> k, by |-> desk.who]}
        /\ h.approved = Suffice(LevelsOf(c.header.approvals) \cup {k}, c)
    BY <1>0, <2>1 DEF PurchaseDocs, Headers
  <2>5. LevelsOf(h.approvals) = LevelsOf(c.header.approvals) \cup {k}
    <3>1. PICK r : r = [level |-> k, by |-> desk.who]
      OBVIOUS
    <3>2. h.approvals = c.header.approvals \cup {r}
      BY <2>4, <3>1
    <3>. QED  BY <3>1, <3>2 DEF LevelsOf
  <2>6. d.header.approved => Suffice(LevelsOf(d.header.approvals), c)
    BY <2>3, <2>4, <2>5
  <2>. QED  BY <1>a, <2>3, <2>6 DEF AsRaised
<1>2. ASSUME Suffice(LevelsOf(c.header.approvals), c), d = [c EXCEPT !.header.approved = TRUE] PROVE AsRaised(d)
  <2>1. d.lines = c.lines /\ d.header.approvals = c.header.approvals
    BY <1>0, <1>2 DEF PurchaseDocs, Headers
  <2>. QED  BY <1>2, <1>a, <2>1 DEF AsRaised
<1>3. ASSUME d = [c EXCEPT !.header.sent = TRUE] PROVE AsRaised(d)
  <2>1. /\ d.lines = c.lines /\ d.header.approvals = c.header.approvals /\ d.header.approved = c.header.approved
        /\ d.mixed = c.mixed
    BY <1>0, <1>3 DEF PurchaseDocs, Headers
  <2>. QED  BY <1>a, <2>1 DEF AsRaised
<1>4. ASSUME NEW l \in PoLines, NEW q \in 1..MaxQty, d = Changed(c, l, q) PROVE AsRaised(d)
  <2>1. PICK new \in PurchaseDocs : new = [c EXCEPT !.lines[l] = q]
    <3>1. q \in 0..MaxQty
      BY PoAssumption
    <3>. QED  BY <1>0, <3>1 DEF PurchaseDocs
  <2>2. CASE Needed(new) # {} /\ Value(new) > Value(c)
    \* Worth more, above a limit: not released any more.
    <3>1. d = [new EXCEPT !.header.approved = FALSE, !.header.sent = FALSE, !.header.approvals = {}]
      BY <1>4, <2>1, <2>2 DEF Changed
    <3>2. ~d.header.approved
      BY <3>1 DEF PurchaseDocs, Headers
    <3>. QED  BY <3>2 DEF AsRaised
  <2>3. CASE ~(Needed(new) # {} /\ Value(new) > Value(c))
    <3>1. d = new
      BY <1>4, <2>1, <2>3 DEF Changed
    <3>2. d.header = c.header /\ d.mixed = c.mixed
      BY <1>0, <2>1, <3>1 DEF PurchaseDocs
    <3>3. Needed(d) \subseteq Needed(c)
      BY <1>0, <2>3, <3>1, ValueInt, PoAssumption DEF Needed, Ranks
    <3>. QED  BY <3>2, <3>3 DEF AsRaised, Suffice
  <2>. QED  BY <2>2, <2>3
<1>5. ASSUME NEW l \in PoLines, d = [c EXCEPT !.got = @ \cup {l}] PROVE AsRaised(d)
  <2>1. d.lines = c.lines /\ d.header = c.header /\ d.mixed = c.mixed
    BY <1>0, <1>5 DEF PurchaseDocs
  <2>. QED  BY <1>a, <2>1 DEF AsRaised
<1>6. ASSUME NEW l \in PoLines, d = LineCancelled(c, l) PROVE AsRaised(d)
  <2>1. PICK h : h = [c.header EXCEPT !.cancelled = @ \cup {l}, !.gone = LastLine(c, l)]
    OBVIOUS
  <2>2. d = [c EXCEPT !.lines[l] = 0, !.header = h]
    BY <1>6, <2>1 DEF LineCancelled
  <2>3. d.header = h /\ d.mixed = c.mixed
    BY <1>0, <2>2 DEF PurchaseDocs
  <2>4. h.approvals = c.header.approvals /\ h.approved = c.header.approved
    BY <1>0, <2>1 DEF PurchaseDocs, Headers
  <2>5. Value(d) <= Value(c) /\ Value(c) \in Int /\ Value(d) \in Int
    BY <1>0, <1>6, CancelledIsLess, ValueInt
  <2>6. Needed(d) \subseteq Needed(c)
    BY <2>5, PoAssumption DEF Needed, Ranks
  <2>. QED  BY <2>3, <2>4, <2>6 DEF AsRaised, Suffice
<1>7. ASSUME d.mixed PROVE AsRaised(d)
  BY <1>7 DEF AsRaised
<1>8. ASSUME NEW x \in Releases, NEW approved \in BOOLEAN,
             d = [c EXCEPT !.header.approvals = IF x \in @ THEN @ \ {x} ELSE @ \cup {x},
                           !.header.approved = approved, !.mixed = TRUE]
      PROVE  d.mixed
  BY <1>0, <1>8 DEF PurchaseDocs
<1>. QED  BY <1>1, <1>2, <1>3, <1>4, <1>5, <1>6, <1>7, <1>8 DEF Edits

\* An order that its own people's actions made, saved, is marked released only when the levels its value needs were
\* given, however it was raised, changed back, released and put back (purchasing change_line; guards.py).
THEOREM ReleasedForItsValue == PoSpec => []ReleasedAsRaised
<1>. DEFINE Inv == /\ \A r \in DOMAIN revisions : AsRaised(revisions[r])
                   /\ desk # NoDesk => AsRaised(Copy)
<1>1. PoInit => Inv
  <2>. SUFFICES ASSUME PoInit PROVE Inv
    OBVIOUS
  <2>1. PICK f : LET d == [header |-> [approvals |-> {}, approved |-> TRUE, sent |-> FALSE, cancelled |-> {}, gone |-> FALSE],
                           lines |-> f, got |-> {}, mixed |-> FALSE]
                 IN revisions = <<[d EXCEPT !.header.approved = Suffice({}, d)]>>
    BY DEF PoInit
  <2>2. PICK d : d = [header |-> [approvals |-> {}, approved |-> TRUE, sent |-> FALSE, cancelled |-> {}, gone |-> FALSE],
                      lines |-> f, got |-> {}, mixed |-> FALSE]
    OBVIOUS
  <2>3. PICK e : e = [d EXCEPT !.header.approved = Suffice({}, d)] /\ revisions = <<e>>
    BY <2>1, <2>2
  <2>4. e.lines = d.lines /\ e.header.approvals = {} /\ (e.header.approved = Suffice({}, d))
    BY <2>2, <2>3
  <2>5. LevelsOf(e.header.approvals) = {}
    BY <2>4 DEF LevelsOf
  <2>6. Suffice({}, d) => Suffice({}, e)
    BY <2>4 DEF Suffice, Needed, Value
  <2>7. AsRaised(e)
    BY <2>4, <2>5, <2>6 DEF AsRaised
  <2>8. \A r \in DOMAIN revisions : revisions[r] = e
    BY <2>3
  <2>9. desk = NoDesk
    BY DEF PoInit
  <2>. QED  BY <2>7, <2>8, <2>9
<1>2. PoInv /\ Inv /\ [PoNext]_poVars => Inv'
  <2>. SUFFICES ASSUME PoInv, Inv, [PoNext]_poVars PROVE Inv'
    OBVIOUS
  <2>1. CASE Buying
    <3>1. PICK d \in PurchaseDocs : Edits(d) /\ Works(d) /\ desk \in Desks /\ ~Copy.header.gone
      BY <2>1, BuyingEdits DEF PoInv
    <3>2. desk # NoDesk
      BY <2>1 DEF Buying, ReleaseLevel, Clear, SendOrder, ChangeLine, ReceiveLine, CancelLine, WriteByHand, OnTheOrder
    <3>3. AsRaised(d)
      BY <3>1, <3>2, EditsAsRaised
    <3>4. Copy' = d /\ UNCHANGED revisions
      BY <3>1 DEF Works, Copy, Desks
    <3>5. AsRaised(Copy)'
      BY <3>3, <3>4 DEF AsRaised, Suffice, Needed, Value
    <3>. QED  BY <3>4, <3>5 DEF AsRaised, Suffice, Needed, Value
  <2>2. CASE SavePo \/ MergePo \/ PutBackPo
    <3>1. PICK d \in PurchaseDocs : /\ Keeps(d)
                                   /\ \/ \E r \in DOMAIN revisions : d = revisions[r]
                                      \/ desk \in Desks /\ (d = Copy \/ d.mixed)
      BY <2>2, SavedDocs
    <3>2. AsRaised(d)
      <4>1. CASE \E r \in DOMAIN revisions : d = revisions[r]
        BY <4>1
      <4>2. CASE d = Copy /\ desk # NoDesk
        BY <4>2
      <4>3. CASE d.mixed
        BY <4>3 DEF AsRaised
      <4>4. desk \in Desks => desk # NoDesk
        BY DEF Desks, NoDesk
      <4>. QED  BY <3>1, <4>1, <4>2, <4>3, <4>4
    <3>3. \A r \in DOMAIN revisions' : revisions'[r] = d \/ (r \in DOMAIN revisions /\ revisions'[r] = revisions[r])
      BY <3>1, KeepsRevision DEF PoInv, PoTypeOK
    <3>4. desk' = NoDesk
      BY <3>1 DEF Keeps
    <3>. QED  BY <3>2, <3>3, <3>4
  <2>3. CASE OpenPo
    <3>1. PICK p \in Clerks, r \in DOMAIN revisions :
             desk' = [who |-> p, base |-> r, copy |-> revisions[r], edits |-> 0]
      BY <2>3 DEF OpenPo
    <3>2. Copy' = revisions[r] /\ UNCHANGED revisions
      BY <2>3, <3>1 DEF Copy, OpenPo
    <3>. QED  BY <3>2
  <2>4. CASE LeavePo
    BY <2>4 DEF LeavePo
  <2>5. CASE UNCHANGED poVars
    BY <2>5 DEF poVars, Copy
  <2>. QED  BY <2>1, <2>2, <2>3, <2>4, <2>5 DEF PoNext, Saving
<1>3. Inv => ReleasedAsRaised
  BY DEF ReleasedAsRaised, AsRaised
<1>4. PoSpec => []PoInv
  BY PurchaseOrderInv
<1>. QED  BY <1>1, <1>2, <1>3, <1>4, PTL DEF PoSpec

-----------------------------------------------------------------------------
(* A line of a purchase order.                                                *)

NothingUndone == \A i \in DOMAIN postings : ~postings[i].undone

\* While nothing was taken back: no more went back than came, and the open line waits for what was agreed, or,
\* credited more than the whole of it, for nothing.
LineInv ==
    /\ LineTypeOK
    /\ NothingUndone =>
          /\ NetReceived >= 0
          /\ poLine.open => Outstanding = awaited \/ (poLine.target = 0 /\ awaited <= Outstanding)

LEMMA NetInt ==
    ASSUME NEW s \in Seq(Postings)
    PROVE  SumFunction([i \in DOMAIN s |-> Counted(s[i])]) \in Int
<1>1. PICK f : f = [i \in DOMAIN s |-> Counted(s[i])]
  OBVIOUS
<1>2. IsFiniteSet(DOMAIN f) /\ \A x \in DOMAIN f : f[x] \in Int
  <2>1. \A x \in DOMAIN s : s[x] \in Postings
    OBVIOUS
  <2>2. \A p \in Postings : Counted(p) \in Int
    BY PurchaseLineAssumption DEF Postings, Counted, Pieces
  <2>3. IsFiniteSet(DOMAIN s)
    BY Places
  <2>. QED  BY <1>1, <2>1, <2>2, <2>3
<1>3. SumFunctionOnSet(f, DOMAIN f) \in Int
  BY <1>2, SumInt
<1>. QED  BY <1>1, <1>3 DEF SumFunction

LEMMA NetNext ==
    ASSUME NEW s \in Seq(Postings), NEW p \in Postings, NEW t, t = Append(s, p)
    PROVE  SumFunction([i \in DOMAIN t |-> Counted(t[i])]) = SumFunction([i \in DOMAIN s |-> Counted(s[i])]) + Counted(p)
<1>1. PICK f, g : f = [i \in DOMAIN s |-> Counted(s[i])] /\ g = [i \in DOMAIN t |-> Counted(t[i])]
  OBVIOUS
<1>2. PICK n \in Nat : n = Len(s)
  OBVIOUS
<1>3. /\ DOMAIN s = 1..n /\ DOMAIN t = 1..(n + 1) /\ t[n + 1] = p
      /\ \A k \in DOMAIN s : t[k] = s[k] /\ k \in DOMAIN t
  BY <1>2, OneMore
<1>4. /\ \A x \in 1..n : f[x] \in Int /\ g[x] = f[x]
      /\ g[n + 1] = Counted(p) /\ g[n + 1] \in Int
  <2>1. \A x \in 1..n : s[x] \in Postings
    BY <1>2
  <2>2. \A q \in Postings : Counted(q) \in Int
    BY PurchaseLineAssumption DEF Postings, Counted, Pieces
  <2>3. n + 1 \in DOMAIN t
    BY <1>3
  <2>. QED  BY <1>1, <1>3, <2>1, <2>2, <2>3
<1>5. SumFunctionOnSet(g, 1..(n + 1)) = SumFunctionOnSet(f, 1..n) + g[n + 1]
  BY <1>4, SumNext
<1>6. DOMAIN f = 1..n /\ DOMAIN g = 1..(n + 1)
  BY <1>1, <1>3
<1>. QED  BY <1>1, <1>4, <1>5, <1>6 DEF SumFunction

\* A posting more: what is received, and whether a final receipt stands.
LEMMA PostingNext ==
    ASSUME LineTypeOK, NEW p \in Postings, ~p.undone, Posts(p)
    PROVE  /\ postings' \in Seq(Postings) /\ Len(postings') <= MaxPostings
           /\ NothingUndone' <=> NothingUndone
           /\ NetReceived \in Int
           /\ NetReceived' = NetReceived + (IF p.kind = "receipt" THEN p.qty ELSE -p.qty)
           /\ FinalStands' <=> IF p.kind = "receipt" THEN p.final \/ FinalStands ELSE p.kind = "credit" /\ FinalStands
<1>1. postings \in Seq(Postings) /\ postings' = Append(postings, p) /\ Len(postings) < MaxPostings
  BY DEF LineTypeOK, Posts
<1>2. PICK n \in Nat, t \in Seq(Postings) : n = Len(postings) /\ t = postings'
  BY <1>1
<1>3. /\ DOMAIN postings = 1..n /\ DOMAIN t = 1..(n + 1) /\ t[n + 1] = p /\ Len(t) = n + 1
      /\ \A k \in DOMAIN postings : t[k] = postings[k]
  BY <1>1, <1>2, OneMore
<1>4. postings' \in Seq(Postings) /\ Len(postings') <= MaxPostings
  BY <1>1, <1>2, <1>3, PurchaseLineAssumption
<1>5. NothingUndone' <=> NothingUndone
  BY <1>2, <1>3 DEF NothingUndone
<1>6. NetReceived \in Int /\ NetReceived' = NetReceived + Counted(p)
  BY <1>1, NetInt, NetNext DEF NetReceived
<1>7. FinalStands' <=> IF p.kind = "receipt" THEN p.final \/ FinalStands ELSE p.kind = "credit" /\ FinalStands
  <2>1. /\ p.kind = "receipt" => StandingOf({"receipt"})' = StandingOf({"receipt"}) \cup {n + 1}
        /\ p.kind # "receipt" => StandingOf({"receipt"})' = StandingOf({"receipt"})
    BY <1>2, <1>3 DEF StandingOf
  <2>2. /\ p.kind = "replace" => StandingOf({"replace"})' = StandingOf({"replace"}) \cup {n + 1}
        /\ p.kind # "replace" => StandingOf({"replace"})' = StandingOf({"replace"})
    BY <1>2, <1>3 DEF StandingOf
  <2>3. StandingOf({"receipt"}) \subseteq 1..n /\ StandingOf({"replace"}) \subseteq 1..n
    BY <1>3 DEF StandingOf
  <2>4. p.kind \in {"receipt", "replace", "credit"}
    BY DEF Postings
  <2>5. FinalStands' <=> \E i \in StandingOf({"receipt"})' : t[i].final /\ \A j \in StandingOf({"replace"})' : j < i
    BY <1>2 DEF FinalStands
  <2>6. CASE p.kind = "receipt"
    <3>1. \A j \in StandingOf({"replace"})' : j < n + 1
      BY <2>2, <2>3, <2>6
    <3>. QED  BY <1>3, <2>1, <2>2, <2>3, <2>5, <2>6, <3>1 DEF FinalStands
  <2>7. CASE p.kind = "replace"
    <3>1. \A i \in StandingOf({"receipt"})' : ~(n + 1 < i)
      BY <2>1, <2>3, <2>7
    <3>. QED  BY <2>1, <2>2, <2>3, <2>5, <2>7, <3>1
  <2>8. CASE p.kind = "credit"
    BY <1>3, <2>1, <2>2, <2>3, <2>5, <2>8 DEF FinalStands
  <2>. QED  BY <2>4, <2>6, <2>7, <2>8
<1>. QED  BY <1>4, <1>5, <1>6, <1>7 DEF Counted

-----------------------------------------------------------------------------
LEMMA LineInvInit == LineInit => LineInv
<1>. SUFFICES ASSUME LineInit PROVE LineInv
  OBVIOUS
<1>1. PICK q \in Pieces : poLine = [open |-> TRUE, ordered |-> q, target |-> q] /\ awaited = q /\ postings = <<>>
  BY DEF LineInit
<1>2. q \in 0..MostBought /\ q \in Nat
  BY PurchaseLineAssumption DEF Pieces
<1>3. LineTypeOK
  BY <1>1, <1>2, PurchaseLineAssumption DEF LineTypeOK
<1>4. NetReceived = 0
  <2>1. DOMAIN [i \in DOMAIN postings |-> Counted(postings[i])] = {}
    BY <1>1
  <2>. QED  BY <2>1, SumEmpty DEF NetReceived, SumFunction
<1>5. ~FinalStands
  BY <1>1 DEF FinalStands, StandingOf
<1>6. Outstanding = q
  BY <1>1, <1>2, <1>4, <1>5 DEF Outstanding
<1>. QED  BY <1>1, <1>3, <1>4, <1>6 DEF LineInv

\* Lines, and what is waited for, as numbers.
LEMMA LineNumbers ==
    ASSUME LineTypeOK
    PROVE  /\ poLine.open \in BOOLEAN /\ poLine.ordered \in Nat /\ poLine.target \in Nat
           /\ poLine.ordered <= MostBought /\ poLine.target <= MostBought
           /\ awaited \in Int /\ NetReceived \in Int
           /\ FinalStands => Outstanding = AtMost(poLine.target - NetReceived, 0)
           /\ ~FinalStands => Outstanding = poLine.target - NetReceived
           /\ DOMAIN poLine = {"open", "ordered", "target"}
BY NetInt, PurchaseLineAssumption DEF LineTypeOK, NetReceived, Outstanding

LEMMA Receiving ==
    ASSUME LineInv, ReceiveGoods
    PROVE  LineInv'
<1>1. PICK q \in Pieces, final \in BOOLEAN :
         /\ poLine.open /\ Posts(Posting("receipt", q, final)) /\ poLine' = poLine
         /\ awaited' = IF final \/ FinalStands THEN AtMost(poLine.target - NetReceived', 0) ELSE awaited - q
  BY DEF ReceiveGoods
<1>2. PICK p \in Postings : p = Posting("receipt", q, final) /\ ~p.undone /\ p.kind = "receipt" /\ p.qty = q /\ p.final = final
  <2>1. Posting("receipt", q, final) \in Postings
    BY DEF Posting, Postings
  <2>. QED  BY <2>1 DEF Posting
<1>3. /\ postings' \in Seq(Postings) /\ Len(postings') <= MaxPostings
      /\ NothingUndone' <=> NothingUndone
      /\ NetReceived' = NetReceived + q
      /\ FinalStands' <=> final \/ FinalStands
  BY <1>1, <1>2, PostingNext DEF LineInv
<1>4. q \in Nat
  BY PurchaseLineAssumption DEF Pieces
<1>5. /\ poLine.target \in Nat /\ NetReceived \in Int /\ awaited \in Int
      /\ FinalStands => Outstanding = AtMost(poLine.target - NetReceived, 0)
      /\ ~FinalStands => Outstanding = poLine.target - NetReceived
  BY LineNumbers DEF LineInv
<1>6. awaited' \in Int
  BY <1>1, <1>3, <1>4, <1>5 DEF AtMost
<1>7. LineTypeOK'
  BY <1>1, <1>3, <1>6 DEF LineInv, LineTypeOK
<1>8. /\ final \/ FinalStands => Outstanding' = AtMost(poLine.target - NetReceived', 0)
      /\ ~final /\ ~FinalStands => Outstanding' = poLine.target - NetReceived - q
  BY <1>1, <1>3, <1>4, <1>5 DEF Outstanding
<1>9. ASSUME NothingUndone'
      PROVE  NetReceived' >= 0 /\ (Outstanding' = awaited' \/ (poLine.target = 0 /\ awaited' <= Outstanding'))
  <2>1. NetReceived >= 0 /\ (Outstanding = awaited \/ (poLine.target = 0 /\ awaited <= Outstanding))
    BY <1>1, <1>3, <1>9 DEF LineInv
  <2>2. CASE final \/ FinalStands
    BY <1>1, <1>3, <1>4, <1>5, <1>8, <2>1, <2>2
  <2>3. CASE ~final /\ ~FinalStands
    BY <1>1, <1>3, <1>4, <1>5, <1>8, <2>1, <2>3
  <2>. QED  BY <2>2, <2>3
<1>. QED  BY <1>1, <1>7, <1>9 DEF LineInv

LEMMA Changing ==
    ASSUME LineInv, ChangeOrdered
    PROVE  LineInv'
<1>1. PICK q \in Pieces :
         /\ poLine.open /\ q >= NetReceived /\ poLine' = [poLine EXCEPT !.ordered = q, !.target = q]
         /\ awaited' = IF FinalStands THEN AtMost(q - NetReceived, 0) ELSE q - NetReceived
         /\ postings' = postings
  BY DEF ChangeOrdered
<1>2. NetReceived' = NetReceived /\ (FinalStands' <=> FinalStands) /\ (NothingUndone' <=> NothingUndone)
  BY <1>1 DEF NetReceived, FinalStands, NothingUndone, StandingOf
<1>3. q \in 0..MostBought /\ NetReceived \in Int /\ q \in Nat
  BY LineNumbers, PurchaseLineAssumption DEF LineInv, Pieces
<1>4. poLine' \in [open : BOOLEAN, ordered : 0..MostBought, target : 0..MostBought] /\ poLine'.target = q
  BY <1>1, <1>3 DEF LineInv, LineTypeOK
<1>5. Outstanding' = awaited'
  BY <1>1, <1>2, <1>3, <1>4 DEF Outstanding
<1>6. awaited' \in Int
  BY <1>1, <1>3 DEF AtMost
<1>7. LineTypeOK'
  BY <1>1, <1>4, <1>6 DEF LineInv, LineTypeOK
<1>. QED  BY <1>2, <1>5, <1>7 DEF LineInv

LEMMA Returning ==
    ASSUME LineInv, ReturnGoods
    PROVE  LineInv'
<1>1. PICK q \in Pieces, replace \in BOOLEAN :
         /\ q <= NetReceived /\ Posts(Posting(IF replace THEN "replace" ELSE "credit", q, FALSE))
         /\ poLine' = IF poLine.open THEN ReturnedLine(q, replace) ELSE poLine
         /\ awaited' = IF poLine.open /\ replace THEN awaited + q ELSE awaited
  BY DEF ReturnGoods
<1>2. PICK p \in Postings : /\ p = Posting(IF replace THEN "replace" ELSE "credit", q, FALSE)
                            /\ ~p.undone /\ p.kind = (IF replace THEN "replace" ELSE "credit") /\ p.qty = q
  <2>1. PICK kind \in {"replace", "credit"} : kind = (IF replace THEN "replace" ELSE "credit")
    OBVIOUS
  <2>2. Posting(kind, q, FALSE) \in Postings
    BY DEF Posting, Postings
  <2>. QED  BY <2>1, <2>2 DEF Posting
<1>3. /\ postings' \in Seq(Postings) /\ Len(postings') <= MaxPostings
      /\ NothingUndone' <=> NothingUndone
      /\ NetReceived' = NetReceived - q
      /\ FinalStands' <=> ~replace /\ FinalStands
  <2>0. q \in Nat /\ NetReceived \in Int
    BY LineNumbers, PurchaseLineAssumption DEF LineInv, Pieces
  <2>. QED  BY <1>1, <1>2, <2>0, PostingNext DEF LineInv
<1>4. q \in Nat
  BY PurchaseLineAssumption DEF Pieces
<1>5. /\ poLine.target \in Nat /\ poLine.ordered \in Nat /\ NetReceived \in Int /\ awaited \in Int
      /\ poLine.target <= MostBought /\ poLine.ordered <= MostBought
      /\ FinalStands => Outstanding = AtMost(poLine.target - NetReceived, 0)
      /\ ~FinalStands => Outstanding = poLine.target - NetReceived
      /\ poLine \in [open : BOOLEAN, ordered : 0..MostBought, target : 0..MostBought]
  BY LineNumbers DEF LineInv, LineTypeOK
<1>6. awaited' \in Int
  BY <1>1, <1>4, <1>5
<1>7. PICK target \in 0..MostBought, ordered \in 0..MostBought :
         /\ poLine' = [poLine EXCEPT !.ordered = ordered, !.target = target]
         /\ ~poLine.open => target = poLine.target
         /\ poLine.open /\ replace => target = IF FinalStands THEN AtMost(poLine.target, NetReceived) ELSE poLine.target
         /\ poLine.open /\ ~replace => target = poLine.target - AtMost(poLine.target, q)
  <2>1. CASE ~poLine.open
    BY <1>1, <1>5, <2>1
  <2>2. CASE poLine.open /\ ~replace
    <3>1. /\ poLine.target - AtMost(poLine.target, q) \in 0..MostBought
          /\ poLine.ordered - AtMost(poLine.ordered, q) \in 0..MostBought
      BY <1>4, <1>5, PurchaseLineAssumption DEF AtMost
    <3>2. poLine' = [poLine EXCEPT !.ordered = poLine.ordered - AtMost(poLine.ordered, q),
                                   !.target = poLine.target - AtMost(poLine.target, q)]
      BY <1>1, <1>5, <2>2 DEF ReturnedLine
    <3>. QED  BY <2>2, <3>1, <3>2
  <2>3. CASE poLine.open /\ replace /\ FinalStands
    <3>1. AtMost(poLine.target, NetReceived) \in 0..MostBought
      BY <1>1, <1>4, <1>5, PurchaseLineAssumption DEF AtMost
    <3>2. poLine' = [poLine EXCEPT !.ordered = poLine.ordered, !.target = AtMost(poLine.target, NetReceived)]
      BY <1>1, <1>5, <2>3 DEF ReturnedLine
    <3>3. poLine.ordered \in 0..MostBought
      BY <1>5
    <3>. QED  BY <2>3, <3>1, <3>2, <3>3
  <2>4. CASE poLine.open /\ replace /\ ~FinalStands
    BY <1>1, <1>5, <2>4 DEF ReturnedLine
  <2>. QED  BY <2>1, <2>2, <2>3, <2>4
<1>8. /\ poLine' \in [open : BOOLEAN, ordered : 0..MostBought, target : 0..MostBought]
      /\ poLine'.target = target /\ poLine'.open = poLine.open
  BY <1>5, <1>7
<1>9. LineTypeOK'
  BY <1>3, <1>6, <1>8 DEF LineTypeOK
<1>10. /\ FinalStands /\ ~replace => Outstanding' = AtMost(target - NetReceived + q, 0)
       /\ ~FinalStands \/ replace => Outstanding' = target - NetReceived + q
  <2>1. target \in Int
    BY <1>5
  <2>2. target - NetReceived' = target - NetReceived + q
    BY <1>3, <1>4, <1>5, <2>1
  <2>. QED  BY <1>3, <1>8, <2>2 DEF Outstanding
<1>11. ASSUME NothingUndone', poLine.open
       PROVE  Outstanding' = awaited' \/ (target = 0 /\ awaited' <= Outstanding')
  <2>1. NetReceived >= 0 /\ (Outstanding = awaited \/ (poLine.target = 0 /\ awaited <= Outstanding))
    BY <1>3, <1>11 DEF LineInv
  <2>2. target \in Nat
    BY <1>7
  <2>3. CASE replace
    BY <1>1, <1>4, <1>5, <1>7, <1>10, <1>11, <2>1, <2>2, <2>3 DEF AtMost
  <2>4. CASE ~replace
    BY <1>1, <1>4, <1>5, <1>7, <1>10, <1>11, <2>1, <2>2, <2>4 DEF AtMost
  <2>. QED  BY <2>3, <2>4
<1>12. NetReceived' >= 0
  BY <1>1, <1>3, <1>4, <1>5
<1>. QED  BY <1>8, <1>9, <1>11, <1>12 DEF LineInv

LEMMA LineInvStep == LineInv /\ [LineNext]_lineVars => LineInv'
<1>. SUFFICES ASSUME LineInv, [LineNext]_lineVars PROVE LineInv'
  OBVIOUS
<1>1. CASE ReversePosting
  <2>1. PICK i \in DOMAIN postings : /\ postings' = [postings EXCEPT ![i].undone = TRUE]
                                     /\ poLine' = [poLine EXCEPT !.open = TRUE] /\ awaited' = awaited
    BY <1>1 DEF ReversePosting
  <2>2. PICK p \in Postings : p = [postings[i] EXCEPT !.undone = TRUE] /\ p.undone
    <3>1. postings[i] \in Postings
      BY DEF LineInv, LineTypeOK
    <3>2. [postings[i] EXCEPT !.undone = TRUE] \in Postings /\ [postings[i] EXCEPT !.undone = TRUE].undone
      BY <3>1 DEF Postings
    <3>. QED  BY <3>2, Zenon
  <2>3. postings' = [postings EXCEPT ![i] = p]
    BY <2>1, <2>2
  <2>4. postings' \in Seq(Postings) /\ Len(postings') = Len(postings) /\ i \in DOMAIN postings' /\ postings'[i] = p
    BY <2>3 DEF LineInv, LineTypeOK
  <2>5. LineTypeOK'
    BY <2>1, <2>4 DEF LineInv, LineTypeOK
  <2>. QED  BY <2>2, <2>4, <2>5 DEF LineInv, NothingUndone
<1>2. CASE RollOver
  <2>1. poLine' = [poLine EXCEPT !.open = FALSE] /\ postings' = postings /\ awaited' = awaited
    BY <1>2 DEF RollOver
  <2>2. LineTypeOK' /\ ~poLine'.open
    BY <2>1 DEF LineInv, LineTypeOK
  <2>3. NetReceived' = NetReceived /\ (NothingUndone' <=> NothingUndone)
    BY <2>1 DEF NetReceived, NothingUndone
  <2>. QED  BY <2>2, <2>3 DEF LineInv
<1>3. CASE UNCHANGED lineVars
  BY <1>3 DEF lineVars, LineInv, LineTypeOK, NothingUndone, NetReceived, Outstanding, FinalStands, StandingOf
<1>. QED  BY <1>1, <1>2, <1>3, Receiving, Changing, Returning DEF LineNext

\* The order line and its postings are of their kinds whatever comes, goes back and is reversed.
THEOREM PurchaseLineType == LineSpec => []LineTypeOK
<1>1. LineInv => LineTypeOK
  BY DEF LineInv
<1>. QED  BY LineInvInit, LineInvStep, <1>1, PTL DEF LineSpec

\* While nothing was taken back, an open line waits for what deliveries, returns and changes agreed between them, for
\* any quantities and any number of postings.
THEOREM LineWaits == LineSpec => []WaitsForTheRest
<1>1. LineInv => WaitsForTheRest
  <2>. SUFFICES ASSUME LineInv, poLine.open, NothingUndone
                PROVE  Outstanding = awaited \/ (Outstanding <= 0 /\ awaited <= 0)
    BY DEF WaitsForTheRest, NothingUndone
  <2>1. /\ poLine.target \in Nat /\ NetReceived \in Int /\ awaited \in Int /\ NetReceived >= 0
        /\ FinalStands => Outstanding = AtMost(poLine.target - NetReceived, 0)
        /\ ~FinalStands => Outstanding = poLine.target - NetReceived
        /\ Outstanding = awaited \/ (poLine.target = 0 /\ awaited <= Outstanding)
    BY LineNumbers DEF LineInv
  <2>. QED  BY <2>1 DEF AtMost
<1>. QED  BY LineInvInit, LineInvStep, <1>1, PTL DEF LineSpec

-----------------------------------------------------------------------------
(* The supplier's invoices of a line.                                         *)

\* Quantities of invoices, over places of the list.
LEMMA QtySums ==
    ASSUME NEW s \in Seq(Invoices), NEW T, T \subseteq DOMAIN s
    PROVE  /\ IsFiniteSet(T) /\ \A x \in T : QtyOf(s)[x] = s[x].qty /\ QtyOf(s)[x] \in Nat
           /\ SumFunctionOnSet(QtyOf(s), T) \in Nat
           /\ \A U \in SUBSET T : SumFunctionOnSet(QtyOf(s), U) <= SumFunctionOnSet(QtyOf(s), T)
<1>1. IsFiniteSet(T) /\ \A x \in T : QtyOf(s)[x] = s[x].qty /\ QtyOf(s)[x] \in Nat
  <2>1. IsFiniteSet(T) /\ \A x \in T : x \in DOMAIN s /\ s[x] \in Invoices
    BY Places
  <2>2. \A v \in Invoices : v.qty \in Nat
    BY PayablesAssumption DEF Invoices
  <2>. QED  BY <2>1, <2>2 DEF QtyOf
<1>. HIDE DEF QtyOf
<1>. QED  BY <1>1, SumNat, SumMore

\* What is kept is a number.
LEMMA GoodsInt ==
    ASSUME NEW rs \in Seq(0..MostBilled), NEW sb \in Seq(ReturnsOf)
    PROVE  SumFunction(rs) - SumFunction(QtyOf(sb)) \in Int
<1>1. PICK f : f = QtyOf(sb)
  OBVIOUS
<1>2. IsFiniteSet(DOMAIN rs) /\ \A x \in DOMAIN rs : rs[x] \in Int
  BY Places, PayablesAssumption
<1>3. IsFiniteSet(DOMAIN f) /\ \A x \in DOMAIN f : f[x] \in Int
  <2>1. DOMAIN f = DOMAIN sb /\ \A x \in DOMAIN sb : f[x] = sb[x].qty
    BY <1>1 DEF QtyOf
  <2>2. IsFiniteSet(DOMAIN sb) /\ \A x \in DOMAIN sb : sb[x] \in ReturnsOf
    BY Places
  <2>3. \A v \in ReturnsOf : v.qty \in Int
    BY PayablesAssumption DEF ReturnsOf
  <2>. QED  BY <2>1, <2>2, <2>3
<1>4. SumFunctionOnSet(rs, DOMAIN rs) \in Int /\ SumFunctionOnSet(f, DOMAIN f) \in Int
  BY <1>2, <1>3, SumInt
<1>. QED  BY <1>1, <1>4 DEF SumFunction

\* The invoices of a list that stand, up to a place, and its credit memos.
LiveIn(s) == {k \in DOMAIN s : s[k].live /\ s[k].kind = "invoice"}
InTo(s, k) == SumFunctionOnSet(QtyOf(s), LiveIn(s) \cap (1..k))
MemosOf(s) == SumFunctionOnSet(QtyOf(s), {k \in DOMAIN s : s[k].kind = "memo"})

LEMMA InToNat ==
    ASSUME NEW s \in Seq(Invoices), NEW k
    PROVE  InTo(s, k) \in Nat /\ MemosOf(s) \in Nat
<1>1. LiveIn(s) \cap (1..k) \subseteq DOMAIN s /\ {j \in DOMAIN s : s[j].kind = "memo"} \subseteq DOMAIN s
  BY DEF LiveIn
<1>. QED  BY <1>1, QtySums DEF InTo, MemosOf

\* One invoice more.
LEMMA InToStep ==
    ASSUME NEW s \in Seq(Invoices), NEW k \in LiveIn(s)
    PROVE  InTo(s, k) = InTo(s, k - 1) + s[k].qty
<1>1. PICK T : T = LiveIn(s) \cap (1..(k - 1))
  OBVIOUS
<1>2. k \in DOMAIN s /\ k \in Nat /\ k >= 1 /\ \A j \in LiveIn(s) : j \in Nat /\ j >= 1
  BY Places DEF LiveIn
<1>3. T \cup {k} = LiveIn(s) \cap (1..k) /\ k \notin T /\ T \subseteq DOMAIN s
  <2>1. \A j \in LiveIn(s) : j \in 1..k <=> j \in 1..(k - 1) \/ j = k
    BY <1>2
  <2>2. k \notin 1..(k - 1)
    BY <1>2
  <2>. QED  BY <1>1, <2>1, <2>2 DEF LiveIn
<1>4. PICK f : f = QtyOf(s)
  OBVIOUS
<1>5. IsFiniteSet(T) /\ f[k] = s[k].qty /\ \A x \in T \cup {k} : f[x] \in Int
  <2>1. T \cup {k} \subseteq DOMAIN s
    BY <1>2, <1>3
  <2>2. \A x \in DOMAIN s : f[x] = s[x].qty /\ f[x] \in Nat
    BY <1>4, QtySums
  <2>. QED  BY <1>2, <2>1, <2>2, Places
<1>6. SumFunctionOnSet(f, T \cup {k}) = SumFunctionOnSet(f, T) + f[k]
  BY <1>3, <1>5, SumWith
<1>. QED  BY <1>1, <1>3, <1>4, <1>5, <1>6 DEF InTo

\* A list that went on: nothing of it changed its kind and quantity, and nothing cancelled stands again.
GoesOn(s, t) == \A j \in DOMAIN s : /\ j \in DOMAIN t
                                   /\ t[j].kind = s[j].kind /\ t[j].qty = s[j].qty /\ (t[j].live => s[j].live)

LEMMA InToGoesOn ==
    ASSUME NEW s \in Seq(Invoices), NEW t \in Seq(Invoices), GoesOn(s, t)
    PROVE  /\ \A k \in 0..Len(s) : InTo(t, k) <= InTo(s, k)
           /\ MemosOf(s) <= MemosOf(t)
<1>1. PICK f, g : f = QtyOf(s) /\ g = QtyOf(t)
  OBVIOUS
<1>2. /\ \A x \in DOMAIN s : f[x] = s[x].qty /\ f[x] \in Nat
      /\ \A x \in DOMAIN t : g[x] = t[x].qty /\ g[x] \in Nat
  BY <1>1, QtySums
<1>3. ASSUME NEW k \in 0..Len(s)
      PROVE  InTo(t, k) <= InTo(s, k)
  <2>1. PICK S, T : S = LiveIn(s) \cap (1..k) /\ T = LiveIn(t) \cap (1..k)
    OBVIOUS
  <2>2. T \subseteq S /\ S \subseteq DOMAIN s /\ T \subseteq DOMAIN t
    <3>1. \A j \in 1..k : j \in DOMAIN s
      OBVIOUS
    <3>. QED  BY <2>1, <3>1 DEF GoesOn, LiveIn
  <2>3. IsFiniteSet(S) /\ IsFiniteSet(T)
    BY <2>2, Places
  <2>4. SumFunctionOnSet(g, T) = SumFunctionOnSet(f, T)
    <3>1. \A x \in T : g[x] = f[x]
      BY <1>2, <2>2 DEF GoesOn
    <3>. QED  BY <2>3, <3>1, SumSame
  <2>5. SumFunctionOnSet(f, T) <= SumFunctionOnSet(f, S)
    <3>1. \A x \in S : f[x] \in Nat
      BY <1>2, <2>2
    <3>. QED  BY <2>2, <2>3, <3>1, SumMore
  <2>. QED  BY <1>1, <2>1, <2>4, <2>5 DEF InTo
<1>4. MemosOf(s) <= MemosOf(t)
  <2>1. PICK S, T : S = {j \in DOMAIN s : s[j].kind = "memo"} /\ T = {j \in DOMAIN t : t[j].kind = "memo"}
    OBVIOUS
  <2>2. S \subseteq T /\ S \subseteq DOMAIN s /\ T \subseteq DOMAIN t
    BY <2>1 DEF GoesOn
  <2>3. IsFiniteSet(S) /\ IsFiniteSet(T)
    BY <2>2, Places
  <2>4. SumFunctionOnSet(g, S) = SumFunctionOnSet(f, S)
    <3>1. \A x \in S : g[x] = f[x]
      BY <1>2, <2>2 DEF GoesOn
    <3>. QED  BY <2>3, <3>1, SumSame
  <2>5. SumFunctionOnSet(g, S) <= SumFunctionOnSet(g, T)
    <3>1. \A x \in T : g[x] \in Nat
      BY <1>2, <2>2
    <3>. QED  BY <2>2, <2>3, <3>1, SumMore
  <2>. QED  BY <1>1, <2>1, <2>4, <2>5 DEF MemosOf
<1>. QED  BY <1>3, <1>4

\* Invoices that count: up to each of them, they are no more than was received and credited.
Counts(s, k) == k \in LiveIn(s) /\ ~s[k].released /\ (~s[k].short \/ s[k].paid)
Covered(s, k, n) == InTo(s, k) <= n + MemosOf(s)

PayInv ==
    /\ PayTypeOK
    /\ GoodsKept <= most
    /\ \A k \in DOMAIN invoices : Counts(invoices, k) => Covered(invoices, k, most)

\* Credit memos that stand are some of them all.
LEMMA CreditsAreMemos ==
    ASSUME invoices \in Seq(Invoices)
    PROVE  /\ Credits \in Nat /\ MemosOf(invoices) \in Nat /\ Credits <= MemosOf(invoices)
           /\ \A k : InvoicedBy(1..k) = InTo(invoices, k)
           /\ InvoicedBy(DOMAIN invoices) = InTo(invoices, Len(invoices))
<1>1. PICK T : T = {k \in DOMAIN invoices : invoices[k].kind = "memo"}
  OBVIOUS
<1>2. T \subseteq DOMAIN invoices /\ LiveOf("memo") \in SUBSET T
  BY <1>1 DEF LiveOf
<1>3. /\ SumFunctionOnSet(QtyOf(invoices), T) \in Nat
      /\ SumFunctionOnSet(QtyOf(invoices), LiveOf("memo")) <= SumFunctionOnSet(QtyOf(invoices), T)
  BY <1>2, QtySums
<1>4. SumFunctionOnSet(QtyOf(invoices), LiveOf("memo")) \in Nat
  <2>1. LiveOf("memo") \subseteq DOMAIN invoices
    BY <1>2
  <2>. QED  BY <2>1, QtySums
<1>5. DOMAIN invoices = 1..Len(invoices)
  OBVIOUS
<1>. QED  BY <1>1, <1>3, <1>4, <1>5 DEF Credits, MemosOf, InvoicedBy, InTo, LiveOf, LiveIn

\* What counts is covered: so what was paid unreleased, up to the last of it, is.
LEMMA PaidIsCovered ==
    ASSUME PayInv
    PROVE  PaidWasReceived
<1>1. PICK P : P = {k \in LiveOf("invoice") : ~invoices[k].released /\ invoices[k].paid}
  OBVIOUS
<1>2. P \subseteq DOMAIN invoices /\ IsFiniteSet(P) /\ P \subseteq Nat /\ invoices \in Seq(Invoices)
  BY <1>1, Places DEF LiveOf, PayInv, PayTypeOK
<1>3. MemosOf(invoices) \in Nat /\ most \in Nat
  BY <1>2, CreditsAreMemos DEF PayInv, PayTypeOK
<1>4. CASE P = {}
  <2>1. SumFunctionOnSet(QtyOf(invoices), P) = 0
    BY <1>4, SumEmpty
  <2>. QED  BY <1>1, <1>3, <2>1 DEF PaidWasReceived, MemosOf
<1>5. CASE P # {}
  <2>1. PICK k \in P : \A j \in P : j <= k
    <3>. DEFINE Off == {Len(invoices) - j : j \in P}
    <3>1. Len(invoices) \in Nat /\ \A j \in P : j \in Nat /\ j <= Len(invoices)
      BY <1>2, Places
    <3>2. Off \subseteq Nat /\ Off # {}
      BY <1>5, <3>1
    <3>3. PICK m \in Off : \A n \in Off : m <= n
      <4>. HIDE DEF Off
      <4>. QED  BY <3>2, LeastOf
    <3>4. PICK k \in P : m = Len(invoices) - k
      BY <3>3
    <3>5. ASSUME NEW j \in P PROVE j <= k
      <4>1. Len(invoices) - j \in Off
        OBVIOUS
      <4>2. m <= Len(invoices) - j
        <5>. HIDE DEF Off
        <5>. QED  BY <3>3, <4>1
      <4>. QED  BY <3>1, <3>4, <4>2
    <3>. QED  BY <3>5
  <2>2. Counts(invoices, k) /\ k \in DOMAIN invoices
    BY <1>1, <1>2 DEF Counts, LiveIn, LiveOf
  <2>3. Covered(invoices, k, most)
    BY <2>2 DEF PayInv
  <2>4. P \in SUBSET (LiveIn(invoices) \cap (1..k))
    <3>1. \A j \in P : j \in 1..k
      BY <1>2, <2>1, Places
    <3>. QED  BY <1>1, <3>1 DEF LiveOf, LiveIn
  <2>5. SumFunctionOnSet(QtyOf(invoices), P) <= InTo(invoices, k)
    <3>1. LiveIn(invoices) \cap (1..k) \subseteq DOMAIN invoices
      BY DEF LiveIn
    <3>. QED  BY <1>2, <2>4, <3>1, QtySums DEF InTo
  <2>6. InTo(invoices, k) \in Nat /\ SumFunctionOnSet(QtyOf(invoices), P) \in Nat
    BY <1>2, InToNat, QtySums
  <2>. QED  BY <1>1, <1>3, <2>3, <2>5, <2>6 DEF Covered, PaidWasReceived, MemosOf
<1>. QED  BY <1>4, <1>5

LEMMA PayInvInit == PayInit => PayInv
<1>. SUFFICES ASSUME PayInit PROVE PayInv
  OBVIOUS
<1>1. receipts = <<>> /\ sentBack = <<>> /\ invoices = <<>> /\ most = 0
  BY DEF PayInit
<1>2. PayTypeOK
  BY <1>1, PayablesAssumption DEF PayTypeOK, Documents
<1>3. GoodsKept = 0
  <2>1. DOMAIN receipts = {} /\ DOMAIN QtyOf(sentBack) = {}
    BY <1>1 DEF QtyOf
  <2>. QED  BY <2>1, SumEmpty DEF GoodsKept, SumFunction
<1>. QED  BY <1>1, <1>2, <1>3 DEF PayInv

\* What was covered stays covered while the list goes on and the most that was kept does not fall.
LEMMA StaysCovered ==
    ASSUME NEW s \in Seq(Invoices), NEW t \in Seq(Invoices), GoesOn(s, t), NEW m \in Nat, NEW n \in Nat, m <= n,
           NEW k \in DOMAIN s, Covered(s, k, m)
    PROVE  Covered(t, k, n)
<1>1. k \in 0..Len(s)
  OBVIOUS
<1>2. InTo(t, k) <= InTo(s, k) /\ MemosOf(s) <= MemosOf(t)
  BY <1>1, InToGoesOn
<1>3. {InTo(t, k), InTo(s, k), MemosOf(s), MemosOf(t)} \subseteq Nat
  BY InToNat
<1>. QED  BY <1>2, <1>3 DEF Covered

\* Goods come, go back and are taken back: what was ever kept follows, and covers what it did.
LEMMA GoodsSteps ==
    ASSUME PayInv, GoodsCome \/ GoodsGoBack \/ GoodsReversed
    PROVE  PayInv'
<1>1. /\ receipts \in Seq(0..MostBilled) /\ sentBack \in Seq(ReturnsOf) /\ invoices \in Seq(Invoices)
      /\ \A r \in DOMAIN sentBack : sentBack[r].memo # 0 => sentBack[r].memo \in LiveOf("memo")
      /\ Documents <= MaxDocuments /\ most \in Nat
  BY DEF PayInv, PayTypeOK
<1>2. NotesMost /\ invoices' = invoices
  BY DEF GoodsCome, GoodsGoBack, GoodsReversed, NotesMost
<1>3. /\ receipts' \in Seq(0..MostBilled) /\ sentBack' \in Seq(ReturnsOf)
      /\ Documents' <= MaxDocuments
      /\ \A r \in DOMAIN sentBack' : sentBack'[r].memo # 0 => r \in DOMAIN sentBack /\ sentBack'[r].memo = sentBack[r].memo
  <2>1. CASE GoodsCome
    BY <1>1, <1>2, <2>1, PayablesAssumption DEF GoodsCome, Documents, Quantities
  <2>2. CASE GoodsGoBack
    BY <1>1, <1>2, <2>2, PayablesAssumption DEF GoodsGoBack, Documents, Quantities, ReturnsOf
  <2>3. CASE GoodsReversed
    <3>1. CASE sentBack' = sentBack /\ \E i \in DOMAIN receipts : receipts' = [receipts EXCEPT ![i] = 0]
      <4>1. receipts' \in Seq(0..MostBilled) /\ Len(receipts') = Len(receipts)
        BY <1>1, <3>1, PayablesAssumption
      <4>. QED  BY <1>1, <1>2, <3>1, <4>1 DEF Documents
    <3>2. CASE receipts' = receipts /\ \E r \in DOMAIN sentBack : sentBack' = [sentBack EXCEPT ![r].qty = 0]
      <4>1. PICK r \in DOMAIN sentBack : sentBack' = [sentBack EXCEPT ![r].qty = 0]
        BY <3>2
      <4>2. [sentBack[r] EXCEPT !.qty = 0] \in ReturnsOf /\ [sentBack[r] EXCEPT !.qty = 0].memo = sentBack[r].memo
        <5>1. sentBack[r] \in ReturnsOf
          BY <1>1
        <5>. QED  BY <5>1, PayablesAssumption DEF ReturnsOf
      <4>3. sentBack' = [sentBack EXCEPT ![r] = [sentBack[r] EXCEPT !.qty = 0]]
        BY <4>1
      <4>4. sentBack' \in Seq(ReturnsOf) /\ Len(sentBack') = Len(sentBack) /\ DOMAIN sentBack' = DOMAIN sentBack
        BY <1>1, <4>2, <4>3
      <4>5. \A q \in DOMAIN sentBack : sentBack'[q].memo = sentBack[q].memo
        BY <1>1, <4>2, <4>3
      <4>. QED  BY <1>1, <1>2, <3>2, <4>4, <4>5 DEF Documents
    <3>. QED  BY <2>3, <3>1, <3>2 DEF GoodsReversed
  <2>. QED  BY <2>1, <2>2, <2>3
<1>4. GoodsKept' \in Int
  BY <1>3, GoodsInt DEF GoodsKept
<1>5. most' \in Nat /\ most <= most' /\ GoodsKept' <= most'
  BY <1>1, <1>2, <1>4 DEF NotesMost
<1>6. PayTypeOK'
  BY <1>1, <1>2, <1>3, <1>5 DEF PayTypeOK, LiveOf
<1>7. ASSUME NEW k \in DOMAIN invoices, Counts(invoices, k)
      PROVE  Covered(invoices', k, most')
  <2>1. Covered(invoices, k, most) /\ GoesOn(invoices, invoices)
    BY <1>7 DEF PayInv, GoesOn
  <2>2. Covered(invoices, k, most')
    BY <1>1, <1>5, <2>1, StaysCovered
  <2>. QED  BY <1>2, <2>2
<1>. QED  BY <1>2, <1>5, <1>6, <1>7 DEF PayInv

\* An entry at the end counts when it is an invoice that fits.
LEMMA EntersSteps ==
    ASSUME PayInv, EnterInvoice \/ EnterMemo \/ EnterCorrection
    PROVE  PayInv'
<1>1. /\ receipts \in Seq(0..MostBilled) /\ sentBack \in Seq(ReturnsOf) /\ invoices \in Seq(Invoices)
      /\ \A r \in DOMAIN sentBack : sentBack[r].memo # 0 => sentBack[r].memo \in LiveOf("memo")
      /\ Documents <= MaxDocuments /\ most \in Nat /\ GoodsKept <= most
  BY DEF PayInv, PayTypeOK
<1>2. GoodsKept \in Int /\ Invoiced \in Int
  <2>1. GoodsKept \in Int
    BY <1>1, GoodsInt DEF GoodsKept
  <2>2. InvoicedBy(DOMAIN invoices) = InTo(invoices, Len(invoices)) /\ Credits \in Nat
    BY <1>1, CreditsAreMemos
  <2>3. InTo(invoices, Len(invoices)) \in Nat
    BY <1>1, InToNat
  <2>. QED  BY <2>1, <2>2, <2>3 DEF Invoiced
<1>3. PICK v \in Invoices : /\ invoices' = Append(invoices, v) /\ Documents < MaxDocuments
                            /\ v.live /\ ~v.released /\ ~v.paid
                            /\ v.kind = "invoice" /\ ~v.short => v.qty <= GoodsKept - Invoiced
  <2>. DEFINE Entry(kind, q, short, dear) == [kind |-> kind, qty |-> q, short |-> short, dear |-> dear,
                                              released |-> FALSE, live |-> TRUE, paid |-> FALSE]
  <2>0. \A kind \in {"invoice", "memo", "debit", "rebate"}, q \in 0..MostBilled, short, dear \in BOOLEAN :
           Entry(kind, q, short, dear) \in Invoices
    BY DEF Invoices
  <2>. HIDE DEF Entry
  <2>1. CASE EnterInvoice
    <3>1. PICK q \in Quantities, dear \in BOOLEAN : Enters("invoice", q, q > GoodsKept - Invoiced, dear)
      BY <2>1 DEF EnterInvoice
    <3>2. PICK free \in Int : free = GoodsKept - Invoiced
      BY <1>2
    <3>3. PICK short \in BOOLEAN : short = (q > free)
      <4>1. q \in Int /\ free \in Int
        BY PayablesAssumption DEF Quantities
      <4>2. (q > free) \in BOOLEAN
        BY <4>1, SMT
      <4>. QED  BY <4>2, Zenon
    <3>4. Enters("invoice", q, short, dear) /\ q \in 0..MostBilled
      BY <3>1, <3>2, <3>3, PayablesAssumption DEF Quantities
    <3>5. ~short => q <= free
      <4>1. ~short => ~(q > free)
        BY <3>3, Zenon
      <4>. QED  BY <3>4, <4>1, PayablesAssumption
    <3>6. Entry("invoice", q, short, dear) \in Invoices
      BY <2>0, <3>4
    <3>. QED  BY <3>2, <3>4, <3>5, <3>6 DEF Enters, Entry
  <2>2. CASE EnterMemo
    <3>1. PICK q \in Quantities : Enters("memo", q, FALSE, FALSE)
      BY <2>2 DEF EnterMemo
    <3>2. Entry("memo", q, FALSE, FALSE) \in Invoices
      <4>1. q \in 0..MostBilled
        BY PayablesAssumption DEF Quantities
      <4>. QED  BY <2>0, <4>1
    <3>. QED  BY <3>1, <3>2 DEF Enters, Entry
  <2>3. CASE EnterCorrection
    <3>1. PICK kind \in {"debit", "rebate"}, dear \in BOOLEAN : Enters(kind, 0, FALSE, dear /\ kind = "debit")
      BY <2>3 DEF EnterCorrection
    <3>2. PICK high \in BOOLEAN : high = (dear /\ kind = "debit")
      OBVIOUS
    <3>3. Enters(kind, 0, FALSE, high)
      BY <3>1, <3>2
    <3>4. Entry(kind, 0, FALSE, high) \in Invoices
      <4>1. 0 \in 0..MostBilled
        BY PayablesAssumption
      <4>. QED  BY <2>0, <4>1
    <3>. QED  BY <3>3, <3>4 DEF Enters, Entry
  <2>. QED  BY <2>1, <2>2, <2>3
<1>4. PICK n \in Nat, t \in Seq(Invoices) : n = Len(invoices) /\ t = invoices'
  BY <1>1, <1>3, OneMore
<1>5. /\ Len(t) = n + 1 /\ t[n + 1] = v /\ DOMAIN t = 1..(n + 1) /\ DOMAIN invoices = 1..n
      /\ \A k \in DOMAIN invoices : k \in DOMAIN t /\ t[k] = invoices[k]
  BY <1>1, <1>3, <1>4, OneMore
<1>6. GoesOn(invoices, t)
  BY <1>5 DEF GoesOn
<1>7. most' = most /\ receipts' = receipts /\ UNCHANGED GoodsKept
  <2>1. most' = most /\ receipts' = receipts
    BY DEF EnterInvoice, EnterMemo, EnterCorrection
  <2>2. \/ sentBack' = sentBack
        \/ \E r \in DOMAIN sentBack : sentBack' = [sentBack EXCEPT ![r].memo = Len(invoices')]
    BY DEF EnterInvoice, EnterMemo, EnterCorrection
  <2>3. DOMAIN sentBack' = DOMAIN sentBack /\ \A r \in DOMAIN sentBack : sentBack'[r].qty = sentBack[r].qty
    <3>1. ASSUME NEW r \in DOMAIN sentBack, NEW k, sentBack' = [sentBack EXCEPT ![r].memo = k]
          PROVE  DOMAIN sentBack' = DOMAIN sentBack /\ \A x \in DOMAIN sentBack : sentBack'[x].qty = sentBack[x].qty
      <4>1. \A x \in DOMAIN sentBack : sentBack[x] \in ReturnsOf
        BY <1>1
      <4>. QED  BY <3>1, <4>1 DEF ReturnsOf
    <3>. QED  BY <2>2, <3>1
  <2>4. QtyOf(sentBack)' = QtyOf(sentBack)
    BY <2>3 DEF QtyOf
  <2>. QED  BY <2>1, <2>4 DEF GoodsKept
<1>8. PayTypeOK'
  <2>1. LiveOf("memo") \subseteq LiveOf("memo")'
    BY <1>4, <1>5 DEF LiveOf
  <2>. DEFINE Linked == /\ sentBack' \in Seq(ReturnsOf) /\ Len(sentBack') = Len(sentBack)
                        /\ \A r \in DOMAIN sentBack' : sentBack'[r].memo # 0 => sentBack'[r].memo \in LiveOf("memo")'
  <2>2. ASSUME EnterMemo, sentBack' # sentBack PROVE Linked
    <3>1. PICK r \in DOMAIN sentBack : sentBack' = [sentBack EXCEPT ![r].memo = Len(invoices')]
      BY <2>2 DEF EnterMemo
    <3>2. n + 1 \in LiveOf("memo")' /\ Len(invoices') = n + 1 /\ n + 1 \in 0..MaxDocuments
      <4>1. v.kind = "memo"
        BY <1>1, <1>4, <1>5, <2>2 DEF EnterMemo, Enters
      <4>2. n + 1 <= MaxDocuments
        BY <1>1, <1>3, <1>4, PayablesAssumption DEF Documents
      <4>. QED  BY <1>3, <1>4, <1>5, <4>1, <4>2 DEF LiveOf
    <3>3. sentBack' = [sentBack EXCEPT ![r] = [sentBack[r] EXCEPT !.memo = n + 1]]
      BY <3>1, <3>2
    <3>4. [sentBack[r] EXCEPT !.memo = n + 1] \in ReturnsOf /\ [sentBack[r] EXCEPT !.memo = n + 1].memo = n + 1
      <4>1. sentBack[r] \in ReturnsOf
        BY <1>1
      <4>. QED  BY <3>2, <4>1 DEF ReturnsOf
    <3>5. sentBack' \in Seq(ReturnsOf) /\ Len(sentBack') = Len(sentBack) /\ DOMAIN sentBack' = DOMAIN sentBack
      BY <1>1, <3>3, <3>4
    <3>6. \A x \in DOMAIN sentBack : sentBack'[x].memo = n + 1 \/ sentBack'[x].memo = sentBack[x].memo
      BY <1>1, <3>3, <3>4
    <3>. QED  BY <1>1, <2>1, <3>2, <3>5, <3>6
  <2>3. ASSUME sentBack' = sentBack PROVE Linked
    BY <1>1, <2>1, <2>3
  <2>4. Linked
    BY <1>1, <2>2, <2>3 DEF EnterInvoice, EnterCorrection
  <2>5. Documents' <= MaxDocuments
    BY <1>1, <1>3, <1>4, <1>5, <1>7, <2>4, PayablesAssumption DEF Documents
  <2>. QED  BY <1>1, <1>4, <1>7, <2>4, <2>5 DEF PayTypeOK
<1>9. ASSUME NEW k \in DOMAIN invoices, Counts(t, k)
      PROVE  Covered(t, k, most)
  <2>1. Counts(invoices, k)
    BY <1>5, <1>9 DEF Counts, LiveIn
  <2>2. Covered(invoices, k, most)
    BY <2>1 DEF PayInv
  <2>. QED  BY <1>1, <1>6, <2>2, StaysCovered
<1>10. ASSUME Counts(t, n + 1)
       PROVE  Covered(t, n + 1, most)
  <2>1. v.kind = "invoice" /\ ~v.short /\ n + 1 \in LiveIn(t)
    BY <1>3, <1>5, <1>10 DEF Counts, LiveIn
  <2>2. v.qty \in Nat /\ v.qty <= GoodsKept - Invoiced
    BY <1>3, <2>1, PayablesAssumption DEF Invoices
  <2>3. Invoiced = InTo(invoices, n) - Credits
    BY <1>1, <1>4, CreditsAreMemos DEF Invoiced
  <2>4. InTo(t, n + 1) = InTo(t, n) + v.qty
    <3>1. (n + 1) - 1 = n
      OBVIOUS
    <3>2. InTo(t, n + 1) = InTo(t, (n + 1) - 1) + t[n + 1].qty
      BY <2>1, InToStep
    <3>. QED  BY <1>3, <1>5, <3>1, <3>2
  <2>5. InTo(t, n) <= InTo(invoices, n) /\ MemosOf(invoices) <= MemosOf(t)
    BY <1>1, <1>4, <1>6, InToGoesOn
  <2>6. /\ InTo(t, n) \in Nat /\ InTo(invoices, n) \in Nat /\ MemosOf(t) \in Nat
        /\ Credits \in Nat /\ MemosOf(invoices) \in Nat /\ Credits <= MemosOf(invoices) /\ GoodsKept \in Int
    BY <1>1, InToNat, CreditsAreMemos, GoodsInt DEF GoodsKept
  <2>. QED  BY <1>1, <2>2, <2>3, <2>4, <2>5, <2>6, SMTT(30) DEF Covered
<1>11. \A k \in DOMAIN t : Counts(t, k) => Covered(t, k, most)
  BY <1>5, <1>9, <1>10
<1>. QED  BY <1>1, <1>4, <1>7, <1>8, <1>11 DEF PayInv

\* Released, paid or cancelled where it stands.
LEMMA MarksSteps ==
    ASSUME PayInv, ReleaseInvoice \/ PayInvoice \/ CancelInvoice
    PROVE  PayInv'
<1>1. /\ receipts \in Seq(0..MostBilled) /\ sentBack \in Seq(ReturnsOf) /\ invoices \in Seq(Invoices)
      /\ \A r \in DOMAIN sentBack : sentBack[r].memo # 0 => sentBack[r].memo \in LiveOf("memo")
      /\ Documents <= MaxDocuments /\ most \in Nat /\ GoodsKept <= most
  BY DEF PayInv, PayTypeOK
<1>2. PICK k \in DOMAIN invoices, v \in Invoices :
         /\ invoices[k].live
         /\ invoices' = [invoices EXCEPT ![k] = v]
         /\ v.kind = invoices[k].kind /\ v.qty = invoices[k].qty
         /\ \/ /\ v.live /\ sentBack' = sentBack
               /\ v.short = invoices[k].short
               /\ v.released \/ (~invoices[k].released /\ ~StillBlocked(k))
            \/ ~v.live /\ sentBack' = [r \in DOMAIN sentBack |-> [sentBack[r] EXCEPT !.memo = IF @ = k THEN 0 ELSE @]]
  <2>0. \A j \in DOMAIN invoices : invoices[j] \in Invoices
    BY <1>1
  <2>1. CASE ReleaseInvoice
    <3>1. PICK k \in DOMAIN invoices : /\ invoices[k].live /\ invoices' = [invoices EXCEPT ![k].released = TRUE]
                                       /\ sentBack' = sentBack
      BY <2>1 DEF ReleaseInvoice
    <3>2. PICK v \in Invoices : v = [invoices[k] EXCEPT !.released = TRUE]
      BY <2>0 DEF Invoices
    <3>3. /\ v.kind = invoices[k].kind /\ v.qty = invoices[k].qty /\ v.live = invoices[k].live
          /\ v.short = invoices[k].short /\ v.released
      BY <2>0, <3>2 DEF Invoices
    <3>. QED  BY <3>1, <3>2, <3>3
  <2>2. CASE PayInvoice
    <3>1. PICK k \in DOMAIN invoices : /\ invoices[k].live /\ invoices' = [invoices EXCEPT ![k].paid = TRUE]
                                       /\ sentBack' = sentBack /\ ~StillBlocked(k)
      BY <2>2 DEF PayInvoice
    <3>2. PICK v \in Invoices : v = [invoices[k] EXCEPT !.paid = TRUE]
      BY <2>0 DEF Invoices
    <3>3. /\ v.kind = invoices[k].kind /\ v.qty = invoices[k].qty /\ v.live = invoices[k].live
          /\ v.short = invoices[k].short /\ v.released = invoices[k].released
      BY <2>0, <3>2 DEF Invoices
    <3>. QED  BY <3>1, <3>2, <3>3
  <2>3. CASE CancelInvoice
    <3>1. PICK k \in DOMAIN invoices :
             /\ invoices[k].live
             /\ invoices' = [invoices EXCEPT ![k] = [@ EXCEPT !.live = FALSE, !.short = FALSE, !.dear = FALSE,
                                                             !.released = FALSE]]
             /\ sentBack' = [r \in DOMAIN sentBack |-> [sentBack[r] EXCEPT !.memo = IF @ = k THEN 0 ELSE @]]
      BY <2>3 DEF CancelInvoice
    <3>2. PICK v \in Invoices :
             v = [invoices[k] EXCEPT !.live = FALSE, !.short = FALSE, !.dear = FALSE, !.released = FALSE]
      BY <2>0 DEF Invoices
    <3>3. v.kind = invoices[k].kind /\ v.qty = invoices[k].qty /\ ~v.live
      BY <2>0, <3>2 DEF Invoices
    <3>. QED  BY <3>1, <3>2, <3>3
  <2>. QED  BY <2>1, <2>2, <2>3
<1>3. PICK t \in Seq(Invoices) : t = invoices'
  BY <1>1, <1>2
<1>4. /\ DOMAIN t = DOMAIN invoices /\ Len(t) = Len(invoices) /\ t[k] = v
      /\ \A j \in DOMAIN invoices : j # k => t[j] = invoices[j]
  BY <1>1, <1>2, <1>3
<1>5. GoesOn(invoices, t)
  BY <1>2, <1>4 DEF GoesOn
<1>6. most' = most /\ receipts' = receipts
  BY DEF ReleaseInvoice, PayInvoice, CancelInvoice
<1>7. /\ sentBack' \in Seq(ReturnsOf) /\ DOMAIN sentBack' = DOMAIN sentBack /\ Len(sentBack') = Len(sentBack)
      /\ \A r \in DOMAIN sentBack : sentBack'[r].qty = sentBack[r].qty
      /\ \A r \in DOMAIN sentBack : sentBack'[r].memo # 0 =>
            sentBack'[r].memo = sentBack[r].memo /\ (~v.live => sentBack'[r].memo # k)
  <2>1. CASE sentBack' = sentBack /\ v.live
    BY <1>1, <2>1
  <2>2. CASE sentBack' = [r \in DOMAIN sentBack |-> [sentBack[r] EXCEPT !.memo = IF @ = k THEN 0 ELSE @]]
    <3>1. ASSUME NEW r \in DOMAIN sentBack
          PROVE  /\ sentBack'[r] \in ReturnsOf /\ sentBack'[r].qty = sentBack[r].qty
                 /\ sentBack'[r].memo # 0 => sentBack'[r].memo = sentBack[r].memo /\ sentBack'[r].memo # k
      <4>1. sentBack[r] \in ReturnsOf
        BY <1>1
      <4>2. sentBack'[r] = [sentBack[r] EXCEPT !.memo = IF sentBack[r].memo = k THEN 0 ELSE sentBack[r].memo]
        BY <2>2
      <4>. QED  BY <4>1, <4>2, PayablesAssumption DEF ReturnsOf
    <3>2. DOMAIN sentBack' = DOMAIN sentBack /\ DOMAIN sentBack = 1..Len(sentBack) /\ Len(sentBack) \in Nat
      BY <1>1, <2>2
    <3>3. sentBack' = [r \in 1..Len(sentBack) |-> sentBack'[r]]
      BY <2>2, <3>2
    <3>4. sentBack' \in Seq(ReturnsOf) /\ Len(sentBack') = Len(sentBack)
      BY <3>1, <3>2, <3>3
    <3>. QED  BY <3>1, <3>2, <3>4
  <2>. QED  BY <1>2, <2>1, <2>2
<1>8. UNCHANGED GoodsKept
  <2>1. QtyOf(sentBack)' = QtyOf(sentBack)
    BY <1>7 DEF QtyOf
  <2>. QED  BY <1>6, <2>1 DEF GoodsKept
<1>9. PayTypeOK'
  <2>1. \A r \in DOMAIN sentBack' : sentBack'[r].memo # 0 => sentBack'[r].memo \in LiveOf("memo")'
    <3>. SUFFICES ASSUME NEW r \in DOMAIN sentBack', sentBack'[r].memo # 0
                  PROVE  sentBack'[r].memo \in LiveOf("memo")'
      OBVIOUS
    <3>1. PICK m : m = sentBack'[r].memo
      OBVIOUS
    <3>2. m \in LiveOf("memo") /\ (~v.live => m # k)
      <4>1. r \in DOMAIN sentBack /\ m = sentBack[r].memo /\ m # 0 /\ (~v.live => m # k)
        <5>1. r \in DOMAIN sentBack
          BY <1>7
        <5>2. /\ sentBack'[r].memo = sentBack[r].memo
              /\ ~v.live => sentBack'[r].memo # k
          BY <1>7, <5>1, Zenon
        <5>. QED  BY <3>1, <5>1, <5>2, Zenon
      <4>. QED  BY <1>1, <4>1
    <3>3. m \in DOMAIN invoices /\ t[m].live /\ t[m].kind = "memo"
      BY <1>2, <1>4, <3>2 DEF LiveOf
    <3>. QED  BY <1>3, <1>4, <3>1, <3>3 DEF LiveOf
  <2>2. Documents' <= MaxDocuments
    BY <1>1, <1>3, <1>4, <1>6, <1>7 DEF Documents
  <2>. QED  BY <1>1, <1>3, <1>6, <1>7, <2>1, <2>2 DEF PayTypeOK
<1>10. ASSUME NEW j \in DOMAIN invoices, Counts(t, j), Counts(invoices, j)
       PROVE  Covered(t, j, most)
  <2>1. Covered(invoices, j, most)
    BY <1>10 DEF PayInv
  <2>2. invoices \in Seq(Invoices) /\ most \in Nat /\ most <= most
    BY <1>1
  <2>. QED  BY <1>5, <2>1, <2>2, StaysCovered
<1>11. ASSUME Counts(t, k), ~Counts(invoices, k)
       PROVE  Covered(t, k, most)
  <2>1. /\ k \in LiveIn(invoices) /\ invoices[k].kind = "invoice" /\ v.live
        /\ ~invoices[k].released /\ invoices[k].short /\ ~StillBlocked(k)
    BY <1>2, <1>4, <1>11 DEF Counts, LiveIn
  <2>2. ~TooMuch(k)
    BY <2>1 DEF StillBlocked
  <2>3. /\ InTo(invoices, k) = InTo(invoices, k - 1) + invoices[k].qty
        /\ InvoicedBy(1..(k - 1)) = InTo(invoices, k - 1)
        /\ Credits \in Nat /\ MemosOf(invoices) \in Nat /\ Credits <= MemosOf(invoices)
        /\ InTo(invoices, k - 1) \in Nat /\ GoodsKept \in Int /\ invoices[k].qty \in Nat
    <3>1. invoices[k].qty \in Nat
      <4>1. invoices[k] \in Invoices
        BY <1>1
      <4>. QED  BY <4>1, PayablesAssumption DEF Invoices
    <3>. QED  BY <1>1, <2>1, <3>1, InToStep, CreditsAreMemos, InToNat, GoodsInt DEF GoodsKept
  <2>4. Covered(invoices, k, most)
    BY <1>1, <2>2, <2>3 DEF Covered, TooMuch
  <2>5. invoices \in Seq(Invoices) /\ most \in Nat /\ most <= most /\ k \in DOMAIN invoices
    BY <1>1
  <2>. QED  BY <1>5, <2>4, <2>5, StaysCovered
<1>12. ASSUME NEW j \in DOMAIN invoices, Counts(t, j)
       PROVE  Covered(t, j, most)
  <2>1. j # k => Counts(invoices, j)
    BY <1>4, <1>12 DEF Counts, LiveIn
  <2>. QED  BY <1>10, <1>11, <1>12, <2>1
<1>. QED  BY <1>1, <1>3, <1>4, <1>6, <1>8, <1>9, <1>12 DEF PayInv

LEMMA PayInvStep == PayInv /\ [PayNext]_payVars => PayInv'
<1>. SUFFICES ASSUME PayInv, [PayNext]_payVars PROVE PayInv'
  OBVIOUS
<1>1. CASE UNCHANGED payVars
  BY <1>1 DEF payVars, PayInv, PayTypeOK, GoodsKept, Documents, LiveOf, QtyOf
<1>2. CASE PayNext
  BY <1>2, GoodsSteps, EntersSteps, MarksSteps DEF PayNext
<1>. QED  BY <1>1, <1>2

\* Receipts, returns, invoices and credit memos are of their kinds, and the memo a return names is a credit memo that
\* stands, whatever is reversed and cancelled (purchasing/payables.py cancel_invoice).
THEOREM PayablesType == PaySpec => []PayTypeOK
<1>1. PayInv => PayTypeOK
  BY DEF PayInv
<1>. QED  BY PayInvInit, PayInvStep, <1>1, PTL DEF PaySpec

\* What is paid without anybody releasing it was received at some time or credited: an invoice is let through only
\* with room left after every one before it, and whatever room there was is still there.
THEOREM PaidIsReceived == PaySpec => []PaidWasReceived
<1>1. PayInv => PaidWasReceived
  BY PaidIsCovered
<1>. QED  BY PayInvInit, PayInvStep, <1>1, PTL DEF PaySpec
=============================================================================
