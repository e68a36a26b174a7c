------------------------------- MODULE Merge3 -------------------------------
(***************************************************************************)
(* The three-way merge of two people's changes to a company                *)
(* (companies/merge.py), as operators.                                     *)
(*                                                                         *)
(* A document is a function from the keys of its records to their          *)
(* contents. A key is a tuple whose head says what kind of record it is:   *)
(*   <<"setting", s>>   a field of the settings (merged field by field)    *)
(*   <<"record", r>>    a record known by what it is about and not by an   *)
(*                      id (a supplier's terms, a product at a location)   *)
(*   <<"order", n>>     a record with an id (an order, SO-00002)           *)
(*   <<"line", n, l>>   a line numbered after it (SO-00002/10)             *)
(*   <<"link", x>>      a record that points at an order; its content is   *)
(*                      [text, order]                                      *)
(* `base` is the save both worked from, `mine` the working copy, `theirs`  *)
(* the latest save. The operators use no recursion, so that the modules    *)
(* that build on them can be proved about.                                 *)
(***************************************************************************)
EXTENDS Integers, FiniteSets

CONSTANT Absent     \* the content of a key that is not in a document

At(doc, k) == IF k \in DOMAIN doc THEN doc[k] ELSE Absent

OfKind(doc, kind) == {k \in DOMAIN doc : k[1] = kind}

\* The documents' numbers, and the line numbers under one of them.
Numbers(doc)  == {k[2] : k \in OfKind(doc, "order")}
LinesOf(doc, n) == {k[3] : k \in {j \in OfKind(doc, "line") : j[2] = n}}

Greatest(S) == CHOOSE x \in S : \A y \in S : y <= x

\* The place of x in S, counted from one.
Rank(x, S) == Cardinality({y \in S : y <= x})

-----------------------------------------------------------------------------
(* _renumber: what mine added under a number theirs also added, differently, *)
(* moves to the next free number of its series, and what mine added under it  *)
(* or pointing at it follows.                                                *)

Collides(base, mine, theirs, k) ==
    /\ k \notin DOMAIN base /\ k \in DOMAIN mine /\ k \in DOMAIN theirs
    /\ mine[k] # theirs[k]

MovedOrders(base, mine, theirs) ==
    {n \in Numbers(mine) : Collides(base, mine, theirs, <<"order", n>>)}

\* A slip: the next number after mine's own, theirs not looked at.
NewNumber_OwnOnly(n, base, mine, theirs) ==
    LET moved == MovedOrders(base, mine, theirs)
    IN  IF n \in moved THEN Greatest(Numbers(mine)) + Rank(n, moved) ELSE n

\* _next_free: after the greatest number either side uses.
NewNumber(n, base, mine, theirs) ==
    LET moved == MovedOrders(base, mine, theirs)
    IN  IF n \in moved
        THEN Greatest(Numbers(mine) \cup Numbers(theirs)) + Rank(n, moved)
        ELSE n

MovedLines(n, base, mine, theirs) ==
    {l \in LinesOf(mine, n) : Collides(base, mine, theirs, <<"line", n, l>>)}

NewLine(n, l, base, mine, theirs) ==
    LET moved == MovedLines(n, base, mine, theirs)
    IN  IF l \in moved
        THEN Greatest(LinesOf(mine, n) \cup LinesOf(theirs, n)) + Rank(l, moved)
        ELSE l

\* Where a record of mine stands after renumbering: a line mine added follows
\* its header, and is numbered on its own only where the header stays.
NewKey(k, base, mine, theirs) ==
    CASE k[1] = "order" -> <<"order", NewNumber(k[2], base, mine, theirs)>>
      [] k[1] = "line" /\ k \notin DOMAIN base ->
             IF k[2] \in MovedOrders(base, mine, theirs)
             THEN <<"line", NewNumber(k[2], base, mine, theirs), k[3]>>
             ELSE <<"line", k[2], NewLine(k[2], k[3], base, mine, theirs)>>
      [] OTHER -> k

\* A slip: what points at an order keeps its old number.
Follow_Nowhere(k, content, base, mine, theirs) == content

Follow(k, content, base, mine, theirs) ==
    IF k[1] = "link"
    THEN [content EXCEPT !.order = NewNumber(@, base, mine, theirs)]
    ELSE content

Renumbered(base, mine, theirs) ==
    [k \in {NewKey(j, base, mine, theirs) : j \in DOMAIN mine} |->
        LET old == CHOOSE j \in DOMAIN mine : NewKey(j, base, mine, theirs) = k
        IN  Follow(old, mine[old], base, mine, theirs)]

-----------------------------------------------------------------------------
(* merge: record by record (_merge_list, _merge_dict, _pick, _clash).        *)

Conflict(k, base, mine, theirs) ==
    /\ At(mine, k) # At(base, k)
    /\ At(theirs, k) # At(base, k)
    /\ At(mine, k) # At(theirs, k)

\* Whose version of a clash is kept when nobody chose: the latest save's,
\* except a record changed here and removed there.
DefaultSide(k, base, mine, theirs) ==
    IF k[1] # "setting" /\ k \in DOMAIN base /\ k \in DOMAIN mine /\ k \notin DOMAIN theirs
    THEN "mine" ELSE "theirs"

Side(k, base, mine, theirs, choose, preferMine) ==
    IF preferMine THEN "mine"
    ELSE IF k \in DOMAIN choose THEN choose[k]
    ELSE DefaultSide(k, base, mine, theirs)

\* A slip: a record of the base that is still here is taken as it is here.
Picked_MineUnlessGone(k, base, mine, theirs, choose, preferMine) ==
    IF Conflict(k, base, mine, theirs)
    THEN IF Side(k, base, mine, theirs, choose, preferMine) = "mine"
         THEN At(mine, k) ELSE At(theirs, k)
    ELSE IF k \in DOMAIN mine /\ k \in DOMAIN base THEN At(mine, k) ELSE At(theirs, k)

Picked(k, base, mine, theirs, choose, preferMine) ==
    IF Conflict(k, base, mine, theirs)
    THEN IF Side(k, base, mine, theirs, choose, preferMine) = "mine"
         THEN At(mine, k) ELSE At(theirs, k)
    ELSE IF At(mine, k) = At(base, k) THEN At(theirs, k) ELSE At(mine, k)

\* The records both sides changed differently, once mine is renumbered.
Conflicts(base, mine, theirs) ==
    LET m == Renumbered(base, mine, theirs)
    IN  {k \in DOMAIN m \cup DOMAIN theirs \cup DOMAIN base : Conflict(k, base, m, theirs)}

\* `choose`: per conflict, "mine" or "theirs"; `preferMine`: every save in
\* between was the same person's.
Merge(base, mine, theirs, choose, preferMine) ==
    LET m == Renumbered(base, mine, theirs)
        Result(k) == Picked(k, base, m, theirs, choose, preferMine)
    IN  [k \in {j \in DOMAIN m \cup DOMAIN theirs : Result(j) # Absent} |-> Result(k)]

-----------------------------------------------------------------------------
(* What it is given.                                                         *)

\* The contents a link can have: its text, and any order.
LinkTo(text) == [text : {text}, order : Nat]

\* A document: numbers are numbers, a line stands under a header, a link says
\* which order it points at.
Document(d) ==
    /\ IsFiniteSet(DOMAIN d) /\ d = [k \in DOMAIN d |-> d[k]]
    /\ \A k \in DOMAIN d : d[k] # Absent
    /\ \A k \in OfKind(d, "order") : k[2] \in Nat /\ k = <<"order", k[2]>>
    /\ \A k \in OfKind(d, "line") : /\ k[2] \in Numbers(d) /\ k[3] \in Nat
                                    /\ k = <<"line", k[2], k[3]>>
    /\ \A k \in OfKind(d, "link") : d[k] \in LinkTo(d[k].text) /\ Absent \notin LinkTo(d[k].text)

\* The links of a document point at orders it has.
PointsHome(d) == \A k \in OfKind(d, "link") : d[k].order \in Numbers(d)

\* Where an order must move, the last numbers of the save both started from are
\* still in use, or passed, on one side: it is given no number that save had.
NoNumberAgain(base, mine, theirs) ==
    MovedOrders(base, mine, theirs) # {} =>
        \A n \in Numbers(base) : \E x \in Numbers(mine) \cup Numbers(theirs) : n <= x

-----------------------------------------------------------------------------
(* What a merge must keep. `result` is what it made.                         *)

\* The numbers a side gave.
AddedBy(side, base) == Numbers(side) \ Numbers(base)

\* What a colleague saved is never moved or replaced by what this merge
\* renumbers: every record of theirs that mine did not touch is as they saved it.
TheirsStay(base, mine, theirs, result) ==
    \A k \in DOMAIN theirs :
        At(mine, k) = At(base, k) \/ (k[1] \in {"order", "line"} /\ k \notin DOMAIN base)
            => At(result, k) = theirs[k]

\* With f the numbers the orders mine added have in the result: each is there
\* with its header and its lines, under a number of its own, which is the one it
\* had unless theirs took that one for something else. (Both adding the same
\* order counts as one order.)
StaysAs(f, base, mine, theirs, result) ==
    /\ \A n, p \in AddedBy(mine, base) : n # p => f[n] # f[p]
    /\ \A n \in AddedBy(mine, base) :
          /\ f[n] \in Numbers(result) /\ result[<<"order", f[n]>>] = mine[<<"order", n>>]
          /\ \A l \in LinesOf(mine, n) :
                \E j \in LinesOf(result, f[n]) : result[<<"line", f[n], j>>] = mine[<<"line", n, l>>]
          /\ f[n] # n => At(theirs, <<"order", n>>) \notin {Absent, mine[<<"order", n>>]}
          /\ f[n] \in Numbers(theirs) => theirs[<<"order", f[n]>>] = mine[<<"order", n>>]

\* What mine added is all there.
MineStay(base, mine, theirs, result) ==
    \E f \in [AddedBy(mine, base) -> Numbers(result)] : StaysAs(f, base, mine, theirs, result)

\* A record only mine added that points at an order mine added still points at
\* that order's content after the order is renumbered (CV-H09).
LinksFollow(base, mine, theirs, result) ==
    \A k \in OfKind(mine, "link") \ (DOMAIN base \cup DOMAIN theirs) :
        mine[k].order \in AddedBy(mine, base) =>
           /\ k \in DOMAIN result
           /\ result[k].order \in Numbers(result)
           /\ result[<<"order", result[k].order>>] = mine[<<"order", mine[k].order>>]

\* No line is left without its header, unless one side removed a header the
\* other was working under.
LinesHaveHeaders(base, mine, theirs, result) ==
    Numbers(base) \subseteq Numbers(mine) \cap Numbers(theirs)
        => \A k \in OfKind(result, "line") : k[2] \in Numbers(result)
=============================================================================
