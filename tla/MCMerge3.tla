------------------------------ MODULE MCMerge3 ------------------------------
(***************************************************************************)
(* Merging over bounded inputs: every pair of edits two people can make from *)
(* the same save, of a record without an id or a setting, of an order in the save   *)
(* with its lines, of orders each of them added under the next number, and  *)
(* of a record pointing at an order.                                       *)
(***************************************************************************)
EXTENDS Merging

CONSTANTS
    MergeTexts,     \* contents a record can have
    OldText         \* the content records have in the save both started from

Order(n) == <<"order", n>>
Line(n, l) == <<"line", n, l>>

Union(f, g) == [k \in DOMAIN f \cup DOMAIN g |-> IF k \in DOMAIN f THEN f[k] ELSE g[k]]
One(k, v)   == [j \in {k} |-> v]
Empty       == [j \in {} |-> Absent]

\* The named thing: a record or a setting, edited, removed or added.
Named(k) == {Empty} \cup {One(k, v) : v \in MergeTexts}

\* Order 1, in the save: removed, or its header and lines edited, or a line added.
OrderOne ==
    {Empty}
    \cup {Union(One(Order(1), h), One(Line(1, 10), l)) : h \in MergeTexts, l \in MergeTexts}
    \cup {One(Order(1), h) : h \in MergeTexts}
    \cup {Union(One(Order(1), OldText), Union(One(Line(1, 10), OldText), One(Line(1, 20), l))) : l \in MergeTexts}

\* What one side took: nothing, one order with or without a line, or two orders.
Added ==
    {Empty}
    \cup {One(Order(2), h) : h \in MergeTexts}
    \cup {Union(One(Order(2), h), One(Line(2, 10), OldText)) : h \in MergeTexts}
    \cup {Union(One(Order(2), OldText), One(Order(3), OldText))}

\* A record mine added that points at an order.
Links(who, doc) ==
    {Empty} \cup IF who = "mine" THEN {One(<<"link", who>>, [text |-> OldText, order |-> n]) : n \in Numbers(doc)}
                 ELSE {}

BaseOrder == Union(One(Order(1), OldText), One(Line(1, 10), OldText))

MCBases == {Union(One(k, OldText), BaseOrder) : k \in {<<"setting", "s">>, <<"record", "r">>}} \cup {BaseOrder}

Sides(b, who) ==
    LET names == IF <<"setting", "s">> \in DOMAIN b THEN Named(<<"setting", "s">>) ELSE Named(<<"record", "r">>)
        plain == {Union(n, Union(o, a)) : n \in names, o \in OrderOne, a \in Added}
    IN  UNION {{Union(d, x) : x \in Links(who, d)} : d \in plain}

MCMineOn == [b \in MCBases |-> Sides(b, "mine")]
MCTheirsOn == [b \in MCBases |-> Sides(b, "theirs")]

\* Nothing chosen, or every clash mine.
MCDecisions(clashes) == {[choose |-> Empty, preferMine |-> FALSE],
                         [choose |-> [k \in clashes |-> "mine"], preferMine |-> FALSE]}
=============================================================================
