------------------------------ MODULE MCPlanning ------------------------------
(* What a company plans and promises, for TLC: the supply plan, made again after  *)
(* changes (SupplyPlan), and sales orders promised from the supply (Promising).    *)
(* They share no state: a behaviour takes one of them while the other rests in an   *)
(* initial state.                                                              *)
EXTENDS SupplyPlan, Promising

VARIABLE side    \* the one it takes

sides == <<side, planVars, promiseVars>>

\* Two customers' places, a warehouse they are shipped to from, a plant, and the part it buys. The part is not ordered
\* anew before day 2.
MCInputs == <<{3}, {3}, {4}, {5}, {}>>
MCKind == <<"transfer", "transfer", "transfer", "make", "buy">>
MCLeadTime == <<1, 0, 1, 1, 2>>
Exact == [policy |-> "exact", size |-> 1]
MCLot == <<Exact, [policy |-> "fixed", size |-> 2], Exact, Exact, [policy |-> "periods", size |-> 1]>>
MCFence == <<0, 0, 0, 0, 2>>
MCFirmed == <<FALSE, FALSE, FALSE, FALSE, TRUE>>
MCToOrder == <<FALSE, FALSE, TRUE, TRUE, FALSE>>
MCOnlyThePlantToOrder == <<FALSE, FALSE, FALSE, TRUE, FALSE>>

Sold(so, n, d, q, p) == [so |-> so, node |-> n, day |-> d, qty |-> q, priority |-> p]
There(n, so, q) == [node |-> n, so |-> so, qty |-> q]
Due(id, n, d, q, so) == [id |-> id, node |-> n, day |-> d, qty |-> q, so |-> so]

\* Two sales orders of one customer and one of the other; stock of the first at the warehouse, stock and a firm order
\* of the part.
Base == [horizon |-> 0,
         demand  |-> {Sold(1, 1, 3, 1, 5), Sold(2, 1, 4, 1, 5), Sold(3, 2, 4, 1, 5)},
         stock   |-> {There(3, 1, 1), There(5, 0, 1)},
         firm    |-> {Due(1, 5, 4, 1, 0)},
         safety  |-> <<0, 0, 0, 0, 1>>]
Orders(S) == [Base EXCEPT !.demand = S]
Swapped == {Sold(2, 1, 3, 1, 5), Sold(1, 1, 4, 1, 5), Sold(3, 2, 4, 1, 5)}
MCDatasets == <<
    Base,
    Orders(Swapped),                                                              \* the first two change places
    Orders({Sold(1, 1, 3, 1, 5), Sold(4, 1, 4, 1, 5), Sold(3, 2, 4, 1, 5)}),      \* another for the second
    Orders({Sold(1, 1, 3, 2, 5), Sold(2, 1, 3, 1, 1), Sold(3, 2, 1, 1, 5)}),      \* one day for two, one too soon
    [Base EXCEPT !.firm = {Due(1, 5, 5, 1, 0)}],                                  \* the firm order comes later
    [Base EXCEPT !.stock = {There(3, 2, 1), There(5, 0, 1)}],                     \* the stock is the second's
    [Base EXCEPT !.horizon = 2],                                                  \* firm orders are brought in sooner
    [Base EXCEPT !.firm = @ \cup {Due(2, 4, 3, 1, 3)}],                           \* one held for the third
    [Base EXCEPT !.safety[5] = 0, !.firm = {}],
    [Base EXCEPT !.stock = {There(5, 0, 1)}],                                     \* nothing held at the warehouse
    [Orders(Swapped) EXCEPT !.stock = {There(5, 0, 1)}] >>

\* Two locations; the first can get any supply from day 3 on. What the first two days do not use of the allocation can
\* be used after them.
MCLead == <<3, 4>>
MCPeriods == << [from |-> 0, to |-> 2, qty |-> 2, carry |-> FALSE, reject |-> FALSE],
                [from |-> 2, to |-> 4, qty |-> 2, carry |-> TRUE, reject |-> FALSE] >>
MCSegments == << [priorities |-> {2}, strategy |-> "redistribute"], [priorities |-> {1}, strategy |-> "win"],
                 [priorities |-> {3}, strategy |-> "fill"] >>
Ask(q, d, complete, p) == [qty |-> q, date |-> d, complete |-> complete, priority |-> p]
MCAsked == {Ask(1, 0, FALSE, 1), Ask(2, 1, FALSE, 2), Ask(2, 2, TRUE, 1), Ask(1, 2, FALSE, 3)}
\* In stock and later at the first location, later at the second.
Comes(a, b, c) == << [d \in Ahead |-> IF d = 0 THEN a ELSE IF d = 2 THEN b ELSE 0],
                     [d \in Ahead |-> IF d = 1 THEN c ELSE 0] >>
MCExpected == {Comes(2, 0, 1), Comes(1, 1, 0), Comes(0, 1, 1)}

PlanningInit ==
    /\ side \in {"planning", "promising"}
    /\ PlanInit /\ PromiseInit
    /\ side = "planning" => supply = Comes(1, 1, 0)

Planning == side = "planning" /\ PlanNext /\ UNCHANGED <<side, promiseVars>>
Assuring == side = "promising" /\ PromiseNext /\ UNCHANGED <<side, planVars>>

PlanningNext == Planning \/ Assuring

PlanningSpec == PlanningInit /\ [][PlanningNext]_sides

\* Every variable of the two holds values of its kind.
PlanningTypeOK == IF side = "planning" THEN PlanTypeOK ELSE PromiseTypeOK
=============================================================================
