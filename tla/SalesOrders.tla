----------------------------- MODULE SalesOrders -----------------------------
(* Sales order lines promised, delivered and taken back, and the planning      *)
(* start moved on over them (sales/__init__.py, actuals/post.py,               *)
(* actuals/documents.py, actuals/roll.py, promise/orders.py).                  *)
(*                                                                            *)
(* The journal of goods movements is the one record of what happened: what is  *)
(* delivered and what is left are read from it each time, and a reversal never *)
(* removes a movement, it adds one. A line stands for an order of its own; its *)
(* place, price and promise dates are left out, and stock is never short.      *)
EXTENDS Integers, Sequences, FiniteSets, FiniteSetsExt, Functions

CONSTANTS
    SalesLines,     \* the order lines
    MostOrdered,    \* bound: the quantity of a line, of a delivery and of a return
    LastDay,        \* bound: the days postings are dated, 0..LastDay
    ReversalDays,   \* the days a reversal may be dated by hand; its own rule gives the day otherwise
    MaxMoves,       \* bound: movements in the journal
    MaxDeliveries   \* bound: deliveries made up

ASSUME SalesAssumption ==
    /\ IsFiniteSet(SalesLines)
    /\ {MostOrdered, LastDay, MaxMoves, MaxDeliveries} \subseteq Nat
    /\ ReversalDays \subseteq 0..LastDay

VARIABLES
    start,          \* the planning start
    line,           \* each order line, open or in the log of closed orders
    journal,        \* the goods movements, in the order posted
    deliveries      \* the deliveries made up, shipped or not

salesVars == <<start, line, journal, deliveries>>

-----------------------------------------------------------------------------
(* The records.                                                               *)

Days == 0..LastDay
Units == 1..MostOrdered
\* whole is the ordered quantity a roll has kept beside the open one, 0 before it has.
OrderLines == [is : {"none", "open", "closed", "cancelled"}, qty : Int, whole : Nat, blocked : BOOLEAN]
PerLine(ns) == UNION {[ls -> ns] : ls \in SUBSET SalesLines}
Deliveries ==
    {dl \in [qty : PerLine(Units), picked : PerLine(0..MostOrdered), doc : Nat] : DOMAIN dl.picked = DOMAIN dl.qty}
Moves == [line : SalesLines, qty : Nat, day : Days, doc : Nat, undoes : Nat, final : BOOLEAN]

NoLine == [is |-> "none", qty |-> 0, whole |-> 0, blocked |-> FALSE]
IsOpen(l) == line[l].is = "open"

Net(m) == IF m.undoes # 0 THEN -m.qty ELSE m.qty
Undone(ms) == {ms[i].undoes : i \in DOMAIN ms} \ {0}
Standing(ms) == {i \in DOMAIN ms : ms[i].undoes = 0 /\ i \notin Undone(ms)}

Ordered(r) == IF r.whole # 0 THEN r.whole ELSE r.qty
\* Delivered of a line by some of the movements.
DeliveredIn(S, l) == SumFunctionOnSet([i \in DOMAIN journal |-> Net(journal[i])], {i \in S : journal[i].line = l})
Delivered(l) == DeliveredIn(DOMAIN journal, l)

Waiting(l) == {i \in DOMAIN deliveries : deliveries[i].doc = 0 /\ l \in DOMAIN deliveries[i].qty}
OnDelivery(l) == SumFunction([i \in Waiting(l) |-> deliveries[i].qty[l]])
LeftToDeliver(l) == Ordered(line[l]) - Delivered(l) - OnDelivery(l)

-----------------------------------------------------------------------------
(* Orders.                                                                    *)

\* Taken over the customer's credit limit or not: what they owe is counted from orders and bills (Billing).
TakeSalesOrder == \E l \in SalesLines, q \in Units, over \in BOOLEAN :
    /\ line[l] = NoLine
    /\ line' = [line EXCEPT ![l] = [is |-> "open", qty |-> q, whole |-> 0, blocked |-> over]]
    /\ UNCHANGED <<start, journal, deliveries>>

\* The new quantity is the whole order's; what a roll has booked comes off it.
ChangeSalesOrder == \E l \in SalesLines, q \in Units :
    /\ IsOpen(l) /\ q > Delivered(l)
    /\ line' = [line EXCEPT ![l] = [line[l] EXCEPT !.qty = q - (Ordered(line[l]) - line[l].qty),
                                                   !.whole = IF line[l].whole # 0 THEN q ELSE 0]]
    /\ UNCHANGED <<start, journal, deliveries>>

ReleaseCredit == \E l \in SalesLines :
    /\ line[l].blocked
    /\ line' = [line EXCEPT ![l].blocked = FALSE]
    /\ UNCHANGED <<start, journal, deliveries>>

Closed(r, how) == [is |-> how, qty |-> Ordered(r), whole |-> Ordered(r), blocked |-> r.blocked]

CancelSalesOrder == \E l \in SalesLines :
    /\ IsOpen(l) /\ OnDelivery(l) = 0
    /\ line' = [line EXCEPT ![l] = Closed(@, "cancelled")]
    /\ UNCHANGED <<start, journal, deliveries>>

-----------------------------------------------------------------------------
(* Goods out, and postings taken back.                                        *)

NextDoc == Max({0} \cup {journal[i].doc : i \in DOMAIN journal}) + 1

Move(l, q, d, undoes, final) ==
    [line |-> l, qty |-> q, day |-> d, doc |-> NextDoc, undoes |-> undoes, final |-> final]

Posted(ms) == /\ Len(journal) + Len(ms) <= MaxMoves
              /\ journal' = journal \o ms

MayShip(l) == IsOpen(l) /\ ~line[l].blocked

\* Straight from the journal's page: any quantity, the rest of the order given up with it or not.
DeliverSalesOrder == \E l \in SalesLines, q \in Units, d \in Days, final \in BOOLEAN :
    /\ MayShip(l)
    /\ Posted(<<Move(l, q, d, 0, final)>>)
    /\ UNCHANGED <<start, line, deliveries>>

MakeDelivery == \E ls \in SUBSET {l \in SalesLines : MayShip(l)} \ {{}} : \E q \in [ls -> Units] :
    /\ \A l \in ls : q[l] <= LeftToDeliver(l)
    /\ Len(deliveries) < MaxDeliveries
    /\ deliveries' = Append(deliveries, [qty |-> q, picked |-> q, doc |-> 0])
    /\ UNCHANGED <<start, line, journal>>

PickDelivery == \E i \in DOMAIN deliveries : \E l \in DOMAIN deliveries[i].qty : \E q \in 0..deliveries[i].qty[l] :
    /\ deliveries[i].doc = 0
    /\ deliveries' = [deliveries EXCEPT ![i].picked[l] = q]
    /\ UNCHANGED <<start, line, journal>>

\* Goods issue: every line of the delivery must still be open and free to ship; one document.
IssueDelivery == \E i \in DOMAIN deliveries, d \in Days :
    LET dl == deliveries[i]
        out == {l \in DOMAIN dl.qty : dl.picked[l] > 0}
    IN /\ dl.doc = 0 /\ out # {}
       /\ \A l \in DOMAIN dl.qty : MayShip(l)
       /\ \E order \in [1..Cardinality(out) -> out] :
             /\ {order[k] : k \in DOMAIN order} = out
             /\ Posted([k \in DOMAIN order |-> Move(order[k], dl.picked[order[k]], d, 0, FALSE)])
       /\ deliveries' = [deliveries EXCEPT ![i].doc = NextDoc]
       /\ UNCHANGED <<start, line>>

CancelDelivery == \E i \in DOMAIN deliveries :
    /\ deliveries[i].doc = 0
    /\ deliveries' = [k \in 1..(Len(deliveries) - 1) |-> deliveries[IF k < i THEN k ELSE k + 1]]
    /\ UNCHANGED <<start, line, journal>>

\* A line the log of closed orders holds, and that was not cancelled, is open again.
Reopened(r) == IF r.is = "closed" THEN [r EXCEPT !.is = "open"] ELSE r

\* The whole document of a movement is taken back, what is left of it, on the day given or the first the plan allows.
ReverseMove == \E i \in Standing(journal) :
    LET group == {j \in Standing(journal) : journal[j].doc = journal[i].doc}
        sold == {journal[j].line : j \in group}
        ruled == IF journal[i].day > start THEN journal[i].day ELSE start
    IN \E d \in ReversalDays \cup ({ruled} \cap Days) : \E order \in [1..Cardinality(group) -> group] :
          /\ \A j, k \in DOMAIN order : j < k => order[j] < order[k]
          /\ Posted([k \in DOMAIN order |-> Move(journal[order[k]].line, journal[order[k]].qty, d, order[k], FALSE)])
          /\ line' = [l \in SalesLines |-> IF l \in sold THEN Reopened(line[l]) ELSE line[l]]
          /\ UNCHANGED <<start, deliveries>>

-----------------------------------------------------------------------------
(* The planning start moved on.                                               *)

Before(d) == {i \in DOMAIN journal : journal[i].day < d}
FinalIn(S, l) == \E i \in S :
    /\ journal[i].line = l /\ journal[i].final /\ journal[i].undoes = 0
    /\ \A j \in S : journal[j].undoes # i

\* A slip: what is delivered comes off what the last roll left open.
RolledLine_OffTheRest(r, S, l) ==
    LET rest == r.qty - DeliveredIn(S, l)
    IN IF r.is # "open" THEN r
       ELSE IF rest <= 0 \/ FinalIn(S, l) THEN Closed(r, "closed")
       ELSE [r EXCEPT !.qty = rest, !.whole = IF DeliveredIn(S, l) > 0 THEN Ordered(r) ELSE @]

\* What is left is the whole order less everything the journal delivered before the day. With a reversal dated before
\* the delivery it takes back, less than nothing is delivered in between, and the order grows with each roll.
RolledLine(r, S, l) ==
    LET rest == Ordered(r) - DeliveredIn(S, l)
    IN IF r.is # "open" THEN r
       ELSE IF rest <= 0 \/ FinalIn(S, l) THEN Closed(r, "closed")
       ELSE [r EXCEPT !.qty = rest, !.whole = IF DeliveredIn(S, l) > 0 THEN Ordered(r) ELSE @]

Rolled(ls, d) == [l \in SalesLines |-> RolledLine(ls[l], Before(d), l)]

RollForward == \E d \in start..(LastDay + 1) :
    /\ start' = d
    /\ line' = Rolled(line, d)
    /\ \A l \in SalesLines : line'[l].qty <= 2 * MostOrdered     \* bound: see RolledLine
    /\ UNCHANGED <<journal, deliveries>>

-----------------------------------------------------------------------------
SalesInit ==
    /\ start = 0
    /\ line = [l \in SalesLines |-> NoLine]
    /\ journal = <<>> /\ deliveries = <<>>

SalesNext ==
    \/ TakeSalesOrder \/ ChangeSalesOrder \/ ReleaseCredit \/ CancelSalesOrder
    \/ DeliverSalesOrder \/ MakeDelivery \/ PickDelivery \/ IssueDelivery \/ CancelDelivery
    \/ ReverseMove \/ RollForward

SalesSpec == SalesInit /\ [][SalesNext]_salesVars

-----------------------------------------------------------------------------
(* Properties.                                                                *)

\* Every variable holds values of its kind.
SalesTypeOK ==
    /\ start \in 0..(LastDay + 1)
    /\ line \in [SalesLines -> OrderLines]
    /\ journal \in Seq(Moves) /\ Len(journal) <= MaxMoves
    /\ deliveries \in Seq(Deliveries) /\ Len(deliveries) <= MaxDeliveries

\* A posting and its reversal fall on both sides of a day.
Straddles(d) == \E i \in DOMAIN journal :
    journal[i].undoes # 0 /\ (journal[i].day < d) # (journal[journal[i].undoes].day < d)

\* Moving the plan on in two steps leaves every order line as one step does, and moving it on twice to one day as
\* once (actuals/roll.py, "one order however many rolls it took"), whatever was posted, changed and reversed before.
RollsCompose == \A d, e \in start..(LastDay + 1) :
    d <= e /\ ~Straddles(d) /\ ~Straddles(e) => Rolled(Rolled(line, d), e) = Rolled(line, e)

\* "The order it was posted against opens again as far as it takes back" (actuals/documents.py:546-547): an order is
\* in the log of closed orders only when it is delivered in full, or a final delivery that stands closed it.
ClosedIsDone == \A l \in SalesLines : line[l].is = "closed" =>
    Delivered(l) >= Ordered(line[l]) \/ \E i \in Standing(journal) : journal[i].line = l /\ journal[i].final
=============================================================================
