------------------------------- MODULE Billing -------------------------------
(* What was shipped to a customer billed, paid, taken back and credited        *)
(* (sales/__init__.py). What is waiting to be billed is no list of its own: it *)
(* is what the journal of goods movements delivered, less what the standing    *)
(* invoices name. Every line is priced at one, without tax; orders, deliveries *)
(* and the days of postings are SalesOrders.                                   *)
EXTENDS Integers, Sequences, FiniteSets, Functions

CONSTANTS
    BilledLines,    \* the order lines
    MostShipped,    \* bound: the quantity of a delivery and of a return
    MaxShipped,     \* bound: delivery movements in the journal
    MaxBills,       \* bound: invoices and credit notes
    MaxReturns      \* bound: returns agreed

ASSUME BillingAssumption ==
    /\ IsFiniteSet(BilledLines)
    /\ {MostShipped, MaxShipped, MaxBills, MaxReturns} \subseteq Nat

VARIABLES
    shipped,    \* the delivery movements, in the order posted, and which of them were reversed
    bills,      \* invoices and credit notes, in the order made
    returns     \* the returns agreed

billingVars == <<shipped, bills, returns>>

-----------------------------------------------------------------------------
Amounts == 1..MostShipped
Shipments == [line : BilledLines, qty : Amounts, undone : BOOLEAN]
Bills == [kind : {"invoice", "credit"}, qty : [BilledLines -> Nat], moves : SUBSET (1..MaxShipped), live : BOOLEAN,
          paid : Nat, against : 0..MaxBills, return : 0..MaxReturns]
Returns == [line : BilledLines, qty : Amounts, came : 0..MostShipped, credit : Nat]

Lesser(m, n) == IF m < n THEN m ELSE n
NotNegative(n) == IF n > 0 THEN n ELSE 0

\* Deliveries that still count, of a line.
Counting(l) == {m \in DOMAIN shipped : shipped[m].line = l /\ ~shipped[m].undone}
Quantity(ms) == SumFunction([m \in ms |-> shipped[m].qty])

Live(kind) == {b \in DOMAIN bills : bills[b].kind = kind /\ bills[b].live}

BilledMoves == UNION {bills[b].moves : b \in Live("invoice")}
ToBill(l) == Counting(l) \ BilledMoves

Total(b) == SumFunction(bills[b].qty)
StillOwed(b) == IF bills[b].live THEN Total(b) - bills[b].paid ELSE 0

-----------------------------------------------------------------------------
(* Goods out and taken back, invoices and payments.                           *)

ShipGoods == \E l \in BilledLines, q \in Amounts :
    /\ Len(shipped) < MaxShipped
    /\ shipped' = Append(shipped, [line |-> l, qty |-> q, undone |-> FALSE])
    /\ UNCHANGED <<bills, returns>>

ReverseShipment == \E m \in DOMAIN shipped :
    /\ ~shipped[m].undone
    /\ shipped' = [shipped EXCEPT ![m].undone = TRUE]
    /\ UNCHANGED <<bills, returns>>

Bill(kind, q, ms, against, ret) == [kind |-> kind, qty |-> q, moves |-> ms, live |-> TRUE, paid |-> 0,
                                    against |-> against, return |-> ret]

\* One invoice for the lines asked for, of everything of theirs that waits.
CreateInvoice == \E ls \in SUBSET {l \in BilledLines : ToBill(l) # {}} \ {{}} :
    /\ Len(bills) < MaxBills
    /\ bills' = Append(bills, Bill("invoice", [l \in BilledLines |-> IF l \in ls THEN Quantity(ToBill(l)) ELSE 0],
                                   UNION {ToBill(l) : l \in ls}, 0, 0))
    /\ UNCHANGED <<shipped, returns>>

\* A payment of an invoice, or paid out for a credit note.
PayBill == \E b \in DOMAIN bills : \E amount \in 1..StillOwed(b) :
    /\ bills' = [bills EXCEPT ![b].paid = @ + amount]
    /\ UNCHANGED <<shipped, returns>>

CancelBill == \E b \in DOMAIN bills :
    /\ bills[b].live /\ bills[b].paid = 0
    /\ bills' = [bills EXCEPT ![b].live = FALSE]
    /\ returns' = IF bills[b].kind = "credit" THEN [returns EXCEPT ![bills[b].return].credit = 0] ELSE returns
    /\ UNCHANGED shipped

-----------------------------------------------------------------------------
(* Returns and credit notes.                                                  *)

\* What comes back or is agreed to, of a line.
CameBack(l) == SumFunction([r \in {x \in DOMAIN returns : returns[x].line = l} |->
                                IF returns[r].came > 0 THEN returns[r].came ELSE returns[r].qty])

CreateReturn == \E l \in BilledLines, q \in Amounts :
    /\ q <= Quantity(Counting(l)) - CameBack(l)
    /\ Len(returns) < MaxReturns
    /\ returns' = Append(returns, [line |-> l, qty |-> q, came |-> 0, credit |-> 0])
    /\ UNCHANGED <<shipped, bills>>

ReceiveReturn == \E r \in DOMAIN returns : \E q \in 1..returns[r].qty :
    /\ returns[r].came = 0
    /\ returns' = [returns EXCEPT ![r].came = q]
    /\ UNCHANGED <<shipped, bills>>

\* The credit notes that stand: of a return, and against an invoice, or against none (0), of a line.
CreditedOf(r) == SumFunction([c \in {x \in Live("credit") : bills[x].return = r} |-> Total(c)])
CreditedAgainst(b, l) == SumFunction([c \in {x \in Live("credit") : bills[x].against = b} |-> bills[c].qty[l]])

\* A slip: what an invoice can still give back forgets what was credited against it.
Creditable_Whole(b, l) == bills[b].qty[l]

Creditable(b, l) == NotNegative(bills[b].qty[l] - CreditedAgainst(b, l))

\* What the standing invoices among the first n can give back, and what invoice b gives of a quantity, the oldest first:
\* what is left of it when the earlier ones gave all they can.
GivenBy(n, l) == SumFunction([b \in {x \in Live("invoice") : x <= n} |-> Creditable(b, l)])
Share(b, left, l) == Lesser(left, GivenBy(b, l)) - Lesser(left, GivenBy(b - 1, l))

LeftToCredit(r) == returns[r].came - CreditedOf(r)
BilledOf(l) == SumFunction([b \in Live("invoice") |-> bills[b].qty[l]])

OfLine(l, q) == [k \in BilledLines |-> IF k = l THEN q ELSE 0]

\* One note for each invoice that gives, in their order, and one against none for goods never billed.
Notes(r, order, left, rest) ==
    LET l == returns[r].line
    IN [k \in DOMAIN order |-> Bill("credit", OfLine(l, Share(order[k], left, l)), {}, order[k], r)]
       \o IF rest > 0 THEN <<Bill("credit", OfLine(l, rest), {}, 0, r)>> ELSE <<>>

CreditReturn == \E r \in DOMAIN returns :
    LET l == returns[r].line
        left == LeftToCredit(r)
        rest == left - Lesser(left, GivenBy(Len(bills), l))
        against == {b \in DOMAIN bills : Share(b, left, l) > 0}
    IN /\ left > 0
       /\ rest > 0 => rest <= NotNegative(Quantity(Counting(l)) - BilledOf(l) - CreditedAgainst(0, l))
       /\ \E order \in [1..Cardinality(against) -> against] :
             /\ \A j, k \in DOMAIN order : j < k => order[j] < order[k]
             /\ Len(bills) + Len(Notes(r, order, left, rest)) <= MaxBills
             /\ bills' = bills \o Notes(r, order, left, rest)
       /\ returns' = [returns EXCEPT ![r].credit = Len(bills) + 1]
       /\ UNCHANGED shipped

-----------------------------------------------------------------------------
BillingInit == shipped = <<>> /\ bills = <<>> /\ returns = <<>>

BillingNext == \/ ShipGoods \/ ReverseShipment
               \/ CreateInvoice \/ PayBill \/ CancelBill
               \/ CreateReturn \/ ReceiveReturn \/ CreditReturn

BillingSpec == BillingInit /\ [][BillingNext]_billingVars

-----------------------------------------------------------------------------
(* Properties.                                                                *)

\* Every variable holds values of its kind.
BillingTypeOK ==
    /\ shipped \in Seq(Shipments) /\ Len(shipped) <= MaxShipped
    /\ bills \in Seq(Bills) /\ Len(bills) <= MaxBills
    /\ returns \in Seq(Returns) /\ Len(returns) <= MaxReturns

\* Goods shipped are on one standing invoice at most, whatever was paid, cancelled, billed again or reversed in between
\* (sales/__init__.py: create_invoices "bills what was shipped and not yet billed").
BilledOnce == \A a, b \in Live("invoice") : a # b => bills[a].moves \cap bills[b].moves = {}

\* The credit notes that stand give back no more of a return than came, and no more against an invoice than it billed,
\* with goods billed in parts, returned in parts, and notes cancelled in between.
CreditedOnce ==
    /\ \A r \in DOMAIN returns : CreditedOf(r) <= returns[r].came
    /\ \A b \in Live("invoice"), l \in BilledLines : CreditedAgainst(b, l) <= bills[b].qty[l]

\* What was delivered is billed once and what came back credited once (sales/__init__.py: create_invoices,
\* credit_return).
BilledAndCreditedOnce == BilledOnce /\ CreditedOnce
=============================================================================
