----------------------------- MODULE PurchaseLine -----------------------------
(* One line of a purchase order received, sent back for replacement or credit, *)
(* changed, taken back and closed (purchasing/__init__.py, purchasing/          *)
(* payables.py return_goods, actuals/documents.py reverse, actuals/roll.py).    *)
(*                                                                            *)
(* What was received is counted each time from the journal of goods movements. *)
(* Postings are dated in the order they are made, the goods to send back are    *)
(* there; tolerances, quantities a supplier confirmed and what the plan counts  *)
(* on until the next roll are left out.                                        *)
EXTENDS Integers, Sequences, FiniteSets, Functions

CONSTANTS
    MostBought,     \* bound: quantity of the order, a receipt, a return
    Beyond,         \* how much may be delivered over the order
    MaxPostings     \* bound: goods movements

ASSUME PurchaseLineAssumption == {MostBought, Beyond, MaxPostings} \subseteq Nat

VARIABLES
    poLine,      \* the order line: open or closed, what was ordered, what is to be delivered in all
    postings,    \* receipts and returns of the line, in order
    awaited      \* auxiliary: what the supplier still owes, counted up and down as it was agreed

lineVars == <<poLine, postings, awaited>>

-----------------------------------------------------------------------------
Pieces == 1..MostBought
Postings == [kind : {"receipt", "replace", "credit"}, qty : Pieces, final : BOOLEAN, undone : BOOLEAN]

AtMost(a, b) == IF a < b THEN a ELSE b
StandingOf(kinds) == {i \in DOMAIN postings : postings[i].kind \in kinds /\ ~postings[i].undone}

\* Received, less what went back.
Counted(p) == IF p.undone THEN 0 ELSE IF p.kind = "receipt" THEN p.qty ELSE -p.qty
NetReceived == SumFunction([i \in DOMAIN postings |-> Counted(postings[i])])

\* A final receipt stands until goods go back for replacement after it.
FinalStands == \E i \in StandingOf({"receipt"}) : postings[i].final /\ \A j \in StandingOf({"replace"}) : j < i

\* What the line still waits for: nothing after a final receipt.
Outstanding == LET rest == poLine.target - NetReceived IN IF FinalStands THEN AtMost(rest, 0) ELSE rest

Posting(kind, q, final) == [kind |-> kind, qty |-> q, final |-> final, undone |-> FALSE]

Posts(p) == /\ Len(postings) < MaxPostings
            /\ postings' = Append(postings, p)

ReceiveGoods == \E q \in Pieces, final \in BOOLEAN :
    /\ poLine.open /\ NetReceived + q <= poLine.ordered + Beyond
    /\ Posts(Posting("receipt", q, final))
    /\ awaited' = IF final \/ FinalStands THEN AtMost(poLine.target - NetReceived', 0) ELSE awaited - q
    /\ UNCHANGED poLine

\* Changed, it is for the new quantity whatever was agreed on deliveries before; after a final receipt nothing comes.
ChangeOrdered == \E q \in Pieces :
    /\ poLine.open /\ q >= NetReceived /\ q # poLine.ordered
    /\ poLine' = [poLine EXCEPT !.ordered = q, !.target = q]
    /\ awaited' = IF FinalStands THEN AtMost(q - NetReceived, 0) ELSE q - NetReceived
    /\ UNCHANGED postings

\* A slip: goods to be replaced after a final receipt open all of the order again.
ReturnedLine_OpensAll(q, replace) ==
    IF replace THEN poLine ELSE [poLine EXCEPT !.ordered = @ - AtMost(@, q), !.target = @ - AtMost(@, q)]

\* Goods to be replaced after a final receipt are all that is delivered again; goods credited come off the order.
ReturnedLine(q, replace) ==
    IF replace THEN IF FinalStands THEN [poLine EXCEPT !.target = AtMost(@, NetReceived)] ELSE poLine
    ELSE [poLine EXCEPT !.ordered = @ - AtMost(@, q), !.target = @ - AtMost(@, q)]

\* A closed line stays as it is: the plan orders the replacement.
ReturnGoods == \E q \in Pieces, replace \in BOOLEAN :
    /\ q <= NetReceived
    /\ Posts(Posting(IF replace THEN "replace" ELSE "credit", q, FALSE))
    /\ poLine' = IF poLine.open THEN ReturnedLine(q, replace) ELSE poLine
    /\ awaited' = IF poLine.open /\ replace THEN awaited + q ELSE awaited

\* A posting taken back opens the line again as it was when it closed.
ReversePosting == \E i \in DOMAIN postings :
    /\ ~postings[i].undone
    /\ postings' = [postings EXCEPT ![i].undone = TRUE]
    /\ poLine' = [poLine EXCEPT !.open = TRUE]
    /\ UNCHANGED awaited

RollOver == /\ poLine.open /\ Outstanding <= 0
            /\ poLine' = [poLine EXCEPT !.open = FALSE]
            /\ UNCHANGED <<postings, awaited>>

-----------------------------------------------------------------------------
LineInit == /\ \E q \in Pieces : /\ poLine = [open |-> TRUE, ordered |-> q, target |-> q]
                                 /\ awaited = q
            /\ postings = <<>>

LineNext == ReceiveGoods \/ ChangeOrdered \/ ReturnGoods \/ ReversePosting \/ RollOver

LineSpec == LineInit /\ [][LineNext]_lineVars

-----------------------------------------------------------------------------
(* Properties.                                                                *)

\* Every variable holds values of its kind.
LineTypeOK ==
    /\ poLine \in [open : BOOLEAN, ordered : 0..MostBought, target : 0..MostBought]
    /\ postings \in Seq(Postings) /\ Len(postings) <= MaxPostings
    /\ awaited \in Int

\* However often goods come, are final, go back for replacement or credit and the order is changed, the open line waits
\* for what is still to come by those agreements (return_goods: "repeated returns keep the same delivery target").
WaitsForTheRest ==
    poLine.open /\ (\A i \in DOMAIN postings : ~postings[i].undone)
    => Outstanding = awaited \/ (Outstanding <= 0 /\ awaited <= 0)
===============================================================================
