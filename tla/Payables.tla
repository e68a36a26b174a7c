------------------------------- MODULE Payables -------------------------------
(* The goods of one line of a purchase order invoiced, credited and paid        *)
(* (purchasing/payables.py).                                                   *)
(*                                                                            *)
(* What was received and what was invoiced are counted each time, from the      *)
(* journal of goods movements (PurchaseLine) and the list of invoices.          *)
(* Quantities only: an invoice whose price is beyond the tolerance is dear, and  *)
(* paid says that something was paid on it. The supplier's own numbers and the   *)
(* terms of payment are left out.                                              *)
EXTENDS Integers, Sequences, FiniteSets, Functions

CONSTANTS
    MostBilled,     \* bound: quantity of a receipt, a return, an invoice
    MaxDocuments    \* bound: receipts, returns, invoices and credit memos in all

ASSUME PayablesAssumption == {MostBilled, MaxDocuments} \subseteq Nat

VARIABLES
    receipts,    \* the receipts of the line, reversed ones as 0
    sentBack,    \* its returns, reversed ones or not, and the credit memo of each
    invoices,    \* the supplier's invoices and credit memos of it, in order
    most         \* auxiliary: the most that was ever received and kept

payVars == <<receipts, sentBack, invoices, most>>

-----------------------------------------------------------------------------
Quantities == 1..MostBilled
\* memo is the credit memo of a return, by its place among the invoices; 0 is none yet.
ReturnsOf == [qty : 0..MostBilled, memo : 0..MaxDocuments]
Invoices == [kind : {"invoice", "memo", "debit", "rebate"}, qty : 0..MostBilled, short : BOOLEAN, dear : BOOLEAN,
             released : BOOLEAN, live : BOOLEAN, paid : BOOLEAN]

QtyOf(docs) == [k \in DOMAIN docs |-> docs[k].qty]
Documents == Len(receipts) + Len(sentBack) + Len(invoices)

\* Received, less what went back.
GoodsKept == SumFunction(receipts) - SumFunction(QtyOf(sentBack))

\* Invoiced, standing, by some of them; credited.
LiveOf(kind) == {k \in DOMAIN invoices : invoices[k].live /\ invoices[k].kind = kind}
InvoicedBy(S) == SumFunctionOnSet(QtyOf(invoices), LiveOf("invoice") \cap S)
Credits == SumFunctionOnSet(QtyOf(invoices), LiveOf("memo"))
Invoiced == InvoicedBy(DOMAIN invoices) - Credits

-----------------------------------------------------------------------------
(* The goods.                                                                 *)

NotesMost == /\ most' = IF GoodsKept' > most THEN GoodsKept' ELSE most
             /\ UNCHANGED invoices

GoodsCome == \E q \in Quantities :
    /\ Documents < MaxDocuments
    /\ receipts' = Append(receipts, q) /\ UNCHANGED sentBack
    /\ NotesMost

GoodsGoBack == \E q \in Quantities :
    /\ Documents < MaxDocuments /\ q <= GoodsKept
    /\ sentBack' = Append(sentBack, [qty |-> q, memo |-> 0]) /\ UNCHANGED receipts
    /\ NotesMost

\* A receipt or a return is taken back; the return still stands for its credit memo.
GoodsReversed ==
    /\ \/ \E i \in DOMAIN receipts : /\ receipts[i] > 0 /\ receipts' = [receipts EXCEPT ![i] = 0]
                                     /\ UNCHANGED sentBack
       \/ \E r \in DOMAIN sentBack : /\ sentBack[r].qty > 0 /\ sentBack' = [sentBack EXCEPT ![r].qty = 0]
                                     /\ UNCHANGED receipts
    /\ NotesMost

-----------------------------------------------------------------------------
(* Invoices.                                                                  *)

Enters(kind, q, short, dear) ==
    /\ Documents < MaxDocuments
    /\ invoices' = Append(invoices, [kind |-> kind, qty |-> q, short |-> short, dear |-> dear, released |-> FALSE,
                                     live |-> TRUE, paid |-> FALSE])

\* Matched against what was received and not invoiced yet.
EnterInvoice == \E q \in Quantities, dear \in BOOLEAN :
    /\ Enters("invoice", q, q > GoodsKept - Invoiced, dear)
    /\ UNCHANGED <<receipts, sentBack, most>>

\* A credit memo, as a supplier sends it or for a return that has none.
EnterMemo == \E q \in Quantities, ret \in {0} \cup DOMAIN sentBack :
    /\ ret # 0 => sentBack[ret].memo = 0
    /\ Enters("memo", q, FALSE, FALSE)
    /\ sentBack' = IF ret = 0 THEN sentBack ELSE [sentBack EXCEPT ![ret].memo = Len(invoices')]
    /\ UNCHANGED <<receipts, most>>

\* The price of what was invoiced corrected, upwards or downwards: no quantity counts.
EnterCorrection == \E kind \in {"debit", "rebate"}, dear \in BOOLEAN :
    /\ Invoiced > 0
    /\ Enters(kind, 0, FALSE, dear /\ kind = "debit")
    /\ UNCHANGED <<receipts, sentBack, most>>

\* A slip: the invoices before it are not counted.
TooMuch_Alone(k) == invoices[k].qty > GoodsKept + Credits

\* More than was received and not billed by the invoices before it.
TooMuch(k) == invoices[k].qty > GoodsKept + Credits - InvoicedBy(1..(k - 1))

\* An invoice that matched when it was entered is not looked at again.
StillBlocked(k) ==
    LET v == invoices[k]
    IN /\ v.kind \in {"invoice", "debit"} /\ ~v.released /\ (v.short \/ v.dear)
       /\ v.dear \/ (v.kind = "invoice" /\ TooMuch(k))

ReleaseInvoice == \E k \in DOMAIN invoices :
    /\ invoices[k].live /\ (invoices[k].short \/ invoices[k].dear) /\ ~invoices[k].released
    /\ invoices' = [invoices EXCEPT ![k].released = TRUE]
    /\ UNCHANGED <<receipts, sentBack, most>>

\* In part or in full, with or without the discount; a refund of a credit memo alike.
PayInvoice == \E k \in DOMAIN invoices :
    /\ invoices[k].live /\ ~StillBlocked(k)
    /\ invoices' = [invoices EXCEPT ![k].paid = TRUE]
    /\ UNCHANGED <<receipts, sentBack, most>>

\* A slip: a return keeps the credit memo that is cancelled, and can get no other.
CancelInvoice_StaysLinked == \E k \in DOMAIN invoices :
    /\ invoices[k].live /\ ~invoices[k].paid
    /\ invoices' = [invoices EXCEPT ![k] = [@ EXCEPT !.live = FALSE, !.short = FALSE, !.dear = FALSE, !.released = FALSE]]
    /\ UNCHANGED <<receipts, sentBack, most>>

\* What it was blocked for is not read any more.
CancelInvoice == \E k \in DOMAIN invoices :
    /\ invoices[k].live /\ ~invoices[k].paid
    /\ invoices' = [invoices EXCEPT ![k] = [@ EXCEPT !.live = FALSE, !.short = FALSE, !.dear = FALSE, !.released = FALSE]]
    /\ sentBack' = [r \in DOMAIN sentBack |-> [sentBack[r] EXCEPT !.memo = IF @ = k THEN 0 ELSE @]]
    /\ UNCHANGED <<receipts, most>>

-----------------------------------------------------------------------------
PayInit == receipts = <<>> /\ sentBack = <<>> /\ invoices = <<>> /\ most = 0

PayNext == \/ GoodsCome \/ GoodsGoBack \/ GoodsReversed
           \/ EnterInvoice \/ EnterMemo \/ EnterCorrection \/ ReleaseInvoice \/ PayInvoice \/ CancelInvoice

PaySpec == PayInit /\ [][PayNext]_payVars

-----------------------------------------------------------------------------
(* Properties.                                                                *)

\* Every variable holds values of its kind; the credit memo a return names is one that stands.
PayTypeOK ==
    /\ receipts \in Seq(0..MostBilled) /\ sentBack \in Seq(ReturnsOf) /\ invoices \in Seq(Invoices)
    /\ \A r \in DOMAIN sentBack : sentBack[r].memo # 0 => sentBack[r].memo \in LiveOf("memo")
    /\ Documents <= MaxDocuments /\ most \in Nat

\* What is paid without anybody releasing it is never more than was received at some time and credited, however goods
\* came late, went back and were taken back, and invoices were entered before the goods, cancelled and entered again
\* (payables.py, "three-way match": a quantity block lifts by itself once the goods arrive).
PaidWasReceived ==
    SumFunctionOnSet(QtyOf(invoices), {k \in LiveOf("invoice") : ~invoices[k].released /\ invoices[k].paid})
    <= most + SumFunctionOnSet(QtyOf(invoices), {k \in DOMAIN invoices : invoices[k].kind = "memo"})
===============================================================================
