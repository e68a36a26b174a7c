------------------------------- MODULE MCTrade -------------------------------
(* The stores of what a company buys and sells, for TLC: a purchase order        *)
(* released (PurchaseOrders), a line of one received (PurchaseLine), the          *)
(* supplier's invoices of it (Payables), sales orders delivered and rolled         *)
(* forward (SalesOrders), and billed (Billing); and the lock each of those steps    *)
(* is taken under (StoreLock), by two server processes, the first with two           *)
(* threads.                                                                    *)
(* They share no state: a behaviour takes one of them while the others rest in  *)
(* an initial state.                                                           *)
EXTENDS PurchaseOrders, PurchaseLine, Payables, SalesOrders, Billing, StoreLock, TLC

CONSTANTS a, b, a1, a2, b1

VARIABLE part    \* the one it takes

tradeVars == <<part, poVars, lineVars, payVars, salesVars, billingVars, lockVars>>

MCAbove == <<2, 3>>
MCApprovers == <<{}, {}>>
MCHome == [t \in Threads |-> IF t = b1 THEN b ELSE a]

\* Which of a process's threads is which tells no two behaviours apart.
Alike == Permutations({a1, a2})

\* The initial state each rests in.
Resting ==
    /\ part # "releasing" => \A l \in PoLines : revisions[1].lines[l] = 1
    /\ part # "receiving" => poLine.ordered = 1

TradeInit ==
    /\ part \in {"releasing", "receiving", "paying", "selling", "billing", "locking"}
    /\ PoInit /\ LineInit /\ PayInit /\ SalesInit /\ BillingInit /\ LockInit
    /\ Resting

Ordering  == part = "releasing" /\ PoNext /\ UNCHANGED <<part, lineVars, payVars, salesVars, billingVars, lockVars>>
Receiving == part = "receiving" /\ LineNext /\ UNCHANGED <<part, poVars, payVars, salesVars, billingVars, lockVars>>
Paying    == part = "paying" /\ PayNext /\ UNCHANGED <<part, poVars, lineVars, salesVars, billingVars, lockVars>>
Selling   == part = "selling" /\ SalesNext /\ UNCHANGED <<part, poVars, lineVars, payVars, billingVars, lockVars>>
Invoicing == part = "billing" /\ BillingNext /\ UNCHANGED <<part, poVars, lineVars, payVars, salesVars, lockVars>>
Locking   == part = "locking" /\ LockNext /\ UNCHANGED <<part, poVars, lineVars, payVars, salesVars, billingVars>>

TradeNext == Ordering \/ Receiving \/ Paying \/ Selling \/ Invoicing \/ Locking

TradeSpec == TradeInit /\ [][TradeNext]_tradeVars

\* Every variable of the six holds values of its kind.
TradeTypeOK ==
    /\ part = "releasing" => PoTypeOK
    /\ part = "receiving" => LineTypeOK
    /\ part = "paying" => PayTypeOK
    /\ part = "selling" => SalesTypeOK
    /\ part = "billing" => BillingTypeOK
    /\ part = "locking" => LockTypeOK
=============================================================================
