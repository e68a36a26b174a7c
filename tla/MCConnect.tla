------------------------------ MODULE MCConnect ------------------------------
(* The two ways of the connectors for TLC, side by side: what other systems    *)
(* tell the company (Imports), with a job that may read a shop, asked for what *)
(* changed, or an ERP's whole export; and what the ERP is told of an order     *)
(* (ErpOrders). They share no state: a behaviour takes one of them while the   *)
(* other rests.                                                               *)
EXTENDS Imports, ErpOrders

CONSTANTS
    shop, erp, clock, person,
    MaxJobSaves     \* bound: saves by people where jobs send, whose runs overlap

\* The runs that send are of one job.
MCJobOf == [r \in SendRuns |-> "send"]

VARIABLE way    \* "in" or "out"

connectVars == <<way, importsVars, erpVars>>

\* What waits for a run of the server, and a deleted import job: at rest, nothing that fairness promises can happen.
OutRests == ErpInit /\ channel = "job"
InRests ==
    /\ changes = Beginning /\ company = Nothing /\ logged = {} /\ cut = {}
    /\ job = [source |-> shop, cursor |-> Beginning, enabled |-> FALSE, deleted |-> TRUE, next |-> "never"]
    /\ runs = [r \in Runners |-> NoRun] /\ made = [c \in Contents |-> 0]

ConnectInit == \/ way = "in" /\ ImportsInit /\ OutRests
               \/ way = "out" /\ InRests /\ ErpInit

ComesIn == way = "in" /\ ImportsNext /\ UNCHANGED <<way, erpVars>>
GoesOut == way = "out" /\ ErpNext /\ (channel = "job" => saves' <= MaxJobSaves) /\ UNCHANGED <<way, importsVars>>

ConnectNext == ComesIn \/ GoesOut

ConnectSpec == ConnectInit /\ [][ConnectNext]_connectVars

FairConnectSpec == ConnectSpec /\ ImportsFairness /\ ErpFairness

\* Every variable of the two holds values of its kind.
ConnectTypeOK == ImportsTypeOK /\ ErpTypeOK
=============================================================================
