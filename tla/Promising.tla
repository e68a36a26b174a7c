------------------------------- MODULE Promising -------------------------------
(* Sales orders promised, changed and promised again when supply is short       *)
(* (promise/atp.py, promise/engine.py, promise/run.py, promise/orders.py).      *)
(*                                                                            *)
(* One product. Goods are delivered on the day they are there to ship; new      *)
(* supply is not quoted (capable-to-promise off), no stock is held for one       *)
(* order, no order ships as one delivery with others, and a promise makes no     *)
(* supply firm (promise_firms off). An allocation is of the product, for every   *)
(* customer.                                                                    *)
EXTENDS Integers, Sequences, FiniteSets, FiniteSetsExt, Functions, SequencesExt

CONSTANTS
    Horizon,     \* the last day looked at
    Lead,        \* by location that ships, the preferred first: from that day on any supply can be arranged
    Periods,     \* the allocation's periods in order: [from, to, qty, carry, reject], none for no allocation
    Segments,    \* of backorder processing, in order: [priorities, strategy]
    Asked,       \* bound: what customers ask for, [qty, date, complete, priority]
    Expected,    \* bound: the supply there may be, by location and day
    MaxOrders    \* bound: orders at a time

ASSUME PromisingAssumption ==
    /\ {Horizon, MaxOrders} \subseteq Nat
    /\ Lead \in Seq(Nat) /\ Len(Lead) > 0
    /\ Periods \in Seq([from : Nat, to : Nat, qty : Nat, carry : BOOLEAN, reject : BOOLEAN])
    /\ \A k \in 2..Len(Periods) : Periods[k - 1].to <= Periods[k].from
    /\ \A n \in DOMAIN Segments : Segments[n].strategy \in {"win", "gain", "fill", "lose", "redistribute"}
    /\ Segments \in Seq([priorities : SUBSET Int, strategy : STRING])
    /\ IsFiniteSet(Asked) /\ Asked # {}
    /\ Asked \subseteq [qty : Nat \ {0}, date : 0..Horizon, complete : BOOLEAN, priority : Int]
    /\ Expected \subseteq [DOMAIN Lead -> [0..Horizon -> Nat]]

VARIABLES
    supply,     \* stock and receipts, less what the plan needs of them, by location and day
    orders      \* as they were entered, each with what is confirmed by location and day

promiseVars == <<supply, orders>>

-----------------------------------------------------------------------------
(* The supply picture: what is promised of the supply, and of the allocation.   *)

Ahead == 0..Horizon
Locations == DOMAIN Lead
NoLines == [s \in Locations |-> [d \in Ahead |-> 0]]

\* One after the other: each from the one outcome of those before it.
InTurn(Step(_, _), base, seq) ==
    LET upTo[n \in 0..Len(seq)] == IF n = 0 THEN {base} ELSE {Step(acc, seq[n]) : acc \in upTo[n - 1]}
    IN CHOOSE outcome \in upTo[Len(seq)] : TRUE

Fewer(m, n) == IF m < n THEN m ELSE n
AtLeast0(n) == IF n > 0 THEN n ELSE 0
Plenty == 1 + MaxOrders * Max({o.qty : o \in Asked})

NothingPromised == [out |-> NoLines, used |-> [k \in DOMAIN Periods |-> 0]]

Cum(p, s, j) ==
    SumFunctionOnSet([d \in 0..j |-> supply[s][d] - p.out[s][d]], 0..j)
Unconditional(s, d) == d >= Lead[s]
Window(s) == {j \in Ahead : j < Lead[s]}

\* A slip: what is there on the day, whatever was promised for later.
Available_OnTheDay(p, s, d) == IF Unconditional(s, d) THEN Plenty ELSE AtLeast0(Cum(p, s, d))

\* What can be taken on a day without breaking a promise for a later one.
Available(p, s, d) ==
    IF Unconditional(s, d) THEN Plenty
    ELSE AtLeast0(Min({Cum(p, s, j) : j \in {j \in Window(s) : d <= j}}))

\* The periods a day may draw on: its own, then, carried forward, the ones before it from the latest back.
PeriodsOf(d) == {k \in DOMAIN Periods : Periods[k].from <= d /\ d < Periods[k].to}
Chain(d) == IF PeriodsOf(d) = {} THEN <<>>
            ELSE LET own == Min(PeriodsOf(d))
                 IN IF Periods[own].carry THEN [i \in 1..own |-> own + 1 - i] ELSE <<own>>

LeftOf(used, k) == AtLeast0(Periods[k].qty - used[k])

\* A day in no period has nothing to confirm.
Cap(p, d) == LET c == Chain(d) IN
    IF Periods = <<>> THEN Plenty ELSE SumFunctionOnSet([n \in DOMAIN c |-> LeftOf(p.used, c[n])], DOMAIN c)

\* One period's part in it.
Counting(acc, k, q) ==
    LET take == IF q > 0 THEN Fewer(acc.left, LeftOf(acc.used, k)) ELSE -Fewer(-acc.left, acc.used[k])
    IN [used |-> [acc.used EXCEPT ![k] = @ + take], left |-> acc.left - take]

\* Counted against a day's periods in that order, or given back in that order; beyond the cap against its own.
UsedWith(used, d, q) ==
    LET end == InTurn(LAMBDA acc, k : Counting(acc, k, q), [used |-> used, left |-> q], Chain(d))
    IN IF q = 0 \/ Chain(d) = <<>> THEN used ELSE [end.used EXCEPT ![Head(Chain(d))] = @ + end.left]

Claim(p, s, d, q) ==
    IF q = 0 THEN p ELSE [out |-> [p.out EXCEPT ![s][d] = @ + q], used |-> UsedWith(p.used, d, q)]

-----------------------------------------------------------------------------
(* One order.                                                                 *)

DaysInOrder == [n \in 1..(Horizon + 1) |-> n - 1]
LocationsInOrder == [s \in Locations |-> s]

OnDay(at, d) == SumFunctionOnSet([s \in Locations |-> at[s][d]], Locations)
InAll(at) == SumFunctionOnSet([d \in Ahead |-> OnDay(at, d)], Ahead)
Both(a, b) == [s \in Locations |-> [d \in Ahead |-> a[s][d] + b[s][d]]]

\* What is confirmed claims its supply, covered or not; given back, the other way round.
Registering(p, at) ==
    [out |-> Both(p.out, at), used |-> InTurn(LAMBDA used, d : UsedWith(used, d, OnDay(at, d)), p.used, DaysInOrder)]
GivingBack(p, at) == Registering(p, [s \in Locations |-> [d \in Ahead |-> -at[s][d]]])

\* What can be had at a location on a day.
CanHave(p, s, d) == Fewer(Available(p, s, d), Cap(p, d))
Taking(acc, s, d, q) == [p |-> Claim(acc.p, s, d, q), at |-> [acc.at EXCEPT ![s][d] = @ + q], left |-> acc.left - q]

\* All of it, for complete delivery, or what can be had.
AllOrSome(o, left, a) == IF o.complete /\ a < left THEN 0 ELSE Fewer(a, left)
Takes(o, acc, s, d) == Taking(acc, s, d, AllOrSome(o, acc.left, CanHave(acc.p, s, d)))

\* An allocation may reject what it cannot confirm in its period.
RejectedFrom(o) == IF \E k \in PeriodsOf(o.date) : Periods[k].reject
                   THEN Fewer(Periods[Min(PeriodsOf(o.date))].to, Horizon + 1) ELSE Horizon + 1

\* On the date asked from the first location, then from the others.
OnTime(p, o, q) ==
    InTurn(LAMBDA acc, s : IF Unconditional(s, o.date) THEN acc ELSE Takes(o, acc, s, o.date),
             [p |-> p, at |-> NoLines, left |-> q], LocationsInOrder)

\* The rest later, from the first.
LaterDays(o) == [i \in 1..(RejectedFrom(o) - o.date) |-> o.date + i - 1]
Check(p, o, q) == InTurn(LAMBDA acc, d : Takes(o, acc, 1, d), OnTime(p, o, q), LaterDays(o))

OnTimeOf(o, at) == SumFunctionOnSet([d \in 0..o.date |-> OnDay(at, d)], 0..o.date)

\* Less on time, or as much and less in all.
Worse(o, a, b) == \/ OnTimeOf(o, a) < OnTimeOf(o, b)
                  \/ OnTimeOf(o, a) = OnTimeOf(o, b) /\ InAll(a) < InAll(b)

-----------------------------------------------------------------------------
(* All orders.                                                                *)

HasPromise(o) == o.at # NoLines
InOrder(os) == [i \in DOMAIN os |-> i]

RegisteringOf(os, which) ==
    InTurn(LAMBDA acc, i : IF i \in which THEN Registering(acc, os[i].at) ELSE acc, NothingPromised, InOrder(os))

\* What is confirmed of an order is r now.
Confirming(acc, i, r) == [p |-> r.p, os |-> [acc.os EXCEPT ![i].at = r.at]]

\* An entry run: promises claim their supply, then the orders without one are checked as they were entered.
Entry(os) ==
    InTurn(LAMBDA acc, i : IF HasPromise(os[i]) THEN acc
                             ELSE Confirming(acc, i, Check(acc.p, os[i], os[i].qty)),
             [p |-> RegisteringOf(os, {i \in DOMAIN os : HasPromise(os[i])}), os |-> os], InOrder(os))

SegmentOf(o) == LET ks == {k \in DOMAIN Segments : o.priority \in Segments[k].priorities}
                IN IF ks = {} THEN 0 ELSE Min(ks)
StrategyOf(o) == Segments[SegmentOf(o)].strategy
MayNotLose(o) == SegmentOf(o) # 0 /\ StrategyOf(o) \in {"win", "gain", "fill"}

\* Segment by segment; in one by priority, then date, then as they were entered.
GoesFirst(os, i, j) == LET key(n) == <<SegmentOf(os[n]), os[n].priority, os[n].date, n>>
                  IN \E k \in 1..4 : key(i)[k] < key(j)[k] /\ \A m \in 1..(k - 1) : key(i)[m] = key(j)[m]
InSegments(os) == {i \in DOMAIN os : SegmentOf(os[i]) # 0}
Ranks(os) == [i \in InSegments(os) |-> Cardinality({j \in InSegments(os) : GoesFirst(os, j, i)}) + 1]
Sequence(os) ==
    LET rank == Ranks(os) IN [n \in 1..Cardinality(InSegments(os)) |-> CHOOSE i \in InSegments(os) : rank[i] = n]

\* Previous lines taken back as far as supply still allows, by day, then by location.
Retaking(acc, at, s, d) == Taking(acc, s, d, Fewer(at[s][d], CanHave(acc.p, s, d)))
RetakingOn(acc, at, d) == InTurn(LAMBDA on, s : Retaking(on, at, s, d), acc, LocationsInOrder)
Reclaiming(p, at) ==
    InTurn(LAMBDA acc, d : RetakingOn(acc, at, d), [p |-> p, at |-> NoLines, left |-> 0], DaysInOrder)
Holding(acc, i, r) == [p |-> r.p, held |-> [acc.held EXCEPT ![i] = r.at]]

\* A slip: what may not be lost is taken back when its turn comes.
HeldFirst_InTurn(p, os) == [p |-> p, held |-> [i \in DOMAIN os |-> NoLines]]

\* Before any segment is planned again, what may not be lost is held.
HeldFirst(p, os) ==
    InTurn(LAMBDA acc, i : IF MayNotLose(os[i]) THEN Holding(acc, i, Reclaiming(acc.p, os[i].at)) ELSE acc,
             [p |-> p, held |-> [i \in DOMAIN os |-> NoLines]], Sequence(os))

Result(p, at) == [p |-> p, at |-> at]
Adding(at, r) == Result(r.p, Both(at, r.at))
ToppedUp(p, o, at) == IF o.qty > InAll(at) THEN Adding(at, Check(p, o, o.qty - InAll(at))) ELSE Result(p, at)

\* What it could have from the beginning, unless it is worse than what is held.
UnlessWorse(p, o, held, r) == IF Worse(o, r.at, held) THEN ToppedUp(p, o, held) ELSE Result(r.p, r.at)

\* Win and gain: again from the beginning with its own supply back, unless that is worse. Fill: what it has and more.
\* Lose: at most what it had. Redistribute: from the beginning.
Replanned(p, o, held) ==
    CASE StrategyOf(o) \in {"win", "gain"} -> UnlessWorse(p, o, held, Check(GivingBack(p, held), o, o.qty))
      [] StrategyOf(o) = "fill" -> ToppedUp(p, o, held)
      [] StrategyOf(o) = "lose" -> IF HasPromise(o) THEN Check(p, o, InAll(o.at)) ELSE Result(p, NoLines)
      [] StrategyOf(o) = "redistribute" -> Check(p, o, o.qty)

\* Backorder processing: who is in no segment keeps, what may not be lost is held, and the rest is planned again.
ReplannedFrom(os, first) ==
    InTurn(LAMBDA acc, i : Confirming(acc, i, Replanned(acc.p, os[i], first.held[i])),
           [p |-> first.p, os |-> os], Sequence(os))
Processed(os) == ReplannedFrom(os, HeldFirst(RegisteringOf(os, {i \in DOMAIN os : SegmentOf(os[i]) = 0}), os)).os

-----------------------------------------------------------------------------
Taken(o, at) == [qty |-> o.qty, date |-> o.date, complete |-> o.complete, priority |-> o.priority, at |-> at]

AcceptOrder ==
    /\ Len(orders) < MaxOrders
    /\ LET p == Entry(orders).p
       IN \E o \in Asked : orders' = Append(orders, Taken(o, Check(p, o, o.qty).at))
    /\ UNCHANGED supply

\* Promised again after all the others, those without a promise too.
ChangeOrder == \E i \in DOMAIN orders :
    /\ LET p == Entry(RemoveAt(orders, i)).p
       IN \E o \in Asked : orders' = [orders EXCEPT ![i] = Taken(o, Check(p, o, o.qty).at)]
    /\ UNCHANGED supply

CancelOrder == \E i \in DOMAIN orders : orders' = RemoveAt(orders, i) /\ UNCHANGED supply

CommitEntry == orders' = Entry(orders).os /\ UNCHANGED supply

Backorders == orders' = Processed(orders) /\ UNCHANGED supply

\* Goods are counted, posted, late or planned anew.
SupplyChanges == supply' \in Expected /\ UNCHANGED orders

PromiseInit == supply \in Expected /\ orders = <<>>

PromiseNext == AcceptOrder \/ ChangeOrder \/ CancelOrder \/ CommitEntry \/ Backorders \/ SupplyChanges

PromiseSpec == PromiseInit /\ [][PromiseNext]_promiseVars

-----------------------------------------------------------------------------
(* Properties.                                                                *)

\* Every variable holds values of its kind, and no order is promised more than it asks for.
PromiseTypeOK ==
    /\ supply \in [Locations -> [Ahead -> Nat]]
    /\ \A i \in DOMAIN orders : /\ \E o \in Asked : orders[i] = Taken(o, orders[i].at)
                                /\ orders[i].at \in [Locations -> [Ahead -> Nat]]
                                /\ InAll(orders[i].at) <= orders[i].qty

\* What is left at a location by a day when all that is promised ships.
PromisedOf(os, s, d) == SumFunctionOnSet([i \in DOMAIN os |-> os[i].at[s][d]], DOMAIN os)
Balance(os, s, j) == SumFunctionOnSet([d \in 0..j |-> supply[s][d] - PromisedOf(os, s, d)], 0..j)

\* Whatever is taken, changed, committed and processed again, no day of the window a location checks gets shorter of
\* supply than it was (atp.py, "without breaking an earlier promise later on").
NoShorter == [][orders' # orders /\ supply' = supply => \A s \in Locations : \A j \in Window(s) :
                  Balance(orders', s, j) >= 0 \/ Balance(orders', s, j) >= Balance(orders, s, j)]_promiseVars

Covered == \A s \in Locations : \A j \in Window(s) : Balance(orders, s, j) >= 0

\* The same orders, one of them that may not lose with less.
SomeKeeperLoses == DOMAIN orders' = DOMAIN orders /\ \E i \in DOMAIN orders :
    /\ orders'[i] = Taken(orders[i], orders'[i].at) /\ orders'[i].at # orders[i].at
    /\ MayNotLose(orders[i]) /\ Worse(orders[i], orders'[i].at, orders[i].at)

\* Backorder processing, while supply covers what is promised, leaves no order of a segment that may not lose with less
\* on time, or less in all (run.py, "Win, Gain and Fill may not lose").
KeepersKeep == [][SomeKeeperLoses /\ Covered => ~Backorders]_promiseVars

PromisedIn(ks) == LET days == {d \in Ahead : PeriodsOf(d) \cap ks # {}}
                  IN SumFunctionOnSet([x \in Locations \X days |-> PromisedOf(orders, x[1], x[2])], Locations \X days)
DrawnOn(ks) == UNION {ToSet(Chain(Periods[k].from)) : k \in ks}

\* No set of periods is promised more than the periods it may draw on hold, in whatever order what was carried forward
\* was taken, changed and given back; and nothing is promised in no period.
AllocationsKept == Periods # <<>> =>
    /\ \A ks \in SUBSET DOMAIN Periods :
           PromisedIn(ks) <= SumFunctionOnSet([k \in DOMAIN Periods |-> Periods[k].qty], DrawnOn(ks))
    /\ \A x \in Locations \X Ahead : PeriodsOf(x[2]) = {} => \A i \in DOMAIN orders : orders[i].at[x[1]][x[2]] = 0

\* Promises stand: with the orders that may not lose, when orders are processed again (run.py), and for the periods of
\* an allocation, which are not granted twice (engine.py).
PromisesStand == KeepersKeep /\ []AllocationsKept
===============================================================================
