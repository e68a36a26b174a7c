------------------------------- MODULE SupplyPlan -------------------------------
(* The supply plan of a network, and planning it again after a change (plan/mrp.py). *)
(*                                                                            *)
(* A plan goes through the places a product is at, consumers before what          *)
(* supplies them: a place's requirements are netted against its stock and firm      *)
(* orders, what is short is ordered, and each order hands its input places           *)
(* requirements. The next plan does again ("replays") what it keeps of the places      *)
(* no change reached.                                                           *)
(*                                                                            *)
(* One source for each place, one unit of each input for each unit, a lead time        *)
(* in days whatever the quantity, every day a working day, a fixed safety stock.        *)
(* Left out: shelf life, DDMRP, periodic review, reorder points, forecasts and           *)
(* assembly planning, quotas, machines, follow-up products, costs and exceptions;          *)
(* capacity-constrained plans and co-products, which are planned whole, never again.          *)
(* A plan reads only the kept work and its own data, none of which is written after,           *)
(* so that asking for a plan is one step.                                                       *)
EXTENDS Integers, Sequences, FiniteSets, FiniteSetsExt

CONSTANTS
    Nodes,          \* how many places, 1..Nodes in the order they are planned
    Inputs,         \* what a place's orders draw on: the origin of a transfer, the parts made into it
    Kind,           \* how a place is supplied: "transfer", "make" or "buy"
    LeadTime,       \* in days
    ToOrder,        \* whether it is made to order
    Lot,            \* how orders are sized: [policy, size]
    Fence,          \* the end of its planning time fence, 0 for none
    Firmed,         \* whether nothing new is ordered inside the fence
    BucketStarts,   \* the days a bucket starts
    LastDay,        \* the last day planned
    Datasets,       \* bound: the company's data, as it may become, in a sequence
    Planners,
    NoWork          \* no plan's work is kept

ASSUME SupplyPlanAssumption ==
    /\ Nodes \in Nat \ {0} /\ LastDay \in Nat /\ BucketStarts \subseteq 0..LastDay
    /\ \A n \in 1..Nodes : /\ Inputs[n] \subseteq (n + 1)..Nodes
                           /\ (Kind[n] = "buy") <=> (Inputs[n] = {})
                           /\ LeadTime[n] \in Nat /\ Fence[n] \in Nat
    /\ \A c, d \in DOMAIN Datasets : Datasets[c] = Datasets[d] => c = d

VARIABLES
    kept,       \* each planner's last plan's work
    last        \* the work of the last plan that took long, handed to whoever asks for a plan of the same data

planVars == <<kept, last>>

Network == 1..Nodes
Days == 0..LastDay
Never == 10 * (LastDay + 1)     \* longer than any delay adds up to
NoSalesOrder == 0
SomePriority == 5               \* of what one place requires of another

Larger(a, b) == IF a > b THEN a ELSE b
Smaller(a, b) == IF a < b THEN a ELSE b
QtyOf(S) == MapThenSumSet(LAMBDA x : x.qty, S)
Precedes(a, b) == \E i \in DOMAIN a : a[i] < b[i] /\ \A j \in 1..(i - 1) : a[j] = b[j]

-----------------------------------------------------------------------------
(* Requirements and supplies. A requirement's number starts with 0 for a sales  *)
(* order, 1 for an order's part and 2 for what a transfer draws; a supply's      *)
(* with 0 for stock, 1 for a firm order and 2 for a planned one.                *)

Sales == 0
Transferred == 2

\* What a place's orders require of its inputs.
HandedBy(n, orders) ==
    {[node |-> p, id |-> <<IF Kind[n] = "make" THEN 1 ELSE 2, n, k>>, day |-> orders[k].start, qty |-> orders[k].qty,
      priority |-> SomePriority] : k \in DOMAIN orders, p \in Inputs[n]}
Came(nodes, n) == UNION {{r \in HandedBy(m, nodes[m].orders) : r.node = n} : m \in {m \in 1..(n - 1) : n \in Inputs[m]}}

\* The sales orders at a place itself.
Seeded(c, n) == {[node |-> n, id |-> <<Sales, d.so, 0>>, day |-> d.day, qty |-> d.qty, priority |-> d.priority] :
                    d \in {d \in Datasets[c].demand : d.node = n}}
Requirements(c, nodes, n) == Seeded(c, n) \cup Came(nodes, n)

FirmAt(c, n) == {f \in Datasets[c].firm : f.node = n}
StockAt(c, n) == {s \in Datasets[c].stock : s.node = n}
Supply(id, day, qty) == [id |-> id, day |-> day, qty |-> qty]
HeldFor(c, n, so) == {Supply(<<0, so, 0>>, 0, s.qty) : s \in {s \in StockAt(c, n) : s.so = so}}
                     \cup {Supply(<<1, f.id, 0>>, f.day, f.qty) : f \in {f \in FirmAt(c, n) : f.so = so}}
HoldersAt(c, n) == {x.so : x \in StockAt(c, n) \cup FirmAt(c, n)} \ {NoSalesOrder}
FreeStock(c, n) == {Supply(<<0, 0, 0>>, 0, s.qty) : s \in {s \in StockAt(c, n) : s.so = NoSalesOrder}}
FreeFirm(c, n) == {f \in FirmAt(c, n) : f.so = NoSalesOrder}

\* A slip: of several sales orders, one.
OnlyOne_OfThem(S) == IF S = {} THEN NoSalesOrder ELSE CHOOSE x \in S : TRUE

OnlyOne(S) == IF Cardinality(S) = 1 THEN CHOOSE x \in S : TRUE ELSE NoSalesOrder

\* The sales order a requirement serves, and the one that all an order is for serves.
SalesOrderOf(nodes, r) == IF r.id[1] = Sales THEN r.id[2]
                          ELSE IF r.id[1] = Transferred THEN nodes[r.id[2]].serves[r.id[3]] ELSE NoSalesOrder
ServedBy(nodes, pegs, n, k) == OnlyOne({SalesOrderOf(nodes, p.req) : p \in {p \in pegs : p.supply = <<2, n, k>>}})

\* First come, first served: supplies in their order to needs by day, or by day and then priority; each a set of [of, qty].
Matched(needs, supplies, first) ==
    LET needKey(r) == (IF first = "priority" THEN <<r.of.day, r.of.priority>> ELSE <<r.of.day>>) \o r.of.id
        before(x, X, key(_)) == QtyOf({y \in X : Precedes(key(y), key(x))})
        supplyKey(s) == <<s.of.day>> \o s.of.id
        from(r, s) == Larger(before(r, needs, needKey), before(s, supplies, supplyKey))
        to(r, s) == Smaller(before(r, needs, needKey) + r.qty, before(s, supplies, supplyKey) + s.qty)
    IN {p \in {[supply |-> s.of.id, req |-> r.of, qty |-> to(r, s) - from(r, s)] : r \in needs, s \in supplies} : p.qty > 0}

Whole(S) == {[of |-> x, qty |-> x.qty] : x \in S}

\* Stock and firm orders held for a sales order go to it alone.
OwnFirst(c, nodes, n) ==
    UNION {Matched(Whole({r \in Requirements(c, nodes, n) : SalesOrderOf(nodes, r) = so}), Whole(HeldFor(c, n, so)), "day")
           : so \in HoldersAt(c, n)}

\* A slip: all that is required is netted against the free supply.
Netted_Whole(c, nodes, n, fixed) == Whole(Requirements(c, nodes, n))

\* What is left for the free supply.
Netted(c, nodes, n, fixed) ==
    {r \in {[of |-> r, qty |-> r.qty - QtyOf({p \in fixed : p.req = r})] : r \in Requirements(c, nodes, n)} : r.qty > 0}

-----------------------------------------------------------------------------
(* Netting a place, day by day: st is what is there (avail), when each free firm *)
(* order counts (at) and the orders made.                                       *)

\* A slip: an order may have started before the first day planned.
AvailableOn_Backdated(n, d) == Larger(d, Fence[n])

\* When a new order for day d is there: scheduled back from the day, or on from the first day planned.
AvailableOn(n, d) == Larger(Larger(d, Fence[n]), LeadTime[n])

\* Later firm orders counted for a shortage on d: those within the rescheduling horizon, and those a new order could
\* not arrive before, soonest first until they cover it.
BroughtIn(c, n, st, d, short) ==
    LET reach == Larger(d + Datasets[c].horizon, AvailableOn(n, d))
        may == {f \in DOMAIN st.at : d < st.at[f] /\ st.at[f] <= reach}
    IN {f \in may : QtyOf({g \in may : Precedes(<<g.day, g.id>>, <<f.day, f.id>>)}) < short}

\* The quantities a shortage on d is ordered in; by periods, with what is short until the bucket size buckets ahead.
LotsOf(n, d, short, required, at) ==
    LET size == Lot[n].size
        later == {b \in BucketStarts : b > d}
        ends == {b \in later : Cardinality({x \in later : x <= b}) = size}
        until == IF ends = {} THEN LastDay + 1 ELSE Min(ends)
        window == QtyOf({r \in required : d < r.of.day /\ r.of.day < until})
                  - QtyOf({f \in DOMAIN at : d < at[f] /\ at[f] < until})
    IN IF ToOrder[n] \/ Lot[n].policy = "exact" THEN <<short>>
       ELSE IF Lot[n].policy = "fixed" THEN [i \in 1..((short + size - 1) \div size) |-> size]
       ELSE <<short + Larger(0, window)>>

PlannedOrder(n, d, qty) == [need |-> d, qty |-> qty, start |-> AvailableOn(n, d) - LeadTime[n],
                            there |-> AvailableOn(n, d), so |-> NoSalesOrder]

\* The day's firm orders brought in and its lots ordered.
Ordered(n, st, d, lots) ==
    [st EXCEPT !.avail = @ + MapThenSumSet(LAMBDA i : lots[i], DOMAIN lots),
               !.orders = @ \o [i \in DOMAIN lots |-> PlannedOrder(n, d, lots[i])]]
Bring(st, d, brought) ==
    [st EXCEPT !.avail = @ + QtyOf(brought), !.at = [f \in DOMAIN @ |-> IF f \in brought THEN d ELSE @[f]]]

\* What is still short is ordered, unless inside a fence that lets nothing new be ordered.
OrderedFor(n, required, st, d, short) ==
    IF short <= 0 \/ (Firmed[n] /\ d < Fence[n]) THEN st ELSE Ordered(n, st, d, LotsOf(n, d, short, required, st.at))

ShortOf(c, n, st) == (IF ToOrder[n] THEN 0 ELSE Datasets[c].safety[n]) - st.avail
ToBring(c, n, st, d, short) == IF short > 0 THEN BroughtIn(c, n, st, d, short) ELSE {}

\* A day the stock is checked: bring firm orders in, then order what is still short.
Checked(c, n, required, st, d) ==
    LET counted == Bring(st, d, ToBring(c, n, st, d, ShortOf(c, n, st)))
    IN OrderedFor(n, required, counted, d, ShortOf(c, n, counted))

NetDay(c, n, required, st, d) ==
    LET moved == [st EXCEPT !.avail = @ + QtyOf({f \in DOMAIN st.at : st.at[f] = d})
                                        - QtyOf({r \in required : r.of.day = d})]
    IN IF d \in BucketStarts \/ \E r \in required : r.of.day = d THEN Checked(c, n, required, moved, d) ELSE moved

Net(c, n, required) ==
    LET nothing == [avail |-> QtyOf(FreeStock(c, n)), at |-> [f \in FreeFirm(c, n) |-> f.day], orders |-> <<>>]
        upTo[d \in -1..LastDay] == IF d < 0 THEN {nothing} ELSE {NetDay(c, n, required, st, d) : st \in upTo[d - 1]}
    IN CHOOSE st \in upTo[LastDay] : TRUE

\* Its supply pegged to its requirements by date, and an order made for one sales order marked so.
Pegged(c, nodes, n, fixed, required, net) ==
    LET free == FreeStock(c, n) \cup {Supply(<<1, f.id, 0>>, net.at[f], f.qty) : f \in FreeFirm(c, n)}
                \cup {Supply(<<2, n, k>>, net.orders[k].need, net.orders[k].qty) : k \in DOMAIN net.orders}
        pegs == fixed \cup Matched(required, Whole(free), "priority")
    IN [pegs |-> pegs,
        orders |-> [k \in DOMAIN net.orders |->
                       [net.orders[k] EXCEPT !.so = IF ToOrder[n] THEN ServedBy(nodes, pegs, n, k) ELSE NoSalesOrder]]]

\* A place planned: what is left of its requirements netted, and its supply pegged to them.
PlanNode(c, nodes, n) ==
    LET fixed == OwnFirst(c, nodes, n)
        required == Netted(c, nodes, n, fixed)
    IN Pegged(c, nodes, n, fixed, required, Net(c, n, required))

-----------------------------------------------------------------------------
(* Planning again: a place nothing reached is replayed.                         *)

\* The daily demand planning a place reckons with: its own, and that of all it supplies.
Flow(c) == LET flow[n \in Network] == QtyOf(Seeded(c, n))
                                       + MapThenSumSet(LAMBDA m : flow[m], {m \in 1..(n - 1) : n \in Inputs[m]})
           IN flow

\* All planning a place reads of the data.
KeyOf(c, n) == <<Seeded(c, n), StockAt(c, n), FirmAt(c, n), Datasets[c].safety[n], Flow(c)[n]>>

\* Its plan reads its consumers' plans.
ReadsUp(c, n) == ToOrder[n] \/ HoldersAt(c, n) # {}

\* A slip: whether its consumers were planned again is not asked.
Clean_AsHanded(c, work, nodes, n) ==
    /\ work # NoWork
    /\ Came(nodes, n) = Came(work.nodes, n)
    /\ KeyOf(c, n) = KeyOf(work.of, n)

Clean(c, work, nodes, n) ==
    /\ work # NoWork
    /\ Came(nodes, n) = Came(work.nodes, n)
    /\ ReadsUp(work.of, n) => \A r \in Came(nodes, n) : ~nodes[r.id[2]].touched
    /\ KeyOf(c, n) = KeyOf(work.of, n)

\* A place as it stands in the plan; serves is what its orders serve, asked of the pegs while places after it are planned.
Place(nodes, n, m, touched) ==
    [pegs |-> m.pegs, orders |-> m.orders, touched |-> touched,
     serves |-> [k \in DOMAIN m.orders |-> IF m.orders[k].so # NoSalesOrder THEN m.orders[k].so
                                           ELSE ServedBy(nodes, m.pegs, n, k)]]

Replayed(work, n) == [pegs |-> work.nodes[n].pegs, orders |-> work.nodes[n].orders]

\* Every place in turn.
Places_InTurn(c, work) ==
    LET place(nodes, n) == IF Clean(c, work, nodes, n) THEN Place(nodes, n, Replayed(work, n), FALSE)
                           ELSE Place(nodes, n, PlanNode(c, nodes, n), TRUE)
        upTo[n \in 0..Nodes] == IF n = 0 THEN {<<>>} ELSE {Append(nodes, place(nodes, n)) : nodes \in upTo[n - 1]}
    IN CHOOSE nodes \in upTo[Nodes] : TRUE

\* The day each unit of a peg is there; the units of an order go to its requirements earliest first.
DaysOf(c, m, p) ==
    LET order(q) == <<q.req.day, q.req.priority>> \o q.req.id
        first == QtyOf({q \in m.pegs : q.supply = p.supply /\ Precedes(order(q), order(p))})
    IN CASE p.supply[1] = 0 -> [i \in 1..p.qty |-> 0]
         [] p.supply[1] = 1 -> [i \in 1..p.qty |-> (CHOOSE f \in Datasets[c].firm : f.id = p.supply[2]).day]
         [] p.supply[1] = 2 -> SubSeq(m.done[p.supply[3]], first + 1, first + p.qty)

\* The day each of so many units is there, when those of the pegs came on these days.
Earliest(qty, came) ==
    LET by(d) == MapThenSumSet(LAMBDA p : Cardinality({i \in DOMAIN came[p] : came[p][i] <= d}), DOMAIN came)
        days == {Never} \cup UNION {{came[p][i] : i \in DOMAIN came[p]} : p \in DOMAIN came}
    IN [i \in 1..qty |-> Min({d \in days : d = Never \/ by(d) >= i})]

\* The day each unit of a requirement is there, at the place m.
Arrivals(c, m, r) ==
    Earliest(r.qty, [p \in {p \in m.pegs : p.req = r} |-> DaysOf(c, m, p)])

\* The day each unit of an order is there: later by what the latest of its inputs, come on these days, is late by.
DoneAfter(o, came) ==
    [i \in 1..o.qty |-> IF \E r \in DOMAIN came : came[r][i] = Never THEN Never
                        ELSE o.there + Max({0} \cup {came[r][i] - o.start : r \in DOMAIN came})]

\* The same in a plan, below being the inputs' places.
ProjectedDone(c, below, n, o, k) ==
    DoneAfter(o, [r \in HandedBy(n, [i \in {k} |-> o]) |-> Arrivals(c, below[r.node], r)])

\* Projected availability, suppliers before consumers; after a change only where a place was planned again or one of
\* its inputs now arrives differently.
Propagate(c, work, nodes) ==
    LET told(m, n) == {r.id[2] : r \in {r \in Came(nodes, n) : Arrivals(c, m, r) # Arrivals(work.of, work.nodes[n], r)}}
        anew(st, n) == work = NoWork \/ n \in st.again
        done(st, n) == IF anew(st, n) THEN [k \in DOMAIN nodes[n].orders |-> ProjectedDone(c, st.at, n, nodes[n].orders[k], k)]
                       ELSE work.nodes[n].done
        put(st, n, m) == [at |-> [st.at EXCEPT ![n] = m],
                          again |-> st.again \cup (IF work # NoWork /\ anew(st, n) THEN told(m, n) ELSE {})]
        step(st, n) == put(st, n, [pegs |-> nodes[n].pegs, orders |-> nodes[n].orders, done |-> done(st, n)])
        from[n \in 1..(Nodes + 1)] ==
            IF n > Nodes THEN {[at |-> [i \in Network |-> NoWork], again |-> {i \in Network : nodes[i].touched}]}
            ELSE {step(st, n) : st \in from[n + 1]}
    IN (CHOOSE st \in from[1] : TRUE).at

\* A plan of the data, from the kept work where its settings are the data's, else from nothing.
PlanAgain(c, work) ==
    LET use == IF work # NoWork /\ Datasets[work.of].horizon = Datasets[c].horizon THEN work ELSE NoWork
    IN [of |-> c, nodes |-> Propagate(c, use, Places_InTurn(c, use))]

-----------------------------------------------------------------------------
(* Asking for a plan.                                                           *)

\* The newest work is kept; others' may have to make room for it.
Keep(who, work) == \E dropped \in SUBSET (Planners \ {who}) :
    kept' = [p \in Planners |-> IF p = who THEN work ELSE IF p \in dropped THEN NoWork ELSE kept[p]]

HandedOut(who, c) == last # NoWork /\ last.of = c /\ Keep(who, last) /\ UNCHANGED last

RunMrp(who, c) ==
    /\ ~(last # NoWork /\ last.of = c)
    /\ \E work \in {PlanAgain(c, kept[who])} :
          /\ Keep(who, work)
          /\ last' \in {last, work}

PlanInit == kept = [p \in Planners |-> NoWork] /\ last = NoWork

PlanNext == \E who \in Planners, c \in DOMAIN Datasets : HandedOut(who, c) \/ RunMrp(who, c)

PlanSpec == PlanInit /\ [][PlanNext]_planVars

-----------------------------------------------------------------------------
(* Properties.                                                                  *)

KeptWork == ({kept[p] : p \in Planners} \cup {last}) \ {NoWork}

OrderOf == [need : Days, qty : Nat \ {0}, start : Nat, there : Nat, so : Nat]

\* Every variable holds values of its kind, and no planned order arrives before its lead time has passed.
PlanTypeOK ==
    \A w \in KeptWork : /\ w.of \in DOMAIN Datasets /\ DOMAIN w.nodes = Network
                        /\ \A n \in Network : \A k \in DOMAIN w.nodes[n].orders :
                              LET o == w.nodes[n].orders[k]
                              IN /\ o \in OrderOf /\ o.there = o.start + LeadTime[n]
                                 /\ w.nodes[n].done[k] \in [1..o.qty -> o.there..Never]

FromScratch == [c \in DOMAIN Datasets |-> PlanAgain(c, NoWork)]

\* However the data went back and forth and whoever's work was at hand, a plan is the one planning from scratch makes
\* (plan_again and the tests that plan again after random changes).
AsFromScratch == \A w \in KeptWork : w = FromScratch[w.of]

\* The sales orders that what a place requires ends up at, followed through the whole plan.
EndsAt(w) ==
    LET ends[n \in Network] == [k \in DOMAIN w.nodes[n].orders |->
            UNION {IF p.req.id[1] = Sales THEN {p.req.id[2]}
                   ELSE IF p.req.id[1] = Transferred THEN ends[p.req.id[2]][p.req.id[3]] ELSE {NoSalesOrder} :
                   p \in {p \in w.nodes[n].pegs : p.supply = <<2, n, k>>}}]
    IN ends

\* What is held for or made to a sales order ends up at that order and at no other (_segments, the end of _peg).
ServesItsOrder == \A w \in KeptWork : \A n \in Network : \A p \in w.nodes[n].pegs :
    LET so == CASE p.supply[1] = 0 -> p.supply[2]
                [] p.supply[1] = 1 -> (CHOOSE f \in Datasets[w.of].firm : f.id = p.supply[2]).so
                [] p.supply[1] = 2 -> w.nodes[n].orders[p.supply[3]].so
        ends == IF p.req.id[1] = Sales THEN {p.req.id[2]}
                ELSE IF p.req.id[1] = Transferred THEN EndsAt(w)[p.req.id[2]][p.req.id[3]] ELSE {NoSalesOrder}
    IN so # NoSalesOrder => ends = {so}

\* All that is required is supplied, once the fence lets it be ordered; and where orders are of what is short and no
\* stock is wanted, all of every order is required by the day it is for.
NeedsMet == \A w \in KeptWork : \A n \in Network :
    LET m == w.nodes[n] IN
    /\ \A r \in Requirements(w.of, w.nodes, n) :
          QtyOf({p \in m.pegs : p.req = r}) = r.qty
    /\ (Lot[n].policy = "exact" /\ Datasets[w.of].safety[n] = 0) => \A k \in DOMAIN m.orders :
          QtyOf({p \in m.pegs : p.supply = <<2, n, k>> /\ p.req.day <= m.orders[k].need}) = m.orders[k].qty

\* Every requirement is served, and by what is held or made for it.
Served == ServesItsOrder /\ NeedsMet
=============================================================================
