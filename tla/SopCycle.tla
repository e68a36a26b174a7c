------------------------------- MODULE SopCycle -------------------------------
(* The monthly planning cycle of a company, signed off step by step              *)
(* (sop/cycle.py). A sign-off is made in three parts: the step is looked at        *)
(* under the store's lock, its figures are worked out and the company frozen as     *)
(* a base version (PlanVersions), and then it is recorded under the lock again.     *)
(*                                                                            *)
(* A cycle's steps are in a constant sequence, all of the code's or some of them.    *)
(* Figures stand for the content they are of. Left out: minutes, which are given,    *)
(* and the cycle's log.                                                           *)
EXTENDS PlanVersions

CONSTANTS
    Steps,          \* in their order; the last is the executive's
    Supplying,      \* those whose figures need the plan solved
    Blocked,        \* contents with blocking problems: not to be signed as data
    Unsolved,       \* contents the plan does not solve
    People, Owners, \* who may change the company, and its owners among them
    Months,         \* the months a cycle may be of, a set of numbers
    NoCycle, NoCall, NoOwner,
    MaxOwned        \* bound: the steps somebody owns

ASSUME SopCycleAssumption ==
    /\ Steps \in Seq(STRING) /\ Len(Steps) > 0 /\ Months \subseteq Nat /\ Owners \subseteq People
    /\ Blocked \subseteq Contents /\ Unsolved \subseteq Contents

VARIABLES
    cycles,     \* by month: NoCycle, or [closed, steps]; a step is [owner, signed, version, figures]
    signing     \* by person: the sign-off being made, [month, step, content, version]

sopVars == <<versions, cycles, signing>>

Number == 1..Len(Steps)
Last == Len(Steps)
Has(m) == cycles[m] # NoCycle
Signed(m) == {n \in Number : cycles[m].steps[n].signed}
NextStep(m) == CHOOSE n \in (Number \cup {Last + 1}) \ Signed(m) : \A k \in (Number \cup {Last + 1}) \ Signed(m) : n <= k

\* Its owner or an owner of the company; one nobody owns, anyone who may change the company, but the executive's.
May(p, m, n) ==
    LET owner == cycles[m].steps[n].owner
    IN p \in Owners \/ owner = p \/ (owner = NoOwner /\ n # Last)

-----------------------------------------------------------------------------
\* The owners of its steps carry over from the latest earlier cycle.
Create(m) ==
    /\ ~Has(m)
    /\ LET earlier == {k \in Months : k < m /\ Has(k)}
           owner(n) == IF earlier = {} THEN NoOwner
                       ELSE LET k == CHOOSE k \in earlier : \A j \in earlier : j <= k IN cycles[k].steps[n].owner
       IN cycles' = [cycles EXCEPT ![m] = [closed |-> FALSE, steps |-> [n \in Number |->
                        [owner |-> owner(n), signed |-> FALSE, version |-> NoVersion, figures |-> NoVersion]]]]
    /\ UNCHANGED <<versions, signing>>

\* A cycle with a sign-off on record stays.
Delete(m) ==
    /\ Has(m)
    /\ \A n \in Number : ~cycles[m].steps[n].signed /\ cycles[m].steps[n].version = NoVersion
    /\ cycles' = [cycles EXCEPT ![m] = NoCycle]
    /\ UNCHANGED <<versions, signing>>

Owned == {x \in Months \X Number : Has(x[1]) /\ cycles[x[1]].steps[x[2]].owner # NoOwner}

SetOwner(m, n, who) ==
    /\ Has(m) /\ who # cycles[m].steps[n].owner
    /\ who # NoOwner => Cardinality(Owned \ {<<m, n>>}) < MaxOwned
    /\ cycles' = [cycles EXCEPT ![m].steps[n].owner = who]
    /\ UNCHANGED <<versions, signing>>

Looks(p, m, n, c) ==
    /\ signing[p] = NoCall
    /\ Has(m) /\ NextStep(m) = n /\ May(p, m, n)
    /\ ~(Steps[n] = "data" /\ c \in Blocked) /\ ~(Steps[n] \in Supplying /\ c \in Unsolved)
    /\ signing' = [signing EXCEPT ![p] = [month |-> m, step |-> n, content |-> c, version |-> NoVersion]]
    /\ UNCHANGED <<versions, cycles>>

Freezes(p) ==
    /\ signing[p] # NoCall /\ signing[p].version = NoVersion
    /\ SaveBase(signing[p].content)
    /\ signing' = [signing EXCEPT ![p].version = Len(versions')]
    /\ UNCHANGED cycles

\* The step with a sign-off of this content, frozen as this version.
SignedOff(m, n, c, v) ==
    [cycles EXCEPT ![m].steps[n] = [owner |-> @.owner, signed |-> TRUE, version |-> v, figures |-> c],
                   ![m].closed = @ \/ n = Last]

\* A slip: whether it is still the next is not asked again.
Records_Unasked(p) ==
    LET s == signing[p] IN
    /\ s # NoCall /\ s.version # NoVersion
    /\ signing' = [signing EXCEPT ![p] = NoCall]
    /\ cycles' = IF Has(s.month) THEN SignedOff(s.month, s.step, s.content, s.version) ELSE cycles
    /\ UNCHANGED versions

\* Signed meanwhile, or the cycle deleted: it is refused, and the version stays.
Records(p) ==
    LET s == signing[p] IN
    /\ s # NoCall /\ s.version # NoVersion
    /\ signing' = [signing EXCEPT ![p] = NoCall]
    /\ cycles' = IF Has(s.month) /\ NextStep(s.month) = s.step THEN SignedOff(s.month, s.step, s.content, s.version)
                 ELSE cycles
    /\ UNCHANGED versions

\* A slip: later steps stay signed.
Reopen_Alone(p, m, n) ==
    /\ Has(m) /\ n \in Signed(m) /\ May(p, m, n)
    /\ cycles' = [cycles EXCEPT ![m].steps[n].signed = FALSE, ![m].closed = FALSE]
    /\ UNCHANGED <<versions, signing>>

\* Every later signed step with it; their versions stay on record.
Reopen(p, m, n) ==
    /\ Has(m) /\ n \in Signed(m) /\ May(p, m, n)
    /\ cycles' = [cycles EXCEPT ![m].closed = FALSE,
                                ![m].steps = [k \in Number |-> IF k >= n THEN [@[k] EXCEPT !.signed = FALSE] ELSE @[k]]]
    /\ UNCHANGED <<versions, signing>>

SopInit == VersionsInit /\ cycles = [m \in Months |-> NoCycle] /\ signing = [p \in People |-> NoCall]

SopNext ==
    \/ VersionsNext /\ UNCHANGED <<cycles, signing>>
    \/ \E m \in Months : \/ Create(m) \/ Delete(m)
                         \/ \E n \in Number, who \in People \cup {NoOwner} : SetOwner(m, n, who)
                         \/ \E p \in People, n \in Number : Reopen(p, m, n) \/ \E c \in Contents : Looks(p, m, n, c)
    \/ \E p \in People : Freezes(p) \/ Records(p)

SopSpec == SopInit /\ [][SopNext]_sopVars

-----------------------------------------------------------------------------
\* Every variable holds values of its kind.
SopTypeOK ==
    /\ VersionsTypeOK
    /\ \A m \in Months : Has(m) => cycles[m] \in
          [closed : BOOLEAN, steps : [Number -> [owner : People \cup {NoOwner}, signed : BOOLEAN,
                                                version : 0..Len(versions), figures : Contents \cup {NoVersion}]]]
    /\ \A p \in People : signing[p] # NoCall => signing[p] \in
          [month : Months, step : Number, content : Contents, version : 0..Len(versions)]

\* However many sign, reopen, delete and start a cycle at once: its steps are signed off in order, it is closed when
\* all are, and what was frozen at a sign-off stays what its figures are of, whatever becomes of the scenarios made of
\* it (cycle.py, "signed off in order", "the frozen versions stay as they were"; versions/store.py).
SignedInOrder ==
    /\ \A m \in Months : Has(m) =>
          /\ \A n \in Signed(m) : 1..n \subseteq Signed(m)
          /\ cycles[m].closed <=> Signed(m) = Number
          /\ \A n \in Number : LET s == cycles[m].steps[n] IN
                /\ s.signed => s.version # NoVersion
                /\ s.version # NoVersion => /\ versions[s.version].kind = "base"
                                            /\ versions[s.version].content = s.figures
    /\ PromotionsStand
=============================================================================
