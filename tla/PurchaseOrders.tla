---------------------------- MODULE PurchaseOrders ----------------------------
(* One purchase order worked on by several people of a company at a time       *)
(* (purchasing/__init__.py, companies/guards.py, companies/store.py).          *)
(*                                                                            *)
(* Each window has a working copy of the company. The order's actions change   *)
(* the copy; a save checks who released what against the company as saved, and *)
(* a save made from an earlier revision is merged first, record by record: the *)
(* order's header, each of its lines and each goods receipt is a record. A copy *)
(* is its window's own until it is saved, so one is followed at a time, opened *)
(* on any revision: the others' saves since are the revisions after it.        *)
EXTENDS Integers, Sequences, FiniteSets, Functions

CONSTANTS
    Clerks,        \* the people who buy and release
    ByHand,        \* those whose saves may carry a header written by hand
    PoLines,       \* the order's lines
    MaxQty,        \* bound: what one line asks for
    Above,         \* the values above which each release level is needed, ascending
    Approvers,     \* who may release at each level; {} is anyone
    MaxPoSaves,    \* bound: revisions
    MaxEdits       \* bound: actions between two saves of one window

ASSUME PoAssumption ==
    /\ ByHand \subseteq Clerks
    /\ Above \in Seq(Nat) /\ Len(Approvers) = Len(Above)
    /\ \A k \in DOMAIN Above : Approvers[k] \subseteq Clerks
    /\ \A j, k \in DOMAIN Above : j < k => Above[j] <= Above[k]
    /\ IsFiniteSet(PoLines)
    /\ {MaxQty, MaxEdits} \subseteq Nat /\ MaxPoSaves \in Nat \ {0}

VARIABLES
    revisions,   \* the order in each revision of the company
    desk         \* the working copy in somebody's window, and the revision it was made from

poVars == <<revisions, desk>>

-----------------------------------------------------------------------------
(* The order: header, lines (0 is no line), lines with goods received.         *)

Ranks == DOMAIN Above
Releases == [level : Ranks, by : Clerks]
Headers == [approvals : SUBSET Releases, approved : BOOLEAN, sent : BOOLEAN, cancelled : SUBSET PoLines,
            gone : BOOLEAN]
\* mixed is auxiliary: a merge has put one person's header over another's lines, or somebody wrote the header by hand.
PurchaseDocs == [header : Headers, lines : [PoLines -> 0..MaxQty], got : SUBSET PoLines, mixed : BOOLEAN]

Open(d) == {l \in PoLines : d.lines[l] > 0}

Value(d) == SumFunctionOnSet(d.lines, PoLines)

\* The levels an order's value needs, and the next of them without a release.
Needed(d) == {k \in Ranks : Value(d) > Above[k]}
LevelsOf(given) == {a.level : a \in given}
GiversOf(given) == {a.by : a \in given}
IsNext(k, need, given) == /\ k \in need \ LevelsOf(given)
                          /\ \A j \in need \ LevelsOf(given) : k <= j
Suffice(levels, d) == Needed(d) \subseteq levels
MayGive(p, k) == Approvers[k] = {} \/ p \in Approvers[k]

-----------------------------------------------------------------------------
(* The actions on an order, in a working copy.                                *)

CanRelease(d, p, k) == /\ IsNext(k, Needed(d), d.header.approvals)
                       /\ MayGive(p, k)
                       /\ p \notin GiversOf(d.header.approvals)

Released(d, p, k) ==
    [d EXCEPT !.header = [d.header EXCEPT !.approvals = @ \cup {[level |-> k, by |-> p]},
                                          !.approved = Suffice(LevelsOf(d.header.approvals) \cup {k}, d)]]

\* A slip: only the change that first takes the order above a limit takes its release back.
Changed_FirstLimit(d, l, q) ==
    LET new == [d EXCEPT !.lines[l] = q]
    IN IF Needed(new) # {} /\ Needed(d) = {}
       THEN [new EXCEPT !.header.approved = FALSE, !.header.sent = FALSE, !.header.approvals = {}]
       ELSE new

\* A line changed: an order worth more, above a limit, is released again from the start.
Changed(d, l, q) ==
    LET new == [d EXCEPT !.lines[l] = q]
    IN IF Needed(new) # {} /\ Value(new) > Value(d)
       THEN [new EXCEPT !.header.approved = FALSE, !.header.sent = FALSE, !.header.approvals = {}]
       ELSE new

LastLine(d, l) == Open(d) = {l}

\* A line cancelled; an order left with none goes.
LineCancelled(d, l) ==
    [d EXCEPT !.lines[l] = 0, !.header = [d.header EXCEPT !.cancelled = @ \cup {l}, !.gone = LastLine(d, l)]]

NoDesk == [who |-> "nobody"]

Works(d) == /\ desk.edits < MaxEdits
            /\ desk' = [desk EXCEPT !.copy = d, !.edits = @ + 1]
            /\ UNCHANGED revisions

Copy == desk.copy
OnTheOrder == desk # NoDesk /\ ~Copy.header.gone

ReleaseLevel == OnTheOrder /\ \E k \in Ranks : CanRelease(Copy, desk.who, k) /\ Works(Released(Copy, desk.who, k))

\* Nothing is left to release: marked so.
Clear == /\ OnTheOrder /\ ~Copy.header.approved /\ Suffice(LevelsOf(Copy.header.approvals), Copy)
         /\ Works([Copy EXCEPT !.header.approved = TRUE])

SendOrder == OnTheOrder /\ Copy.header.approved /\ Works([Copy EXCEPT !.header.sent = TRUE])

ChangeLine == OnTheOrder /\ \E l \in Open(Copy), q \in 1..MaxQty : Works(Changed(Copy, l, q))

ReceiveLine == OnTheOrder /\ \E l \in Open(Copy) : Works([Copy EXCEPT !.got = @ \cup {l}])

CancelLine == OnTheOrder /\ \E l \in Open(Copy) \ Copy.got : Works(LineCancelled(Copy, l))

\* A save may carry a header written by hand: a release more, in anybody's name, or one less.
WriteByHand ==
    /\ OnTheOrder /\ desk.who \in ByHand
    /\ \E x \in Releases, approved \in BOOLEAN :
          Works([Copy EXCEPT !.header.approvals = IF x \in @ THEN @ \ {x} ELSE @ \cup {x},
                             !.header.approved = approved, !.mixed = TRUE])

-----------------------------------------------------------------------------
(* Saving (guards.py check_releases, store.py save, merge_save, restore).       *)

Latest == revisions[Len(revisions)]

SameRelease(b, a) == a.header.approved = b.header.approved /\ a.header.approvals = b.header.approvals
TakenBack(b, a) == ~a.header.approved /\ a.header.approvals \subseteq b.header.approvals
NotThere(b, a) == b.header.gone /\ ~a.header.approved /\ a.header.approvals = {}

\* A slip: the person's other releases of the order are not looked at.
Releasable_Twice(b, a, p) ==
    LET before == IF b.header.gone THEN {} ELSE b.header.approvals
        kept == a.header.approvals \cap before
        new == a.header.approvals \ before
    IN /\ \A r, s \in new : r = s
       /\ \A r \in new : r.by = p /\ IsNext(r.level, Needed(a), kept) /\ MayGive(p, r.level)
       /\ a.header.approved => Suffice(LevelsOf(a.header.approvals), a)

\* The releases added are the next needed, in the name of who saves, who gave none before; a released order has all.
Releasable(b, a, p) ==
    LET before == IF b.header.gone THEN {} ELSE b.header.approvals
        kept == a.header.approvals \cap before
        new == a.header.approvals \ before
    IN /\ \A r, s \in new : r = s
       /\ \A r \in new : /\ r.by = p
                         /\ IsNext(r.level, Needed(a), kept) /\ MayGive(p, r.level)
                         /\ p \notin GiversOf(kept)
       /\ a.header.approved => Suffice(LevelsOf(a.header.approvals), a)

Guarded(b, a, p) == \/ a.header.gone
                    \/ ~b.header.gone /\ (SameRelease(b, a) \/ TakenBack(b, a))
                    \/ NotThere(b, a)
                    \/ Releasable(b, a, p)

\* A revision more, and the window is left.
Keeps(d) == /\ revisions' = IF d = Latest THEN revisions ELSE Append(revisions, d)
            /\ desk' = NoDesk

SavePo == /\ desk # NoDesk /\ desk.base = Len(revisions)
          /\ Guarded(Latest, Copy, desk.who)
          /\ Keeps(Copy)

\* One record of three versions: a difference on both sides is whose version the person chooses.
Picks(b, m, t) == IF m = t \/ m = b THEN {t} ELSE IF t = b THEN {m} ELSE {m, t}

\* The header, each line, and the receipts, which add up.
Merged(b, m, t) ==
    {IF [d EXCEPT !.mixed = m.mixed] = m THEN m ELSE IF [d EXCEPT !.mixed = t.mixed] = t THEN t ELSE d :
        d \in [header : Picks(b.header, m.header, t.header),
              lines : {g \in [PoLines -> 0..MaxQty] : \A l \in PoLines : g[l] \in Picks(b.lines[l], m.lines[l], t.lines[l])},
              got : {m.got \cup t.got},
              mixed : {TRUE}]}

MergePo == /\ desk # NoDesk /\ desk.base < Len(revisions)
           /\ \E d \in Merged(revisions[desk.base], Copy, Latest) : Guarded(Latest, d, desk.who) /\ Keeps(d)

\* A window opened when r was the latest revision; one left without a save.
OpenPo == /\ desk = NoDesk /\ Len(revisions) < MaxPoSaves
          /\ \E p \in Clerks, r \in DOMAIN revisions :
                desk' = [who |-> p, base |-> r, copy |-> revisions[r], edits |-> 0]
          /\ UNCHANGED revisions

LeavePo == desk # NoDesk /\ desk' = NoDesk /\ UNCHANGED revisions

\* A revision put back carries the releases it was saved with.
PutBackPo == /\ desk = NoDesk /\ Len(revisions) < MaxPoSaves
             /\ \E r \in DOMAIN revisions : Keeps(revisions[r])

-----------------------------------------------------------------------------
PoInit ==
    /\ \E f \in [PoLines -> 1..MaxQty] :
          LET d == [header |-> [approvals |-> {}, approved |-> TRUE, sent |-> FALSE, cancelled |-> {}, gone |-> FALSE],
                    lines |-> f, got |-> {}, mixed |-> FALSE]
          IN revisions = <<[d EXCEPT !.header.approved = Suffice({}, d)]>>
    /\ desk = NoDesk

Buying == ReleaseLevel \/ Clear \/ SendOrder \/ ChangeLine \/ ReceiveLine \/ CancelLine \/ WriteByHand
Saving == OpenPo \/ LeavePo \/ SavePo \/ MergePo \/ PutBackPo

PoNext == Buying \/ Saving

PoSpec == PoInit /\ [][PoNext]_poVars

PoTypeOK == /\ revisions \in Seq(PurchaseDocs) /\ Len(revisions) \in 1..MaxPoSaves
            /\ \/ desk = NoDesk
               \/ desk \in [who : Clerks, base : DOMAIN revisions, copy : PurchaseDocs, edits : 0..MaxEdits]

\* While the order stands, each person has released it at one level at most, whatever the saves carry, however they
\* are merged and whichever revision is put back (guards.py; purchasing approve: "someone else releases the next").
NobodyReleasesTwice ==
    \A r \in DOMAIN revisions :
       LET h == revisions[r].header IN ~h.gone => \A a, b \in h.approvals : a.by = b.by => a = b

\* An order that its own people's actions made, saved, is released only as far as its value was released: raised,
\* changed back, released level by level and put back (guards.py; change: "needs approving again").
ReleasedAsRaised ==
    \A r \in DOMAIN revisions :
       LET d == revisions[r]
       IN ~d.mixed /\ ~d.header.gone /\ d.header.approved => Suffice(LevelsOf(d.header.approvals), d)

\* "An order is marked released only when every level its value needs has a release" (guards.py:17).
ReleasedInFull ==
    \A r \in DOMAIN revisions :
       LET d == revisions[r] IN ~d.header.gone /\ d.header.approved => Suffice(LevelsOf(d.header.approvals), d)
==============================================================================
