------------------------------- MODULE Merging -------------------------------
(***************************************************************************)
(* A merge asked for: two people worked from one save of a company, and the   *)
(* working copy of the one is merged into what the other saved.              *)
(* Which saves and edits there are is left to the constants; Merge3 says       *)
(* what a merge makes of them.                                               *)
(***************************************************************************)
EXTENDS Merge3

CONSTANTS
    Bases,          \* the saves both can have worked from
    MineOn,         \* per base, the working copies
    TheirsOn,       \* per base, the latest saves
    Decisions(_)    \* per set of clashes, what may be decided of them: a side for
                    \* some ("choose"), and mine for all where every save in
                    \* between was the same person's ("preferMine")

ASSUME MergingAssumption ==
    \A b \in Bases :
        /\ Document(b) /\ PointsHome(b)
        /\ \A d \in MineOn[b] \cup TheirsOn[b] : Document(d)

VARIABLES
    given,      \* the three documents
    decided,    \* what was decided; Absent before
    merged      \* what the merge made; Absent before
mergingVars == <<given, decided, merged>>

MergingInit ==
    /\ \E b \in Bases : \E m \in MineOn[b], t \in TheirsOn[b] :
          /\ NoNumberAgain(b, m, t)
          /\ given = [base |-> b, mine |-> m, theirs |-> t]
    /\ decided = Absent /\ merged = Absent

\* merge_save: the clashes are decided and the documents merged.
DoMerge ==
    /\ merged = Absent
    /\ \E d \in Decisions(Conflicts(given.base, given.mine, given.theirs)) :
          /\ decided' = d
          /\ merged' = Merge(given.base, given.mine, given.theirs, d.choose, d.preferMine)
    /\ UNCHANGED given

MergingNext == DoMerge
MergingSpec == MergingInit /\ [][MergingNext]_mergingVars

-----------------------------------------------------------------------------
Done == merged # Absent

\* A merge loses neither side's work: theirs stays where it was, and mine is all
\* there, renumbered only out of the way.
BothSurvive ==
    Done => /\ TheirsStay(given.base, given.mine, given.theirs, merged)
            /\ MineStay(given.base, given.mine, given.theirs, merged)

\* Nothing in what a merge makes points at what is not there, or at something else
\* than it did.
NothingDangles ==
    Done => /\ LinksFollow(given.base, given.mine, given.theirs, merged)
            /\ LinesHaveHeaders(given.base, given.mine, given.theirs, merged)

\* With nothing renumbered and no clash, whoever saves first the company is the
\* same.
EitherOrder ==
    /\ Done
    /\ Conflicts(given.base, given.mine, given.theirs) = {}
    /\ Renumbered(given.base, given.mine, given.theirs) = given.mine
    => merged = Merge(given.base, given.theirs, given.mine, [k \in {} |-> "mine"], FALSE)
=============================================================================
