----------------------------- MODULE PlanVersions -----------------------------
(* The plan versions of a company (versions/store.py): bases, frozen as they     *)
(* were saved, and scenarios branched from them to be edited, discarded or        *)
(* promoted to a new base.                                                        *)
(*                                                                            *)
(* Every operation is one transaction under the store's lock. A version is its      *)
(* place in the table; _next_id gives each a number of its own. Left out: names,     *)
(* notes, the log, and reading, which changes nothing.                             *)
EXTENDS Naturals, Sequences, FiniteSets

CONSTANTS
    Contents,       \* what a company's data may be
    MaxVersions     \* bound: the versions made

ASSUME PlanVersionsAssumption == MaxVersions \in Nat

VARIABLE versions   \* in the order they were made: [kind, parent, status, content]

NoVersion == 0

AllMade == Len(versions) = MaxVersions
Made(kind, parent, content) == [kind |-> kind, parent |-> parent, status |-> "active", content |-> content]

VersionsInit == versions = <<>>

SaveBase(c) == ~AllMade /\ versions' = Append(versions, Made("base", NoVersion, c))

\* A slip: what it is branched from is not kept.
Branch_Rootless(v) == /\ ~AllMade /\ versions[v].status # "discarded"
                      /\ versions' = Append(versions, Made("scenario", NoVersion, versions[v].content))

Branch(v) ==
    /\ ~AllMade
    /\ versions[v].status # "discarded"
    /\ versions' = Append(versions, Made("scenario", v, versions[v].content))

Active(v) == versions[v].kind = "scenario" /\ versions[v].status = "active"

\* A slip: a base may be written over.
Update_Any(v, c) == /\ versions[v].status = "active" /\ c # versions[v].content
                    /\ versions' = [versions EXCEPT ![v].content = c]

Update(v, c) ==
    /\ Active(v) /\ c # versions[v].content
    /\ versions' = [versions EXCEPT ![v].content = c]

Discard(v) == Active(v) /\ versions' = [versions EXCEPT ![v].status = "discarded"]

\* What it was branched from, what that scenario was, and so on up to a base: what is in every set of versions that
\* holds the first and the parents of its own scenarios.
Lineage(v) == {u \in DOMAIN versions : \A S \in SUBSET DOMAIN versions :
                  /\ versions[v].parent \in S
                  /\ \A w \in S : versions[w].kind = "scenario" => versions[w].parent \in S
                  => u \in S}

\* The nearest base it was branched from.
BaseOf(v) == CHOOSE b \in Lineage(v) : versions[b].kind = "base"

\* A slip: the scenario stays one that may be edited and promoted again.
Promote_Open(v) == /\ ~AllMade /\ Active(v)
                   /\ versions' = Append(versions, Made("base", v, versions[v].content))

\* A new base with the scenario's content; the base it comes from is superseded.
Promote(v) ==
    /\ ~AllMade /\ Active(v)
    /\ LET root == BaseOf(v)
           marked == [u \in DOMAIN versions |->
                        IF u = v THEN [versions[u] EXCEPT !.status = "promoted"]
                        ELSE IF u = root /\ versions[u].status = "active" THEN [versions[u] EXCEPT !.status = "superseded"]
                        ELSE versions[u]]
       IN versions' = Append(marked, Made("base", v, versions[v].content))

VersionsNext ==
    \/ \E c \in Contents : SaveBase(c)
    \/ \E v \in DOMAIN versions : Branch(v) \/ Discard(v) \/ Promote(v) \/ \E c \in Contents : Update(v, c)

-----------------------------------------------------------------------------
VersionsTypeOK ==
    \A v \in DOMAIN versions :
        /\ versions[v] \in [kind : {"base", "scenario"}, parent : 0..(v - 1), content : Contents,
                            status : {"active", "discarded", "promoted", "superseded"}]
        /\ versions[v].kind = "scenario" => versions[v].parent # NoVersion

PromotedTo(v) == {b \in DOMAIN versions : versions[b].kind = "base" /\ versions[b].parent = v}

\* What was promoted was promoted once, and still is what the base made of it is; a base that was superseded has one
\* made of a scenario of its own (store.py, "it never rewrites the old one").
PromotionsStand ==
    \A v \in DOMAIN versions :
        /\ versions[v].status = "promoted"
           => \E b \in DOMAIN versions : PromotedTo(v) = {b} /\ versions[b].content = versions[v].content
        /\ versions[v].status # "promoted" => PromotedTo(v) = {}
        /\ versions[v].status = "superseded"
           => \E u \in DOMAIN versions : versions[u].status = "promoted" /\ BaseOf(u) = v
=============================================================================
