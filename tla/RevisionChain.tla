---------------------------- MODULE RevisionChain ----------------------------
(***************************************************************************)
(* How the revisions of one company are kept (companies/store.py).         *)
(*                                                                         *)
(* Every save makes a revision. Most are kept as what changed since the    *)
(* revision before (a delta); a whole copy is kept when the chain of       *)
(* deltas would be too long, when the revision before is not kept, or when *)
(* the change is large. A database from before every save was kept holds   *)
(* whole copies with gaps between them.                                    *)
(*                                                                         *)
(* The module follows the two readings the code has of these rows: the one *)
(* that decides how a new revision is kept (_keep) and the one that opens  *)
(* an old revision (_doc_at), which look back over windows of different    *)
(* lengths and must agree.                                                 *)
(***************************************************************************)
EXTENDS Integers, FiniteSets

CONSTANTS
    Docs,           \* the documents a company can be
    NoDoc,          \* no document: a patch that does not fit
    FullEvery,      \* FULL_EVERY: the longest window without a whole copy
    Legacy,         \* the latest revision when the code that keeps all came
    MaxRevision     \* bound: revisions a behaviour makes

ASSUME FullEveryAssumption == FullEvery \in Nat \ {0}
ASSUME LegacyAssumption    == Legacy \in Nat \ {0}
ASSUME BoundAssumption     == MaxRevision \in Nat
ASSUME NoDocAssumption     == NoDoc \notin Docs

VARIABLES
    revision,       \* companies.revision: the latest
    dataset,        \* companies.dataset: the company as last saved
    rows,           \* company_revisions: revision -> the row kept for it
    putting,        \* a put-back between its reading and its saving
    saved           \* auxiliary: what each revision was when it was saved

vars == <<revision, dataset, rows, putting, saved>>

-----------------------------------------------------------------------------
Patch == [from : Docs, to : Docs]

Row   == [kind : {"full"}, data : Docs] \cup [kind : {"delta"}, data : Patch]

Idle  == [rev |-> 0, doc |-> NoDoc]

Kept    == DOMAIN rows
Full(r) == rows[r].kind = "full"

\* A patch fits only the document it was made from.
ApplyPatch(doc, p) == IF doc = p.from THEN p.to ELSE NoDoc

-----------------------------------------------------------------------------
(* _keep: the last FULL_EVERY rows decide whether a delta may be kept.      *)

Recent == {r \in Kept : Cardinality({s \in Kept : s > r}) < FullEvery}

\* A slip: a whole copy however far back will do.
MayBeDelta_NoWindow(rev) == \E f \in Kept : Full(f)

MayBeDelta(rev) == /\ rev - 1 \in Kept
                   /\ \E f \in Recent : Full(f)

\* A slip: the whole text is kept where a delta belongs.
KeepRow_WholeAsDelta(rev, before, after, small) ==
    [kind |-> IF MayBeDelta(rev) /\ small THEN "delta" ELSE "full", data |-> after]

\* `small`: the delta is less than a quarter of the whole text.
KeepRow(rev, before, after, small) ==
    IF MayBeDelta(rev) /\ small
    THEN [kind |-> "delta", data |-> [from |-> before, to |-> after]]
    ELSE [kind |-> "full", data |-> after]

-----------------------------------------------------------------------------
(* _doc_at: at most FULL_EVERY + 1 rows are read, down to a whole copy.     *)

Reaches(f, r) == /\ r - f <= FullEvery
                 /\ f..r \subseteq Kept
                 /\ Full(f)

Openable(r) == \E f \in 1..r : Reaches(f, r)

NearestFull(r) == CHOOSE f \in 1..r : /\ Reaches(f, r)
                                      /\ \A g \in (f + 1)..r : ~Full(g)

DocAt(r) ==
    LET first == NearestFull(r)
        doc[i \in first..r] ==
            IF i = first THEN rows[i].data ELSE ApplyPatch(doc[i - 1], rows[i].data)
    IN  doc[r]

(* _kept: the revisions the history offers to open, with no window at all.  *)
Offered ==
    LET listed[r \in 0..revision] ==
            r \in Kept /\ (Full(r) \/ listed[r - 1])
    IN  {r \in 1..revision : listed[r]}

-----------------------------------------------------------------------------
(* A database as the code before it left it: the latest revision and some   *)
(* earlier ones kept whole; a new company is Legacy = 1.                    *)
Init ==
    /\ revision = Legacy
    /\ saved \in [1..Legacy -> Docs]
    /\ dataset = saved[Legacy]
    /\ \E whole \in SUBSET (1..Legacy) :
          /\ Legacy \in whole
          /\ rows = [r \in whole |-> [kind |-> "full", data |-> saved[r]]]
    /\ putting = Idle

\* A slip: a save that changes nothing makes a revision too.
Commit_Unchanged(doc, small) ==
    /\ revision < MaxRevision
    /\ revision' = revision + 1 /\ dataset' = doc
    /\ rows' = [r \in Kept \cup {revision + 1} |->
                  IF r = revision + 1 THEN KeepRow(r, dataset, doc, small) ELSE rows[r]]
    /\ saved' = [r \in 1..(revision + 1) |-> IF r = revision + 1 THEN doc ELSE saved[r]]

\* The part of a save this module is about: the row moves on, and _keep.
Commit(doc, small) ==
    /\ revision < MaxRevision
    /\ doc # dataset                        \* unchanged text makes no revision
    /\ revision' = revision + 1
    /\ dataset' = doc
    /\ rows' = [r \in Kept \cup {revision + 1} |->
                  IF r = revision + 1 THEN KeepRow(r, dataset, doc, small) ELSE rows[r]]
    /\ saved' = [r \in 1..(revision + 1) |-> IF r = revision + 1 THEN doc ELSE saved[r]]

Save(doc, small) == Commit(doc, small) /\ UNCHANGED putting

\* restore reads the revision under the lock, and lets go of it (a revision
\* not kept is a 404, a patch that does not fit an error: nothing is put back).
RestoreRead(r) ==
    /\ putting = Idle
    /\ Openable(r)
    /\ DocAt(r) \in Docs
    /\ putting' = [rev |-> r, doc |-> DocAt(r)]
    /\ UNCHANGED <<revision, dataset, rows, saved>>

\* ... then saves it under the lock, other saves having come in between.
RestoreSave(small) ==
    /\ putting # Idle
    /\ putting' = Idle
    /\ \/ Commit(putting.doc, small)
       \/ putting.doc = dataset /\ UNCHANGED <<revision, dataset, rows, saved>>

\* The put-back's save is refused: the company moved on (see CompanyStore).
RestoreRefused ==
    /\ putting # Idle
    /\ putting' = Idle
    /\ UNCHANGED <<revision, dataset, rows, saved>>

Next == \/ \E doc \in Docs, small \in BOOLEAN : Save(doc, small)
        \/ \E r \in 1..revision : RestoreRead(r)
        \/ \E small \in BOOLEAN : RestoreSave(small)
        \/ RestoreRefused

Spec == Init /\ [][Next]_vars

-----------------------------------------------------------------------------
\* Type correctness: every row is a whole copy or a patch between documents.
TypeOK ==
    /\ revision \in Nat \ {0}
    /\ dataset \in Docs
    /\ Kept \subseteq 1..revision
    /\ \A r \in Kept : rows[r] \in Row
    /\ saved \in [1..revision -> Docs]
    /\ putting = Idle \/ putting \in [rev : 1..revision, doc : Docs]

\* _keep never makes a chain longer than _doc_at reads: every row kept, and so
\* every revision saved since all were kept, can be opened.
EveryKeptRowOpens ==
    /\ Legacy..revision \subseteq Kept
    /\ \A r \in Kept : Openable(r)

\* A revision opened is the company as it was saved, whatever chain of whole
\* copies and deltas it is rebuilt from (revision, text_at of an old one).
OpensAsSaved == \A r \in 1..revision : Openable(r) => DocAt(r) = saved[r]

\* Each row fits the ones around it: a whole copy is the revision, a delta
\* leads from the revision before to it, and the latest is the company.
RowsFit ==
    /\ dataset = saved[revision]
    /\ \A r \in Kept :
          IF Full(r) THEN rows[r].data = saved[r]
          ELSE r - 1 \in Kept /\ rows[r].data = [from |-> saved[r - 1], to |-> saved[r]]

\* The history offers a revision exactly when opening it succeeds (_kept looks
\* back without a limit, _doc_at over FULL_EVERY + 1 rows).
OfferedExactlyOpenable == Offered = {r \in 1..revision : Openable(r)}

\* The history offers every revision saved since all are kept, and what it offers
\* opens: the rule by which _keep ends a chain, the limit _doc_at reads with and
\* the scan _kept makes without one agree.
HistoryOpens == EveryKeptRowOpens /\ OfferedExactlyOpenable

\* A put-back saves the revision it was asked for as that was saved, however
\* many saves came between reading and saving it.
PutBackIsTheRevision == putting # Idle => putting.doc = saved[putting.rev]

\* Nothing is lost by saving or putting back: what could be opened still can,
\* and is the same.
NothingKeptIsLost ==
    [][\A r \in 1..revision : Openable(r) => Openable(r)' /\ saved'[r] = saved[r]]_vars

-----------------------------------------------------------------------------
\* What a reader of the company's history sees: the revisions that open.
Opened == [r \in {s \in 1..revision : Openable(s)} |-> DocAt(r)]

Table == INSTANCE RevisionTable WITH latest <- revision, table <- Opened,
                                     asked <- putting.rev

\* Whole copies, deltas, gaps and windows implement a plain table of documents.
\* A save adds the one saved and leaves every other as it opened before, and a
\* put-back adds what was asked for, also when saves came in between.
ImplementsTable == Table!Spec
=============================================================================
