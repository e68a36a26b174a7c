---------------------------- MODULE CompanyStore ----------------------------
(***************************************************************************)
(* One company on the server (companies/store.py): the revisions its       *)
(* members save, merge and put back, and the master-data changes that wait *)
(* for a second person.                                                    *)
(*                                                                         *)
(* Every request is served under the store's lock (see StoreLock), so it   *)
(* is one step here, whatever it carries: any document, based on any       *)
(* revision, from any window. What the windows really send is the subject  *)
(* of WindowSaves. The one place where a request makes two transactions,   *)
(* the approval of a held change, is two steps, and the server process may *)
(* stop between them.                                                      *)
(***************************************************************************)
EXTENDS Merge3, Sequences

CONSTANTS
    Users,          \* members who may edit (owners and planners)
    Clients,        \* browser windows (the X-Client header)
    NoClient,       \* a request without the header
    Docs,           \* documents a request may carry
    Choices,        \* what a person may choose, per clash, in a merge
    MaxRevision,    \* bound: revisions
    MaxRequests     \* bound: changes held

ASSUME DocsAssumption == \A d \in Docs : d = [k \in DOMAIN d |-> d[k]]
ASSUME ClientAssumption == NoClient \notin Clients

VARIABLES
    log,        \* company_revisions, the latest being companies.dataset
    approval,   \* companies.approval
    requests,   \* change_requests
    deciding,   \* the request an approval has saved and not yet marked, or 0
    cut,        \* auxiliary: the requests whose approval was cut short
    last        \* auxiliary: the request the last step served

vars == <<log, approval, requests, deciding, cut, last>>

-----------------------------------------------------------------------------
Revision == Len(log)
Current  == log[Revision].doc

NoRequest == [action |-> "none", user |-> NoClient, client |-> NoClient,
              base |-> 0, quiet |-> TRUE]

\* Master data waits for approval, with it on: settings and named records. (The
\* planning date and the released inputs, kept in the settings, do not: they
\* are of a kind of their own here, "working".)
IsMaster(k) == k[1] \in {"setting", "record"}

MasterPart(doc) == [k \in {j \in DOMAIN doc : IsMaster(j)} |-> doc[k]]

\* split_master: the document with its master data as it was.
WithoutMaster(current, doc) ==
    [k \in {j \in DOMAIN doc : ~IsMaster(j)} \cup {j \in DOMAIN current : IsMaster(j)} |->
        IF IsMaster(k) THEN current[k] ELSE doc[k]]

\* A slip: what the company has now is not looked at.
Stale_Never(current, q) == FALSE

\* apply_held: the records the held change makes different, on the company now.
HeldKeys(q) == {k \in DOMAIN q.before \cup DOMAIN q.after : At(q.before, k) # At(q.after, k)}

Stale(current, q) == \E k \in HeldKeys(q) : At(current, k) # At(q.before, k)

ApplyHeld(current, q) ==
    [k \in (DOMAIN current \ HeldKeys(q)) \cup (HeldKeys(q) \cap DOMAIN q.after) |->
        IF k \in HeldKeys(q) THEN q.after[k] ELSE current[k]]

-----------------------------------------------------------------------------
\* A slip: any window of the same person passes for this one.
Own_AnyWindow(base, user, client) ==
    client # NoClient /\ \A n \in (base + 1)..Revision : log[n].user = user

\* _own: every save after `base` came from this window.
Own(base, user, client) ==
    /\ client # NoClient
    /\ \A n \in (base + 1)..Revision : log[n].user = user /\ log[n].client = client

\* merge_save: every save after `base` was this person's, from any window.
MineOnly(base, user) == \A n \in (base + 1)..Revision : log[n].user = user

\* What save refuses with 409: a base the company moved on from, unless only
\* this window's own saves moved it.
Accepted(base, user, client) ==
    \/ base = Revision
    \/ 0 < base /\ base < Revision /\ Own(base, user, client)

Entry(doc, user, client) == [doc |-> doc, user |-> user, client |-> client]

HeldRequest(user, before, after) ==
    [asker |-> user, before |-> before, after |-> after, status |-> "pending",
     decider |-> NoClient, made |-> 0]

\* The body of save once the base is accepted: master data is held apart when
\* approval is on, an unchanged company makes no revision, and what is held is
\* recorded with the revision, or without one when nothing else changed.
Store(doc, user, client, action) ==
    LET apart == approval /\ action # "approved"
        text  == IF apart THEN WithoutMaster(Current, doc) ELSE doc
        held  == apart /\ MasterPart(doc) # MasterPart(Current)
    IN  /\ log' = IF text = Current THEN log ELSE Append(log, Entry(text, user, client))
        /\ requests' = IF held
                       THEN Append(requests, HeldRequest(user, MasterPart(Current), MasterPart(doc)))
                       ELSE requests

Serves(action, user, client, base, quiet) ==
    last' = [action |-> action, user |-> user, client |-> client, base |-> base, quiet |-> quiet]

Ready == deciding = 0

Bounded == Revision < MaxRevision /\ Len(requests) < MaxRequests

-----------------------------------------------------------------------------
Init ==
    /\ \E d \in Docs, u \in Users : log = <<Entry(d, u, NoClient)>>
    /\ approval \in BOOLEAN
    /\ requests = <<>>
    /\ deciding = 0
    /\ cut = {}
    /\ last = NoRequest

\* save: the working copy over revision `base`.
Save(user, client, doc, base) ==
    /\ Ready /\ Bounded
    /\ Accepted(base, user, client)
    /\ Store(doc, user, client, "saved")
    /\ Serves("saved", user, client, base, TRUE)
    /\ UNCHANGED <<approval, deciding, cut>>

\* restore: an earlier revision saved again over `base`.
Restore(user, client, rev, base) ==
    /\ Ready /\ Bounded
    /\ Accepted(base, user, client)
    /\ Store(log[rev].doc, user, client, "restored")
    /\ Serves("restored", user, client, base, TRUE)
    /\ UNCHANGED <<approval, deciding, cut>>

\* merge_save: the working copy, made from the document `from` of revision
\* `base`, merged with the saves since. `quiet` (clean_only): refused when a
\* record was changed on both sides and somebody else saved in between;
\* otherwise the person has been shown what the merge does, and chose.
MergeFrom(user, client, from, mine, base, quiet, choose) ==
    /\ Ready /\ Bounded
    /\ base < Revision
    /\ LET only == MineOnly(base, user)
       IN  /\ quiet => only \/ Conflicts(from, mine, Current) = {}
           /\ Store(Merge(from, mine, Current, choose, only), user, client, "merged")
    /\ Serves("merged", user, client, base, quiet)
    /\ UNCHANGED <<approval, deciding, cut>>

\* ... with the revision as it is kept here for its base. (A window that has
\* just merged sends the base itself: see WindowSaves.)
MergeSave(user, client, mine, base, quiet, choose) ==
    MergeFrom(user, client, log[base].doc, mine, base, quiet, choose)

\* set_approval (an owner's; that there are two who can edit is Members').
SetApproval(on) ==
    /\ Ready
    /\ approval' = on
    /\ last' = NoRequest
    /\ UNCHANGED <<log, requests, deciding, cut>>

\* A slip: the one who asked may approve.
Approve_Own(user, client, i) ==
    /\ Ready /\ Revision < MaxRevision
    /\ requests[i].status = "pending" /\ ~Stale(Current, requests[i])
    /\ LET new == ApplyHeld(Current, requests[i])
       IN  log' = IF new = Current THEN log ELSE Append(log, Entry(new, user, client))
    /\ requests' = [requests EXCEPT ![i].made = @ + 1]
    /\ deciding' = i
    /\ Serves("approved", user, client, Revision, TRUE)
    /\ UNCHANGED <<approval, cut>>

\* decide, approve: the held change is made and saved, in a transaction of its
\* own, over the company as it is now.
Approve(user, client, i) ==
    /\ Ready /\ Revision < MaxRevision
    /\ requests[i].status = "pending"
    /\ requests[i].asker # user
    /\ ~Stale(Current, requests[i])
    /\ LET new == ApplyHeld(Current, requests[i])
       IN  log' = IF new = Current THEN log ELSE Append(log, Entry(new, user, client))
    /\ requests' = [requests EXCEPT ![i].made = @ + 1]
    /\ deciding' = i
    /\ Serves("approved", user, client, Revision, TRUE)
    /\ UNCHANGED <<approval, cut>>

\* ... and then marked, by another.
MarkApproved ==
    /\ deciding # 0
    /\ requests' = [requests EXCEPT ![deciding].status = "approved",
                                    ![deciding].decider = last.user]
    /\ deciding' = 0
    /\ last' = NoRequest
    /\ UNCHANGED <<log, approval, cut>>

\* The process stops between the two: the lock goes with it.
Crash ==
    /\ deciding # 0
    /\ cut' = cut \cup {deciding}
    /\ deciding' = 0
    /\ last' = NoRequest
    /\ UNCHANGED <<log, approval, requests>>

\* A slip: the decision's name is kept for its outcome.
Refuse_ByName(user, i) ==
    /\ Ready /\ requests[i].status = "pending"
    /\ requests' = [requests EXCEPT
                       ![i].status = IF requests[i].asker = user THEN "withdraw" ELSE "reject",
                       ![i].decider = user]
    /\ last' = NoRequest
    /\ UNCHANGED <<log, approval, deciding, cut>>

\* decide, reject (another) and withdraw (the one who asked).
Refuse(user, i) ==
    /\ Ready
    /\ requests[i].status = "pending"
    /\ requests' = [requests EXCEPT
                       ![i].status = IF requests[i].asker = user THEN "withdrawn" ELSE "rejected",
                       ![i].decider = user]
    /\ last' = NoRequest
    /\ UNCHANGED <<log, approval, deciding, cut>>

Next ==
    \/ \E u \in Users, c \in Clients \cup {NoClient}, b \in 1..Revision :
          \/ \E d \in Docs : Save(u, c, d, b)
          \/ \E r \in 1..Revision : Restore(u, c, r, b)
          \/ \E d \in Docs, quiet \in BOOLEAN, x \in Choices : MergeSave(u, c, d, b, quiet, x)
    \/ \E on \in BOOLEAN : SetApproval(on)
    \/ \E u \in Users, i \in 1..Len(requests) :
          \/ \E c \in Clients \cup {NoClient} : Approve(u, c, i)
          \/ Refuse(u, i)
    \/ MarkApproved
    \/ Crash

Spec == Init /\ [][Next]_vars

-----------------------------------------------------------------------------
IsDoc(d) == d = [k \in DOMAIN d |-> d[k]]

IsEntry(e) ==
    /\ e \in [doc : {e.doc}, user : Users, client : Clients \cup {NoClient}]
    /\ IsDoc(e.doc)

IsRequest(q) ==
    q \in [asker : Users, before : {q.before}, after : {q.after},
           status : {"pending", "approved", "rejected", "withdrawn"},
           decider : Users \cup {NoClient}, made : Nat]

\* Type correctness: the company always has a latest revision, every revision is
\* a document somebody who may edit made, and every change held is in one of the
\* four states.
TypeOK ==
    /\ log \in Seq({log[n] : n \in DOMAIN log}) /\ Len(log) > 0
    /\ \A n \in 1..Len(log) : IsEntry(log[n])
    /\ approval \in BOOLEAN
    /\ requests \in Seq({requests[i] : i \in DOMAIN requests})
    /\ \A i \in 1..Len(requests) : IsRequest(requests[i])
    /\ deciding \in 0..Len(requests)
    /\ cut \subseteq 1..Len(requests)
    /\ deciding # 0 => last.user \in Users

\* Who made every revision after `base`.
AllByUser(base, user)           == \A n \in (base + 1)..Revision : log[n].user = user
AllFromWindow(base, user, client) ==
    /\ client # NoClient
    /\ \A n \in (base + 1)..Revision : log[n].user = user /\ log[n].client = client

\* The company after the step.
After == log'[Len(log')].doc

\* Never over a colleague unseen: when a step that asks nobody (a save, a
\* put-back, a quiet merge, an approval) replaces a record that is no longer as
\* the revision it was based on had it, then every save since was made in the
\* same window, or, merging, by the same person.
NeverOverUnseen ==
    [][\A k \in DOMAIN Current \cup DOMAIN After :
          /\ log' # log /\ last'.quiet
          /\ At(After, k) # At(Current, k)
          /\ At(Current, k) # At(log[last'.base].doc, k)
          => IF last'.action = "merged" THEN AllByUser(last'.base, last'.user)
             ELSE AllFromWindow(last'.base, last'.user, last'.client)]_vars

\* With approval on, master data changes only by an approval, which makes
\* exactly a change someone else asked for, of records that are still as they
\* were when it was asked for.
TwoPeople ==
    [][approval /\ MasterPart(After) # MasterPart(Current)
       => \E i \in 1..Len(requests) :
             /\ requests[i].status = "pending" /\ requests[i].asker # last'.user
             /\ \A k \in DOMAIN Current \cup DOMAIN After :
                   At(After, k) # At(Current, k) =>
                      /\ At(Current, k) = At(requests[i].before, k)
                      /\ At(After, k) = At(requests[i].after, k)]_vars

\* Outside a decision, and unless an approval of it was cut short, a held change
\* has been made exactly when it is marked approved, and then once; and whoever
\* approved or rejected it did not ask it.
MadeWhenApproved ==
    \A i \in 1..Len(requests) :
        /\ deciding # i /\ i \notin cut =>
               requests[i].made = IF requests[i].status = "approved" THEN 1 ELSE 0
        /\ requests[i].status \in {"approved", "rejected"} => requests[i].decider # requests[i].asker

\* A change that waits has not been made: until it is approved the company keeps
\* what it had.
WaitingNotMade ==
    \A i \in 1..Len(requests) :
        deciding # i /\ requests[i].status = "pending" => requests[i].made = 0

\* Earlier revisions and decisions stay as they were made.
HistoryStays ==
    [][/\ \A n \in 1..Revision : n \in DOMAIN log' /\ log'[n] = log[n]
       /\ \A i \in 1..Len(requests) :
             requests[i].status # "pending" => requests'[i] = requests[i]]_vars
=============================================================================
