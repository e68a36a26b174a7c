------------------------------ MODULE ErpOrders ------------------------------
(* One order on its way to the ERP and back (connect/erp.py, connect/apps/     *)
(* send.py, api/connect.py, companies/store.py).                              *)
(*                                                                            *)
(* A company's saves enter, change, cancel, delete, complete and put back the  *)
(* order. The ERP is told of it in one of two ways. Either it asks, takes what *)
(* is listed and acknowledges in a message of its own, which may be late or    *)
(* come twice; or jobs of the server send what is pending to the other system, *)
(* whose answer may be lost, and acknowledge what was taken. Both work from    *)
(* what they read earlier, while saves go on; and runs of sending jobs, the     *)
(* clock's, a person's "Run now" or those of two jobs, may overlap, each        *)
(* looking for the order in the other system and then making or changing it.    *)
(* (A request is carried out while its run waits for the answer, or never.)     *)
EXTENDS Integers, Sequences, FiniteSets

CONSTANTS
    OrderContents, \* what the ERP needs of an order: lines, quantities, dates
    Cancelled,     \* the content of an order all of whose lines are cancelled
    Channels,      \* the ways the ERP is told: "asks", "job"
    SendRuns,      \* runs of sending jobs, as many as may be under way at once
    JobOf,         \* the job of each
    MaxRefs,       \* bound: numbers the other system gives
    MaxAcks,       \* bound: messages of an ERP that asks under way at a time
    MaxSaves       \* bound: saves by people

ASSUME ErpAssumption ==
    /\ Cancelled \notin OrderContents
    /\ Channels \subseteq {"asks", "job"}
    /\ DOMAIN JobOf = SendRuns
    /\ {MaxRefs, MaxAcks, MaxSaves} \subseteq Nat

VARIABLES
    channel,    \* how the ERP is told
    order,      \* the order in the company's latest save
    past,       \* the order in the revisions kept
    row,        \* its row of erp_withdrawn
    seen,       \* the messages received
    there,      \* the other system's copies, by number
    sender,     \* the server's sending runs
    asked,      \* what an asking ERP has listed and not worked off
    mail,       \* its acknowledgements under way
    closedFor,  \* auxiliary: the withdrawals the other system has worked off
    crossed,    \* auxiliary: whether two runs looked for the order in vain, and neither had made it yet
    astray,     \* auxiliary: whether a save brought back an earlier state of the order, or took it away unnumbered
    tokens,     \* lifecycles and withdrawals so far
    saves       \* saves by people so far

erpVars == <<channel, order, past, row, seen, there, sender, asked, mail, closedFor, crossed, astray, tokens, saves>>

-----------------------------------------------------------------------------
(* An order, a number, a version: 0 is "not numbered" and "first lifecycle".   *)

NoVersion == [of |-> "nothing", content |-> Cancelled, mark |-> 0]

Version(o) == [of |-> "order", content |-> o.content, mark |-> o.gen]

\* A slip: two withdrawals of an order under one number are one.
WithdrawnVersion_Alike(r) == [of |-> "withdrawal", content |-> Cancelled, mark |-> 0]

WithdrawnVersion(r) == [of |-> "withdrawal", content |-> Cancelled, mark |-> r.gen]

Versions == [of : {"nothing", "order", "withdrawal"}, content : OrderContents \cup {Cancelled}, mark : 0..MaxSaves]

Away(at) == [at |-> at, content |-> Cancelled, released |-> FALSE, ref |-> 0, sent |-> NoVersion, gen |-> 0]
Deleted == Away("deleted")
Completed == Away("completed")

Orders == [at : {"here", "deleted", "completed"}, content : OrderContents \cup {Cancelled}, released : BOOLEAN,
           ref : 0..MaxRefs, sent : Versions, gen : 0..MaxSaves]

IsHere(o) == o.at = "here"

NoRow == [ref |-> 0, gen |-> 0, taken |-> FALSE]
Rows == [ref : 0..MaxRefs, gen : 0..MaxSaves, taken : BOOLEAN]

Copies == [at : {"unmade", "open", "closed"}, content : OrderContents \cup {Cancelled}]

ChangeOf(o) == IF o.sent = Version(o) THEN "taken" ELSE IF o.sent # NoVersion THEN "changed" ELSE "new"

\* What the ERP is shown of an order: a cancelled one needs no release.
Shown(o) == IsHere(o) /\ (o.released \/ o.content = Cancelled)

OrderOut(o) == [version |-> Version(o), ref |-> o.ref, content |-> o.content, row |-> 0]
RowOut(r) == [version |-> WithdrawnVersion(r), ref |-> r.ref, content |-> Cancelled, row |-> r.gen]

Outbound == IF Shown(order) /\ ChangeOf(order) # "taken" THEN <<OrderOut(order)>> ELSE <<>>

Untaken(r) == r.ref # 0 /\ ~r.taken

Withdrawn(r) == IF Untaken(r) THEN <<RowOut(r)>> ELSE <<>>

Ended(o) == o.content = Cancelled

-----------------------------------------------------------------------------
(* A save (Companies.save): the order as saved, its row beside it.             *)

\* A slip: a restored order is only sent again.
Revive_SentAgain(before, after) ==
    IF IsHere(after) /\ ~IsHere(before) /\ row.taken THEN [after EXCEPT !.sent = NoVersion] ELSE after

\* An order that comes back after the ERP closed its copy starts a lifecycle; one put back keeps the present one's.
Revive(before, after) ==
    IF ~IsHere(after) THEN after
    ELSE IF ~IsHere(before) /\ row.taken THEN [after EXCEPT !.sent = NoVersion, !.gen = tokens + 1]
    ELSE IF IsHere(before) /\ before.gen # 0 /\ after.gen # before.gen
         THEN [after EXCEPT !.sent = NoVersion, !.gen = before.gen]
    ELSE after

\* A number that a save removes is withdrawn, an order that comes back is not.
RowAfter(before, after) ==
    IF IsHere(after) /\ ~IsHere(before) THEN NoRow
    ELSE IF before.ref # 0 /\ after.ref = 0 /\ after.at # "completed"
         THEN [ref |-> before.ref, gen |-> tokens + 1, taken |-> FALSE]
    ELSE row

\* The order comes back, or changes, to what it was in a revision before; or it goes before its number is known.
BringsBack(after) == /\ IsHere(after) /\ \E p \in past : IsHere(p) /\ Version(p) = Version(after)
                     /\ IsHere(order) => Version(after) # Version(order) \/ after.ref # order.ref
GoesUnnumbered(after) == IsHere(order) /\ ~IsHere(after) /\ order.ref = 0

SaveOrder(after) ==
    LET saved == Revive(order, after)
    IN /\ saved # order
       /\ order' = saved
       /\ past' = past \cup {saved}
       /\ row' = RowAfter(order, saved)
       /\ astray' = (astray \/ BringsBack(saved) \/ GoesUnnumbered(saved))
       /\ tokens' = IF saved.gen > tokens \/ row'.gen > tokens THEN tokens + 1 ELSE tokens

\* A save by someone of the company.
PersonSaves(after) ==
    /\ saves < MaxSaves
    /\ SaveOrder(after)
    /\ saves' = saves + 1
    /\ UNCHANGED <<channel, seen, there, sender, asked, mail, closedFor, crossed>>

Enter == /\ order.at = "deleted"
         /\ \E c \in OrderContents, released \in BOOLEAN :
               PersonSaves([Deleted EXCEPT !.at = "here", !.content = c, !.released = released])

\* A change that makes an order worth more may take its release back.
Alter == /\ IsHere(order) /\ order.content # Cancelled
         /\ \E c \in OrderContents \cup {Cancelled}, keeps \in BOOLEAN :
               PersonSaves([order EXCEPT !.content = c, !.released = @ /\ keeps])

Release == /\ IsHere(order) /\ order.content # Cancelled
           /\ PersonSaves([order EXCEPT !.released = TRUE])

Delete == IsHere(order) /\ PersonSaves(Deleted)

Complete == IsHere(order) /\ order.content # Cancelled /\ PersonSaves(Completed)

PutBack == \E p \in past : PersonSaves(p)

-----------------------------------------------------------------------------
(* Receiving acknowledgements (connect/messages.py receive, connect/erp.py      *)
(* acknowledge).                                                              *)

\* A slip: an order the ERP has numbered is taken already.
AckedOrder_Once(o, a) ==
    IF IsHere(o) /\ o.ref = 0 THEN [o EXCEPT !.ref = a.ref, !.sent = a.version] ELSE o

\* The order after an acknowledgement of it: one numbered otherwise stays as it is.
AckedOrder(o, a) ==
    IF IsHere(o) /\ o.ref \in {0, a.ref} THEN [o EXCEPT !.ref = a.ref, !.sent = a.version] ELSE o

\* The acknowledgement says that the withdrawn copy is closed.
Closes(a, gone, o) == /\ Untaken(gone) /\ ~Shown(o)
                      /\ a.ref = gone.ref /\ a.version = WithdrawnVersion(gone)

\* The order after an acknowledgement, gone being the withdrawal read before and first the order then: of an order
\* withdrawn and not shown, no acknowledgement is its own.
Ack(o, a, gone, first) == IF Untaken(gone) /\ ~Shown(first) THEN o ELSE AckedOrder(o, a)

\* One after the other: the order's, its withdrawal's, or both.
AckAll(acks, gone) ==
    LET first == Ack(order, acks[1], gone, order)
    IN  IF Len(acks) = 1 THEN first ELSE Ack(first, acks[2], gone, order)

Closed(acks, gone) == \E k \in DOMAIN acks : Closes(acks[k], gone, order)

Key(id, acks) == [id |-> id, acks |-> acks]

\* A message seen before changes nothing.
ReceiveAcks(key, acks, gone) ==
    /\ seen' = seen \cup {key}
    /\ LET after == IF key \in seen THEN order ELSE AckAll(acks, gone)
       IN IF after # order
          THEN /\ order' = Revive(order, after)
               /\ past' = past \cup {order'}
          ELSE UNCHANGED <<order, past>>

-----------------------------------------------------------------------------
(* The other system.                                                          *)

Numbers == 1..MaxRefs
NextNumber == Cardinality({n \in Numbers : there[n].at # "unmade"}) + 1

\* What the job's system finds by the order's number there, or, while it has none, by the number here among the
\* copies not cancelled (apps/odoo.py _find).
Found(o) == IF o.ref # 0 THEN {o.ref} ELSE {n \in Numbers : there[n].at = "open"}

\* It makes the copy, changes it or cancels it (send); what is written to a copy cancelled by now leaves it cancelled.
Sends(o, n) ==
    there' = [there EXCEPT ![n] = IF Ended(o) \/ @.at = "closed" THEN [at |-> "closed", content |-> Cancelled]
                                  ELSE [at |-> "open", content |-> o.content]]

\* An ERP that asks has one copy of an order, whatever becomes of the order here.
TakesOver(o, n) ==
    /\ n = IF NextNumber = 1 THEN 1 ELSE NextNumber - 1
    /\ there' = [there EXCEPT ![n] = [at |-> IF Ended(o) THEN "closed" ELSE "open", content |-> o.content]]

-----------------------------------------------------------------------------
(* The jobs that send (connect/apps/send.py run, apps/odoo.py send).           *)

NoJob == [step |-> "idle", todo |-> <<>>, acks |-> <<>>, gone |-> NoRow, found |-> 0]

\* A run reads the company, and then the withdrawals. Nothing keeps it from another's.
JobReads(r) ==
    /\ channel = "job" /\ sender[r].step = "idle"
    /\ sender' = [sender EXCEPT ![r] =
                    [NoJob EXCEPT !.step = "read",
                                  !.todo = IF order.content = Cancelled /\ order.ref = 0 THEN <<>> ELSE Outbound]]
    /\ UNCHANGED <<channel, order, past, row, seen, there, asked, mail, closedFor, crossed, astray, tokens, saves>>

JobReadsGone(r) ==
    /\ sender[r].step = "read"
    /\ LET todo == sender[r].todo \o Withdrawn(row)
       IN sender' = [sender EXCEPT ![r] = IF todo = <<>> THEN NoJob
                                          ELSE [NoJob EXCEPT !.step = "sending", !.todo = todo, !.gone = row]]
    /\ UNCHANGED <<channel, order, past, row, seen, there, asked, mail, closedFor, crossed, astray, tokens, saves>>

\* The run is about to make an order it did not find.
Making(r) == sender[r].step = "making" /\ sender[r].found = 0

\* It looks for the next order in the other system (_find): 0, when there is none. One cancelled there is not changed.
JobLooks(r) ==
    /\ sender[r].step = "sending" /\ sender[r].todo # <<>>
    /\ LET o == Head(sender[r].todo)
       IN \E n \in IF Found(o) = {} THEN {0} ELSE Found(o) :
            /\ IF Ended(o) THEN n # 0 ELSE n # 0 => there[n].at = "open"
            /\ sender' = [sender EXCEPT ![r] = [@ EXCEPT !.step = "making", !.found = n]]
            /\ crossed' = (crossed \/ (n = 0 /\ \E q \in SendRuns : Making(q)))
    /\ UNCHANGED <<channel, order, past, row, seen, there, asked, mail, closedFor, astray, tokens, saves>>

\* The run goes on to the next order, with what was acknowledged so far.
Onward(run, acks) == [run EXCEPT !.step = "sending", !.todo = Tail(@), !.found = 0, !.acks = acks]

\* The other system makes, changes or cancels what was found; its answer is read, or lost and the order counts as
\* refused.
JobSends(r) ==
    /\ sender[r].step = "making"
    /\ LET o == Head(sender[r].todo)
           n == IF Making(r) THEN NextNumber ELSE sender[r].found
       IN /\ n \in Numbers
          /\ Sends(o, n)
          /\ \E answered \in BOOLEAN :
               sender' = [sender EXCEPT ![r] =
                            Onward(@, IF answered THEN Append(@.acks, [ref |-> n, version |-> o.version]) ELSE @.acks)]
          /\ closedFor' = closedFor \cup {o.row}
    /\ UNCHANGED <<channel, order, past, row, seen, asked, mail, crossed, astray, tokens, saves>>

\* The other system cannot be reached, or refuses the order.
JobRefused(r) ==
    /\ sender[r].step \in {"sending", "making"} /\ sender[r].todo # <<>>
    /\ sender' = [sender EXCEPT ![r] = Onward(@, @.acks)]
    /\ UNCHANGED <<channel, order, past, row, seen, there, asked, mail, closedFor, crossed, astray, tokens, saves>>

\* What was taken is acknowledged in a message named by the job and the content.
JobAcks(r) ==
    LET acks == sender[r].acks
        gone == sender[r].gone
        key  == Key(JobOf[r], acks)
    IN  /\ sender[r].step = "sending" /\ sender[r].todo = <<>>
        /\ IF acks = <<>>
           THEN sender' = [sender EXCEPT ![r] = NoJob] /\ UNCHANGED <<order, past, seen>>
           ELSE /\ ReceiveAcks(key, acks, gone)
                /\ sender' = [sender EXCEPT ![r] = IF key \notin seen /\ Closed(acks, gone)
                                                   THEN [@ EXCEPT !.step = "marking"] ELSE NoJob]
        /\ UNCHANGED <<channel, row, there, asked, mail, closedFor, crossed, astray, tokens, saves>>

\* The withdrawal it closed is marked, unless it is another one by now.
Mark(gone) == row' = IF Untaken(row) /\ row.gen = gone.gen THEN [row EXCEPT !.taken = TRUE] ELSE row

JobMarks(r) ==
    /\ sender[r].step = "marking"
    /\ Mark(sender[r].gone)
    /\ sender' = [sender EXCEPT ![r] = NoJob]
    /\ UNCHANGED <<channel, order, past, seen, there, asked, mail, closedFor, crossed, astray, tokens, saves>>

JobStops(r) ==
    /\ sender[r] # NoJob
    /\ sender' = [sender EXCEPT ![r] = NoJob]
    /\ UNCHANGED <<channel, order, past, row, seen, there, asked, mail, closedFor, crossed, astray, tokens, saves>>

-----------------------------------------------------------------------------
(* An ERP that asks (api/connect.py _out, erp_acknowledge).                    *)

Asks ==
    /\ channel = "asks" /\ asked = <<>>
    /\ asked' = Outbound \o Withdrawn(row)
    /\ asked' # <<>>
    /\ UNCHANGED <<channel, order, past, row, seen, there, sender, mail, closedFor, crossed, astray, tokens, saves>>

FreeIds == (1..MaxAcks) \ {m.id : m \in mail}

\* It does what is listed and writes an acknowledgement.
Works ==
    /\ asked # <<>>
    /\ LET o == Head(asked) IN
       \E n \in Numbers, k \in FreeIds :
          /\ \A j \in FreeIds : k <= j
          /\ TakesOver(o, n)
          /\ mail' = mail \cup {[id |-> k, ack |-> [ref |-> n, version |-> o.version]]}
          /\ closedFor' = closedFor \cup {o.row}
    /\ asked' = Tail(asked)
    /\ UNCHANGED <<channel, order, past, row, seen, sender, crossed, astray, tokens, saves>>

\* An acknowledgement arrives: in time, late, or once more.
AckArrives ==
    \E m \in mail :
       LET acks == <<m.ack>>
           gone == IF Untaken(row) THEN row ELSE NoRow
       IN /\ ReceiveAcks(Key(m.id, acks), acks, gone)
          /\ IF Key(m.id, acks) \notin seen /\ Closed(acks, gone) THEN Mark(gone) ELSE UNCHANGED row
    /\ UNCHANGED <<channel, there, sender, asked, mail, closedFor, crossed, astray, tokens, saves>>

\* One that has arrived does not come again: its place among MaxAcks is free.
NoMoreOf ==
    \E m \in mail :
       /\ Key(m.id, <<m.ack>>) \in seen
       /\ mail' = mail \ {m} /\ seen' = seen \ {Key(m.id, <<m.ack>>)}
    /\ UNCHANGED <<channel, order, past, row, there, sender, asked, closedFor, crossed, astray, tokens, saves>>

-----------------------------------------------------------------------------
ErpInit ==
    /\ channel \in Channels
    /\ \E c \in OrderContents : order = [Deleted EXCEPT !.at = "here", !.content = c, !.released = TRUE]
    /\ past = {order} /\ row = NoRow
    /\ seen = {} /\ mail = {} /\ asked = <<>> /\ closedFor = {} /\ crossed = FALSE /\ astray = FALSE
    /\ sender = [r \in SendRuns |-> NoJob]
    /\ there = [n \in Numbers |-> [at |-> "unmade", content |-> Cancelled]]
    /\ tokens = 0 /\ saves = 0

ByPeople == Enter \/ Alter \/ Release \/ Delete \/ Complete \/ PutBack
Sending ==
    \E r \in SendRuns :
        \/ JobReads(r) \/ JobReadsGone(r) \/ JobLooks(r) \/ JobSends(r) \/ JobRefused(r)
        \/ JobAcks(r) \/ JobMarks(r) \/ JobStops(r)
Asking == Asks \/ Works \/ AckArrives \/ NoMoreOf

ErpNext == ByPeople \/ Sending \/ Asking

ErpSpec == ErpInit /\ [][ErpNext]_erpVars

\* An ERP that asks goes on asking, does what it is told, and its acknowledgements arrive.
ErpFairness == WF_erpVars(Asks) /\ WF_erpVars(Works) /\ WF_erpVars(NoMoreOf)
              /\ WF_erpVars(AckArrives /\ seen' # seen)

ErpTypeOK ==
    /\ channel \in Channels
    /\ order \in Orders /\ past \subseteq Orders /\ order \in past
    /\ row \in Rows
    /\ there \in [Numbers -> Copies]
    /\ crossed \in BOOLEAN /\ astray \in BOOLEAN
    /\ tokens \in 0..MaxSaves /\ saves \in 0..MaxSaves

\* However often an answer is lost and an order sent again, and however runs overlap, the other system never has two
\* open copies of it: it is asked whether it has the order before one is made (apps/odoo.py send; INTEGRATION.md,
\* "Purchase orders out") - unless two runs asked before either had made it, from which nothing keeps them (run_job).
MadeOnce == Cardinality({n \in Numbers : there[n].at = "open"}) <= 1 \/ crossed

\* A withdrawal counts as taken only when the other system has worked off that very withdrawal: the acknowledgement
\* of an earlier one of the same order, however late, does not close it (README, "Orders out").
ClosedByItsOwn == row.taken => row.gen \in closedFor

\* The copy in the other system is one, and is closed by its own withdrawal only (apps/odoo.py; connect/erp.py _ack).
OneCopyOfItsOwn == MadeOnce /\ ClosedByItsOwn

\* An order restored after its copy was closed is exported as new, in a version no acknowledgement written so far
\* can take (README, "Orders out"; _revive_erp).
RestoredGoesAgain ==
    [][~IsHere(order) /\ row.taken /\ IsHere(order')
       => /\ ChangeOf(order') = "new"
          /\ \A m \in mail : m.ack.version # Version(order')
          /\ \A r \in SendRuns : \A k \in DOMAIN sender[r].acks : sender[r].acks[k].version # Version(order')]_erpVars

\* No save takes an order out of its lifecycle while it is here: a revision of an earlier one put back over it, or
\* an acknowledgement of an earlier one, leaves its generation as it is (_revive_erp).
KeepsLifecycle == [][IsHere(order) /\ order.gen # 0 /\ IsHere(order') => order'.gen = order.gen]_erpVars

\* The ERP's copy is as the order is: open with what it holds, closed when all of it is cancelled or it is deleted.
InStep ==
    /\ Shown(order) => /\ order.ref # 0
                       /\ there[order.ref].at = IF Ended(order) THEN "closed" ELSE "open"
                       /\ there[order.ref].content = order.content
    /\ order.at = "deleted" => \A n \in Numbers : there[n].at # "open"

\* When people leave the order alone, an ERP that asks comes to an end with it: nothing of it is listed any more
\* (unless it is withdrawn and here at once), and the ERP's copy is as the order is, however late the
\* acknowledgements came. (The copy may be another when a save brought back what the order was before, or took it
\* away before its number was known: the README says how.)
ComesToRest ==
    <>[](\/ channel # "asks"
         \/ Outbound = <<>> /\ ~Untaken(row) /\ (astray \/ InStep)
         \/ Untaken(row) /\ IsHere(order))
==============================================================================
