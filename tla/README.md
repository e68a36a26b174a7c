# Verification of the planning application's shared state

The repository is a supply chain planning application: a Python engine and server
(`src/scp/engine/scp`, FastAPI on SQLite or PostgreSQL) and a browser client
(`src/scp/web`). A company's whole planning data is one JSON document; several people
open it in browser windows, edit their copies, and save, merge, approve and put back.
Other systems send messages to the same document and take orders from it, several server
processes share one database, and a clock runs imports, reminders and backups.

This directory holds TLA+ models of the parts where those actors meet and of the
documents and plans they work on, the TLC runs that check them on small instances, and
proofs that TLAPS checks for every instance.

## 1. Inventory

What the system consists of, what each part remembers, what it does, and what must be
true of it. *Hard* names what a unit test hardly reaches.

| part | state | operations | hard | right when | module |
|---|---|---|---|---|---|
| Revision store `companies/store.py` (`_keep`, `_doc_at`, `_kept`, `restore`), `companies/patch.py` | `companies.revision`, `.dataset`; `company_revisions` rows, whole or delta | keep, open, offer, put back | two look-back windows that must agree; a put-back is two calls | every revision offered opens as it was saved | `RevisionChain` |
| Company saves `companies/store.py` (`save`, `merge_save`, `_own`) | the document and who made each revision, from which window | save, merge, put back, each based on a revision | requests based on any revision, in any order, from several windows | nobody's change is overwritten unseen | `CompanyStore` |
| Merge `companies/merge.py` | none (a function of three documents) | renumber, pick, clash | both sides use the same new numbers | every record of both sides survives and its links hold | `Merge3` |
| Approval `companies/rights.py`, `store.py` (`_hold`, `decide`) | `companies.approval`, `change_requests` | hold, approve, reject, withdraw | saves between asking and approving; two transactions | two people per master data change, made once | `CompanyStore` |
| Store lock `dblock.py`, `postgres.py` | thread lock, depth, advisory lock or `flock`, connection | acquire, release, hold, let_go, lead | connections lost inside a section; processes that stop | read-then-write sections never interleave | `StoreLock` |
| Clock `connect/scheduler.py` | the lead | tick every 30 s | two processes | one clock | `StoreLock`, `MailOutbox`, `Imports` |
| Imports `connect/imports.py` | `import_jobs`: schedule, cursor | save, delete, list due, run, run now | the run works on a copy of the row, without the lock | nothing missed, nothing applied twice | `Imports` |
| Messages `connect/messages.py` | `messages` log | receive, duplicate check | save and log row are two transactions | first answer stands | `Imports` |
| ERP orders `connect/erp.py`, `store.py` (`_withdraw`, `_revive_erp`, `erp_acknowledge`) | `erp_ref`, `erp_sent`, `erp_generation` on orders; `erp_withdrawn` | export, send, acknowledge, withdraw, revive | late acknowledgements; delete and restore in between; sending runs that overlap | the ERP ends with this company's orders | `ErpOrders` |
| Browser working copy `web/src/state/store.ts` | copy, base revision, save status; what the tabs of a browser keep in its storage together | autosave, retry, quiet merge, resolve, reload | lost answers, edits during a save, tabs that write over each other | no edit lost, none applied twice, "saved" is true | `WindowSaves` |
| Members, accounts, keys `companies/store.py`, `twostep.py`, `sso.py`, `passwords.py` | users, members, sessions, api_keys | sign in, share, change role, remove | last owner; approval with fewer than two editors | an owner remains | `Members` |
| Guards on save `companies/guards.py` | releases on orders | re-check releases on save | a save carries any change | release levels in order, by different people | `PurchaseOrders` |
| Mail outbox `connect/outbox.py` | `outbox`, `mail_settings` | record, deliver, remind | stop between recording and sending; two clocks | reminders once per day | `MailOutbox` |
| Plan versions `versions/store.py` | bases, scenarios, audit | branch, edit, promote, discard | stale scenario edits | bases never change | `PlanVersions` |
| S&OP cycle `sop/cycle.py` | steps and sign-offs | start, sign off, reopen, release | a sign-off is three transactions; reopening an earlier step | signed in order, on what was frozen | `SopCycle` |
| Stock documents and roll-forward `actuals/*` | movements journal, receipts, orders | post, reverse, roll, firm | order of postings around the roll date | rolling in steps is rolling at once | `SalesOrders`, `PurchaseLine` |
| Purchasing and payables `purchasing/*` | orders, receipts, returns, invoices, payments | change, release, receive, return, match, pay | reversals after later documents | released for its value; paid for what came | `PurchaseOrders`, `PurchaseLine`, `Payables` |
| Sales and billing `sales/` | orders, deliveries, invoices, returns | take, deliver, bill, pay, take back, credit | reversals after later documents | nothing billed or credited twice | `SalesOrders`, `Billing` |
| Supply planning `plan/mrp.py` | the work of the last plans | plan, plan again | what is kept of an earlier plan | planning again is planning from scratch | `SupplyPlan` |
| Promising `promise/*` | confirmed schedule lines | enter, change, cancel, process back orders | shortage, allocations carried forward | nobody's promise is taken unless the code says so | `Promising` |
| Worklist `tower/worklist.py` | `tower_items` | look, own, acknowledge, resolve | an exception that clears and comes back | a life per exception | – |
| Working data of planning calls `api/working.py` | cached documents | by revision and patch | cache by content | the document asked for | – |
| Warehouse, transport, job work, drop shipment, intercompany | tasks, shipments, challans, notices | document flows beside the above | as above | as above | – |
| Supplier portal `portal/*` | links, answers | issue, answer, revoke | a link used after it was revoked | answers land once | – |
| Other engines `demand/`, `schedule/`, `inventory/`, `network/`, `whatif.py`, `finance/`, `tower/*` | none kept (functions of the document) | calculate | numeric edges | conservation of quantity and cost | – |
| Readiness `validate/`, data model `model/`, layout, mapping, PDF | none | check, convert | – | – | – |
| Backup, migration, administration | files | copy, check, restore | live database | the copy opens | – |
| HTTP API `api/*`, browser pages | none of their own | call the above | – | – | – |

How they interact: every window saves through the HTTP API into `Companies.save` or
`merge_save`, under the store lock; `restore` and `decide` call `save`; `receive` (used by
the ERP's endpoints and by imports) calls `save` too; `save` keeps a revision, checks the
releases, holds master data apart, withdraws deleted ERP orders; the clock runs `run_due` and
`remind_due` in the process that leads. The actions of purchasing, sales, billing and the
roll-forward change a window's copy, which then is saved or merged like any other edit; the
plan and the promises are worked out from the copy. Sign-offs of the S&OP cycle freeze a plan
version.

## 2. Modules

| module | models | uses |
|---|---|---|
| `RevisionTable` | abstract: a plain table of whole documents that saves add to | – |
| `RevisionChain` | how revisions are kept and opened again | implements `RevisionTable` |
| `Merge3` | the three-way merge, a pure algorithm | – |
| `Merging` | a merge asked for, of any edits on any save | `Merge3` |
| `CompanyStore` | saves, merges, put-backs, approval of one company | `Merge3` |
| `WindowSaves` | browser windows that edit, save, retry and merge, with requests and answers lost | `CompanyStore`, which serves them |
| `StoreLock` | the lock and the clock's lead | – |
| `Imports` | a scheduled import and the messages it makes | – |
| `ErpOrders` | one order on its way to an ERP and back | – |
| `Members` | who belongs to a company and what it asks of them | – |
| `MailOutbox` | documents and reminders mailed by the server | – |
| `PurchaseOrders` | an order's releases, worked on in several windows, saved and merged | – |
| `PurchaseLine` | one line received, sent back, changed, reversed, closed | – |
| `Payables` | its invoices matched, blocked, paid, cancelled, credited | – |
| `SalesOrders` | sales lines delivered and reversed, and the planning start moved over them | – |
| `Billing` | shipments billed, paid, taken back, credited | – |
| `SupplyPlan` | the supply plan of a network, and planning it again | – |
| `Promising` | orders promised, changed and processed again | – |
| `PlanVersions` | bases and scenarios | – |
| `SopCycle` | the monthly cycle signed off | `PlanVersions` |
| `Sums` | facts about sums over index sets, proved | – |
| `StoreProofs` (of `StoreLock` and `RevisionChain`), `CompanyStoreProofs`, `WindowSavesProofs`, `RegistersProofs`, `PurchasingProofs`, `SalesProofs`, `PromisingProofs` | theorems and proofs | see section 4 |
| `MCRevisionChain`, `MCMerge3`, `MCCompanyStore`, `MCWindowSaves`, `MCStoreLock`, `MCImports`, `MCConnect`, `MCCompany`, `MCRegisters`, `MCTrade`, `MCPlanning` | constants, symmetry and the specifications TLC runs | |

The last five MC modules put components side by side that share no state: a behaviour takes
one of them while the others rest in an initial state, so that one run checks each through
every sequence of its own operations.

Definitions named `X_Something`, commented "a slip", are one-line mistakes in `X` that a
programmer could make. No specification uses them: they document what each property is
sensitive to.

### RevisionChain

`revision` and `dataset` are `companies.revision` and `companies.dataset`; `rows` is
`company_revisions`, a partial function because a database from before every save was kept
has gaps; `putting` is a put-back that has read its revision and not yet saved it. A patch is
the pair of documents it leads between (`make_patch`, `apply_patch`): it fits only the
document it was made from. `_keep` looks back over the last `FULL_EVERY` rows, `_doc_at` over
`FULL_EVERY + 1` including the one asked for; both windows are modelled as the queries count
them. Whether a delta is small enough to be worth keeping is a free choice.

`RevisionTable` is what all of it promises: a table of whole documents, to which a save adds one
and a put-back adds one that is there already. `RevisionChain` implements it with the refinement
mapping `latest <- revision`, `table <- Opened` (what `DocAt` gives for each revision that opens)
and `asked <- putting.rev`: the document a put-back carries between its two calls has no
counterpart in the table, so the step that saves it must save what the table still has.

### Merge3, Merging

A document is a function from keys to contents, for an order header, its lines, a record
linking to the order, a setting and a named record. `_renumber`, `_next_free`, `follow`,
`_pick`, `_clash`, `_merge_list` and `merge` are operators. The properties of a merge
(`AddedBy`, `TheirsStay`, `MineStay`, `LinksFollow`, `LinesHaveHeaders`, ...) are operators of
the three documents too. `Merging` states them of a merge asked for: `given` are the three
documents, `decided` what was decided of the clashes, `merged` what the merge made of them, and
which saves, edits and decisions there are is left to its constants. `MCMerge3` gives these every
base and every pair of edits of a small company, an exhaustive check over bounded inputs;
`CompanyStoreProofs` proves them for all.

### CompanyStore

Each request is one step, since all of it runs under the store lock, with any document based
on any revision from any window: what an honest client sends is a subset. `decide` is the
exception: it makes two transactions, so `Approve` and `MarkApproved` are two steps and
`Crash` may come in between. `last` remembers the request served and `cut` the requests whose
approval was cut short, for the properties.

### WindowSaves

A window is a record of what `store.ts` keeps: `copy` is `state.dataset`, `doc` and `based` are
`baseDoc` and `baseRev`, `revision` is `company.revision`, `unsaved` is
`state.revision # savedRevision`, `status` and `seen` are `save.status` and
`save.conflict.revision`. `call` says which request is awaited, `sent` the copy it was made for,
`fresh` the records edited since (the code compares `state.revision` with the one it started
from), `left` the merges `mergeQuietly` may still make. `wire` has the window's one request or
answer; `NoAnswer` loses it, before or after the server served it. The server's steps are
`CompanyStore`'s `Save` and `MergeFrom`, so the two modules cannot disagree on what it does.
`over` and `touched` are auxiliary: whether the person chose to save over a colleague, and what
was edited since the save the company has last had from the window was sent.

`storage` is what lies in each browser under `STORAGE_KEY`, `BASE_KEY` and `COMPANY_KEY`: copy, base
and revision. `BrowserOf` says which windows are tabs of one browser; they share it, without a lock
and without being told of each other's writes (no listener of the `storage` event). Each handler
writes there just what the code does: an edit the copy and the company (`commit`), a save taken the
base and the company but not the copy, a save held in part and edited meanwhile the base alone, a
revision adopted all of it; a save sent, a conflict and a lost answer write nothing. So what lies
there may be one tab's copy under another's base and revision, and `Reload` starts from that,
whoever put it there, under the tab's own `CLIENT_ID` (session storage). `mixed` is auxiliary: a
reload has found something else than the window itself would have put there, and the window has not
had the company from the server since; `kept` is the revision the window last put there.

Left out, and named here because it bounds what the runs show: requests of one window arrive in
the order they were made; decisions on held changes and put-backs are not made from a window;
nobody loses the right to edit; whether a save goes as a patch or whole makes no difference to
what arrives (`WhatToSend` has both); documents the server rewrites on a save
(credit releases, ERP generations) are returned as they were sent; the writes of one handler to the
browser's storage are one step (they run without a pause, and the tabs of a browser rarely at the
same instant); a tab duplicated by the browser, which copies its session storage and so its
`CLIENT_ID`, is not there.

### StoreLock

`at`, `waits`, `seen` belong to threads; `owner` and `level` are `_thread` and `_depth`;
`session` and `link` are a process's connection; `holder` and `leader` are the two advisory
locks. The section is a read and writes made from what was read (`save` reads `companies`,
computes, writes). A connection may be cut without the database noticing, closed by the
database, or made again, which the code does only in `hold`. `leads` is what a process remembers
of leading: `lead` answers from it as long as the connection object is the same and not closed on
this side, with no statement, so that `Lead` starts a round also on a connection that is lost or
that the database has closed, its lock given away. With `Postgres = FALSE` the lock
is an `flock` that goes with the process only.

### Imports

Time is told by the number of changes each other system has made, so that "changed since" is
exact. A run is the steps `List` (the clock finds the job due, `now` is taken), `Copy`
(`_saved`: a copy of the row), `Read` (outside the lock), `Receive` (the message, in one
section), `Finish` (the final `UPDATE`); `Fails`, `Breaks`, `Gone` and `Stops` are its other
ends. Two clocks' rounds and a person's "Run now" may overlap. `EditsInRuns` says whether the
job may be changed while a run of it is under way: the passing runs and two of the theorems
exclude it, and `ImportsMoved` shows what happens with it. `made` counts how often a content was
put into the company and `cut` are the contents a stop left made and not logged; both are
auxiliary.

### ErpOrders

`order` is the order in the company's latest save, with `erp_ref`, `erp_sent`,
`erp_generation`; `past` the order as the revisions kept have it, which a put-back may bring
back; `row` its row of `erp_withdrawn`; `there` the other system's copies of it. `Enter`,
`Alter`, `Release`, `Delete`, `Complete`, `PutBack` are people's saves, each with the
withdrawing, reviving and numbering `save` does. The ERP is told in one of two ways, `channel`:
`"asks"`, where it lists what is outbound (`Asks`), does it (`Works`) and acknowledges in
messages that may be late, come twice or in another order (`mail`, `AckArrives`), `seen` being
the messages' ids already taken; and `"job"`, where runs of sending jobs (`SendRuns`, each of the job
`JobOf` says) read what is pending (`JobReads`, then the withdrawals, `JobReadsGone`), look for each
order in the other system (`JobLooks`, `_find`), make or change it there in a second call, whose
answer may be lost (`JobSends`; `JobRefused`, `JobStops`), and then acknowledge what was taken
(`JobAcks`, `JobMarks`). Runs overlap: nothing keeps "Run now" (`api/connect.py` 222), the clock's
`run_due` and two jobs of one company apart. Each works from what it read earlier while saves and
the other runs go on. A request to the other system is carried out while its run waits for the
answer, or never. Auxiliary are `closedFor`, the withdrawals the other system has worked off;
`crossed`, that a run looked for the order in vain while another had looked in vain and not made it
yet; and `astray`, that a save brought back what the order was in an earlier revision, or took the
order away before its number was known.

### Members

`role` is the row of `members` of each account, people's and keys'; `limited` those with limits
on places or product groups; `invited`, `invitedTo` the invitations; `wants` what the company
requires. Every request holds the lock for its whole length and is one step, but turning
two-step sign-in off, where the password is verified between the check and the change
(`AskOff`, `TurnOff`). The number of members is not bounded by more than the constants.

### MailOutbox

`outbox` is the table; a mail is recorded under the lock (`SendDocument`, `Remind`; the clock's
round over all recipients is `BeginReminding` ... `MoveOn`, in one hold of the lock), delivered
without it (`Deliver`), and marked after (`Written`). `reached` is what the mail server took.
`ServerStops` may come anywhere. Days are counted, as the limits and the reminders are daily.

### PurchaseOrders, PurchaseLine, Payables

`PurchaseOrders` follows one order through the copies of the windows that work on it.
`revisions` is the order in each revision of the company, `desk` the one copy being worked on
and the revision it was opened on: a copy is its window's own until it is saved, so the others'
saves meanwhile are just the revisions after it. A save runs `check_releases` against the
company as saved; a save from an earlier revision is merged first, record by record. `ByHand`
are the people who may enter releases as data rather than by the action; with none of them,
`ReleasedInFull` still fails.

`PurchaseLine` follows one line: `postings` are its receipts and returns in the journal's
order, and what was received is summed from them each time, as `_received` does; `poLine` is
what the order says. `awaited` is auxiliary: what the supplier still owes, counted up and down
as it was agreed. `Payables` has the receipts, returns, invoices and memos of a line, matched
by what was received and what stands invoiced; `most` is auxiliary.

### SalesOrders, Billing

`journal` is the list of goods movements, to which a delivery and a reversal each add one; what
is delivered, and what a roll-forward leaves of an order, are sums over it (`Delivered`,
`Rolled`). `deliveries` are documents made up, picked, issued or cancelled. `RollForward` moves
`start`. In `Billing` what waits to be billed are the journal's movements (`shipped`) that
no standing invoice names; `bills` are invoices and credit notes, in the order made, a return
being credited against the oldest invoices first; `returns` what was agreed to come back.

### SupplyPlan, Promising

`SupplyPlan` is `run_mrp` and `plan_again` on a network of places with one source each: `PlanNode`
nets a place's requirements day by day and pegs its supply, `Clean` decides what of an earlier
plan's work is replayed, `Propagate` moves late arrivals up the network. `kept` is each
planner's last work and `last` the one handed to whoever asks for the same data. `Promising` is
`atp`, the entry of an order, a change, a cancellation, and a run of back order processing with
its five strategies over segments; confirmed quantities are by location and day, allocations
are periods with a carry-forward.

### PlanVersions, SopCycle

`versions` is the table in the order of its ids; `Lineage` is the walk from a scenario to the
base it stands on. A sign-off is three parts of `sign`: the step is looked at (`Looks`), the
company frozen as a base (`Freezes`), and the sign-off recorded (`Records`), each under the lock
by itself, so that others sign, reopen, delete and start cycles in between.

## 3. Runs

| run | checks | shows | bounds and why they suffice |
|---|---|---|---|
| Company | `TypeOK`, `MadeWhenApproved`, `NeverOverUnseen`, `TwoPeople`; `BothSurvive`, `NothingDangles`, `EitherOrder`; `SopTypeOK`, `SignedInOrder` | nobody overwrites what they have not seen; approval takes two and is made once, also after a stop; all pairs of edits merge rightly; cycles are signed in order, on what was frozen | two people, a window and requests without one; three revisions: a base, one in between, one after; three contents, so that stale, same and new differ; two held changes. Merge: two orders and lines on each side, so that both sides number alike and the next free number may be taken too. Cycles: two months, two steps, two people, three versions: a cycle deleted and made again during a sign-off, and two sign-offs of one step |
| CompanyCrash | `WaitingNotMade` violated | finding: made and still waiting after a stop | as Company, two contents |
| WindowSaves | `WTypeOK`, `ShowsTheCompany`, `CarriesItsOwn`, `NoColleagueUndone`, `EditsArrive` | what a window believes is so; what a colleague was the first to bring since is not undone; every edit is saved or its person asked | two people with a window each, two edits and one: an edit before and one during a save; or two tabs of one browser and an edit in either, which is enough for a reload to find the other's copy, dirty or saved, under either's base (the theorems are for any number of either); three revisions, one held change, one further quiet merge (the code makes three: all are alike) |
| WindowTwice | `TakenOnce` violated | finding: an order merged twice after a lost answer | as WindowSaves, four revisions |
| StoreLockWaits | `GetsIn` | nobody waits for ever | a thread in each of two processes, two connections each |
| Registers | `RegistersTypeOK`; `HistoryOpens`, `ImplementsTable`; `AlwaysOwned`; `RemindedOnce`; `NothingMissed`, `AppliedOnce`; `OneCopyOfItsOwn`, `RestoredGoesAgain` | revisions, members, mail, imports and ERP orders, each by itself | revisions: `FULL_EVERY` 3, two rows of before, eight revisions, so that chains pass the window twice; members: two people and a key; mail: two senders, limits of two a day and one an account, two days, two mails; imports: a shop asked for changes and an ERP read whole, one change each, a clock and a person, so that a run may start before and end after a change; ERP: two numbers, two acknowledgements and three saves where the ERP asks; two sending runs of one job and two saves where jobs send, so that both look, make, acknowledge and mark in every order around a deletion and what restores it |
| ConnectLive | `ChangesCome`, `ComesToRest` | every change of the other system comes in the end; once people leave the order alone an asking ERP has nothing of it left to take, and its copy is as the order is | one source, two changes; one number, two acknowledgements, two saves (where an ERP asks: nothing is assumed, so nothing promised, of a job that sends) |
| ImportsMoved | `NothingMissed` violated | finding: moved while it runs | two sources, the job changed during its runs |
| Trade | `TradeTypeOK`; `NobodyReleasesTwice`, `ReleasedAsRaised`; `WaitsForTheRest`; `PaidWasReceived`; `RollsCompose`; `BilledAndCreditedOnce`; `NoLostWrite`, `ClockLed` | what is bought and sold, each document by itself, and the lock it is written under | order: two clerks, two levels, two lines of up to two, two edits a copy and three revisions (opened, another's, merged); purchase line: four postings, one quantity beyond; payables: four documents, two units; sales: a line, two units, two days, three movements, reversals on either day; billing: two units, two shipments, three bills, two returns; lock: three threads of two processes, two connections each, depth 2, two writes |
| ReleasedInFull | `ReleasedInFull` violated | finding: released without the releases its value needs | as Trade; releases come from the action only |
| Planning | `PlanningTypeOK`, `AsFromScratch`, `Served`; `NoShorter`, `PromisesStand` (`KeepersKeep`, `AllocationsKept`) | planning again is planning from scratch; promises under shortage | five places (two customers', warehouse, plant, bought part), eleven data sets that differ by one change each, two planners, days to 5; three orders, two locations, two periods, three segments, days to 3 |
| PlanAgain | `AsFromScratch` violated | finding: a warehouse between that is not made to order | the same, only the plant made to order |

Symmetry is used for documents, people, windows and threads where no property or initial
state tells them apart, never in a run with a liveness property. `CHECK_DEADLOCK FALSE` is said
where a component really comes to rest: at the bounds on its documents there is nothing left
to do (Registers, ConnectLive, Trade, ReleasedInFull, Planning, PlanAgain).

Fairness. `StoreLockWaits` assumes that a section ends and that PostgreSQL serves those who
wait for an advisory lock in turn (strong fairness of `Take` and `Release`: a connection may be
lost again and again, but not for ever just then), and that the database notices a dead
connection in the end (TCP keepalives). `ConnectLive` assumes that the clock's loop goes on
(`scheduler.py` catches every error of a round and sleeps 30 s) and strong fairness of the
steps of an import's run, which says that not every run there is fails or is stopped; and of an
ERP that asks (`ErpFairness`), that it goes on asking, works off what it listed and sends its
acknowledgements, and that one not taken yet arrives in the end; nothing is assumed of a job
that sends, nor of people. `WSpec` assumes that a window's timers fire (weak fairness of
`SaveNow`: `scheduleSave` after an edit, `RETRY_DELAY` after a failure) and that not every
request or answer of a kind is lost (strong fairness of serving and of answering). Nothing is
assumed of the person: neither that a conflict is decided, nor that editing or reloading stops.
At the bounds on revisions and held changes the server stands still, and `EditsArrive` says
nothing; and a window reloaded beside another tab of its browser may find the other's copy marked
saved, and is done with it: its own edit is then in the other tab's hands or gone (section 5).
`MCFairness` is `WFairness` for the windows at work: of the second and the third only one moves.

## 4. Proofs

All theorems are for every value of the constants that meets the named assumptions of the
modules, and each is checked on a small instance by the run of the same property first. A run
states the type invariants of its components together (`RegistersTypeOK`, `TradeTypeOK`); the
theorems state each by itself.

**StoreProofs**, the lock. `LockType`, `WritesKept`, `LocksBalanced`, `LockHeld`, `RoundsAreLed`,
and `OneClockOnAFile` (`~Postgres`). `RoundsAreLed` says what the lead is worth on PostgreSQL,
where a round may start from memory on a connection long lost: as long as the database has the
connection the lock is on it (what is remembered of a session that stands was granted to it, and is
taken from it only with the session), so rounds of two processes overlap only where the database
has closed the connection of one. `NoLostWrite` is not inductive: it needs that a thread in
its section whose connection lives holds the database's lock on that very connection, that only
one thread of a process is in, and that what such a thread read is the number of writes made.

**StoreProofs**, the revision table. `TypeCorrect`, `EverySaveOpens`, `EveryRowFits`,
`NothingIsLost`, `OpensRightly`, `OfferedRightly` and, of the last two, `HistoryIsRight`;
`PutsBackTheRevision`; the refinement `ChainIsATable`. A new row's window of `FULL_EVERY` and a
later read's of `FULL_EVERY + 1` are related by counting: the inductive invariant says that
every delta has a whole copy within `FULL_EVERY` revisions below it and that all rows in between
are kept. That a read through a chain of any length gives what was saved needs no induction over
the chain: what was saved meets the equation the read is defined by, so the read is a function
that meets it too, and the first revision at which the two differed would have a row that does
not fit (`FirstOf`, from the well-foundedness of the naturals). The refinement follows from
`OpenedAreSaved`: what opens is just what is kept, as it was saved.

**CompanyStoreProofs**, the company. `TypeCorrect`, `NeverUnseen`, `ChangesTakeTwo`,
`DecidedOnce`, `HistoryIsKept`. `NeverUnseen` and `ChangesTakeTwo` are action properties proved
from the type invariant, with lemmas for what a merge, the split of master data and a held
change do to one record; `DecidedOnce` is strengthened by what is known of the request between
the two transactions of an approval, which `HistoryIsKept` needs too: what an approval marks in
the end still waits.

**CompanyStoreProofs**, the merge, of any three documents and any choices:
`NothingLost`, `PointsRight`, `WhoeverIsFirst` are the runs' properties of `Merging`, from
`MergeLeavesTheirs`, `MergeKeepsMine`, `MergeKeepsLinks`, `MergeKeepsHeaders`,
`MergeEitherWay`. The argument: the numbers `_renumber` moves go past the greatest of both
sides, each by its rank among those moved (`Placed`, `PlacedApart`), so no two records come to
lie on one key (`KeysGoApart`); what the renumbered document has under a key is what mine had
under the one it came from (`RenumberedHas`), and what the merge has is what `_pick` picks of
the three (`MergedAt`, `PickedIs`). Two hypotheses are there because the code needs them:
`PointsHome(base)`, that links in the base point at orders it has (with `Document` in
`MergingAssumption`, which TLC evaluates for `MCMerge3`); and `NoNumberAgain`, that where an
order must be renumbered the last number of the base is still used, or passed, by a side (in
`MergingInit`; every pair of edits of `MCMerge3` meets it). Section 5 says what happens without.

**CompanyStoreProofs**, plan versions and cycles. `SopType`, `SignedOffInOrder`. The invariant
(`SopInv`) says of the versions that each scenario's walk ends at a base made before it
(`Rooted`) and that a promoted scenario has one base made of it and equal to it (`Stand`), of
the cycles that their steps are signed from the first on, each on a version that froze what its
figures are of (`Right`, `InOrder`, `Froze`), and of a sign-off under way that the version it
froze has the content it looked at (`UnderWay`). That a scenario's base stays what it was while
the table grows (`SameBase`) is why `Lineage` is defined by closed sets of versions.

**WindowSavesProofs.** `BaseIsKnown`, `SavedIsTrue`, together `CompanyShown`. Neither is
inductive: what an answer makes of a window depends on what is on its wire. `Linked` ties the
two: a request carries the copy it was made for (`CopyIsSent`: patch or whole), an answer names
a revision and carries its document, a save of which nothing was held apart is saved as sent
(`SavedWhole`), and a window that awaits an answer with no edit since still shows what it sent.
One lemma per action keeps it; the server's steps cite `CompanyStoreProofs` for what they do to
the log. Of the browsers the invariant (`Held`) says that each holds a document, and a base that
is the revision it names, whichever windows wrote there (`StorageOK`), since every handler
writes base and revision of base together; and that a window alone in its browser finds what it
would put there now (`AloneFindsItsOwn`), for which each action is shown to write, for its
window, what the window then has, or nothing while that stays the same (`Stashes`). A reload
that finds something else sets `mixed`; a window that is not mixed has a copy, base and revision
of its own making, though other tabs may write over the storage at any time. `CarriesOwn` is not
inductive either: a save on an earlier revision is taken when all saves since are the window's
own, and that it undoes none of them depends on every copy and answer since. The invariant
(`OwesInv`) says that a window all of whose later revisions are its own has a copy that differs
from the company only in what was edited since the last of them was sent and in master data that
waits for approval, that an answer under way tells of the window's latest save, and that a
window merges, or asks its person, only when somebody else has saved. `WindowsType` follows from
both.

**WindowSavesProofs**, whose work a save undoes. `NobodyUndone`. Whose a content is has to be
followed through every revision, copy and request, and through merges that renumber orders. The
model has no variable for it, and needs none: the invariant (`StoryInv`) says that there is a
record of who edited what, to which content and at which of his edits, that explains every
document of the company, of the windows and of the requests under way. Each content is the
created company's or an edit of the record (`Known`), and an order never has a content under a
smaller number than it was edited under (`Upwards`); what a window has is of the company up to
its revision, or up to the latest once a reload has mixed it (`UpTo`), or an edit made in a
window of its own person (`Seen`), which a browser, being one person's, does not take beyond
(`SeenBeside`); and an edit comes into the company by a save of its own person first
(`Brought`). A merge makes no content of its own (`DrawnFrom`, `MergeDrawn`), nor does the split
of master data (`WithoutMasterDrawn`). So a content that a colleague was the first to bring
after a window's revision is neither in that revision nor in what the window has, and a merge of
the three keeps it (`UndoneStep`). The property goes by who was first to bring a content, so it
speaks neither of records a colleague removed, nor of old contents put back. The assumption
`CreatedAssumption` is that a company is created, before any window edits it, with finitely many
records and numbered orders.

**RegistersProofs.** Of imports: `TypeCorrect`, `NothingIsMissed` and `ScheduledWhenOn` (which
assume `EditsInRuns = FALSE`), `NeverTwice`. The cursor's invariant needs what a run has in hand
at each of its steps: that the copy's host is the job's, that what it read covers its start, and
that a good run has been logged. Of members: `MembersType`, `CompanyAlwaysOwned`; the last owner
is counted by the code (`Cardinality(Owners) > 1`), so a change of one member's role must leave
another owner (`AnotherOwner`). Of mail: `ReminderReachesOnce`, from `RemindInv`: among the
reminders that were or still may be delivered there is one for a person and a time (`LiveOnce`),
the time of the next has moved past all of them (`MovedPast`), and those of a round not yet
closed go to people of whom none is left over for it (`RoundApart`). Of an ERP's order: `ErpType`,
`OneCopy`, `RestoredIsNew`, `LifecycleKept`. Lifecycles and withdrawals are numbered from one
counter (`Numbered`), so all that is listed, sent or acknowledged so far has a number up to it
(`Outs`, `Acks`) and a new lifecycle is one that nothing under way is of; an acknowledgement of a
withdrawal is there only when that withdrawal has been worked off (`Acks`), which is why it closes
no other; of the other system's copies one at most is open, and none while a run is about to make
one, until two runs are at that at once (`crossed`); an ERP that asks has one number
for an order (`CopiesOK`).

**PurchasingProofs.** `PurchaseOrderType`, `NobodyTwice`, `ReleasedForItsValue`; both
properties are of every revision, as a put-back brings an old one back, and the last is of the
copy on the desk too (`AsRaised`). `PurchaseLineType`, `LineWaits`: the invariant (`LineInv`)
adds that, while nothing was reversed, no more went back than came, and what happens to the
agreed quantity when more was credited than is still ordered. `PayablesType`, `PaidIsReceived`:
an invoice that counts as matched is covered, together with those before it, by the most that
was ever received and the credit memos (`Covered`), so what is paid without a person's release
is too.

**SalesProofs.** `SalesType`, `RollingComposes`: a delivery and its reversal that lie on one side
of a day are both in or both out of every sum the roll to that day takes, so none is negative
(`PairsCancel`), and what rolling takes off up to a day is what it takes off up to an earlier one
and from there on. `BillingType`,
`BilledAndCredited`: the invariant (`BillInv`) says that standing invoices are of different movements
(`MovesApart`), that the standing credit notes of a return sum to no more than came back and
those against an invoice to no more than it billed (`CreditsRight`), and that a note comes after
the invoice it is against (`LinksRight`); that a return split over the invoices, the oldest
first, gives no more than was left of each is `OldestFirst` and `NotesFit`.

**PromisingProofs.** `PromisesTyped`, `NoDayShorter`. A run (an entry run, a backorder run, the
check of one order over locations and days) is many small steps, each from the outcome of the
one before; `TurnsExist` and `TurnsIn` say that it ends in the last of any sets of outcomes that
each step leads from one to the next of. The sets here are pictures of what is promised in which
no day that a location checks is below a floor, or below nothing (`Floored`), with the floor
what was left before the run (`Floors`). What can be had on a day is the least of what is there
on it and on the checked days after it, so a claim of it takes no day below the floor
(`ClaimIs`, `TakingIs`), and what is given back only raises days (`GivingBackIs`, `FlooredIs`).
It remains that such a picture is of what the orders have confirmed in the end: in an entry run
what is claimed is confirmed (`EntryTo`); in a backorder run those in no segment are registered,
those that may not lose are held for with no more than they had (`HeldTo`), and planned again
each gives up what is held of it for what it gets (`Replaces`, `ReplannedTo`), whatever its
strategy. That every order is then either as it was or planned again once is `SequenceIs`: the
sort by segment, priority, date and entry lists each order of a segment once. The bound on
orders (`MaxOrders`) is any number, and allocations, carried forward or not, any: they only make
less of what can be had.

**Sums.** Quantities are sums of a function over a finite set of indices, which the community
module defines by a recursive function on sets. What it does on every set cannot be had by
induction here; it follows from the well-foundedness of the naturals instead: were the equation
wrong for some set, it would be wrong for one of least cardinality.

Only model-checked:

* the liveness properties (`GetsIn`, `ChangesCome`, `ComesToRest`, `EditsArrive`): TLAPS proves
  neither fairness arguments nor ENABLED;
* `AsFromScratch` and `Served`: they are about recursive calculations over data, where an
  induction over the places or the days is needed that the provers cannot be given;
* `PromisesStand`: its part `AllocationsKept` is not so of every allocation (three periods of
  which some carry forward break it, section 5), and `KeepersKeep` rests on allocations as well:
  an order that may not lose is held with what it had only if its periods still grant it when
  they are counted again.

## 5. Findings

Five runs show the code doing something else than the repository says (PROJECT.json quotes the
lines):

* CompanyCrash: a stop between the two transactions of an approval leaves the change made and
  still waiting.
* ImportsMoved: an import moved to another host while it runs gets the old host's cursor.
* WindowTwice: a quiet merge whose answer is lost, merged again by the person, adds an order
  that the first merge renumbered a second time.
* ReleasedInFull: a merge of a header from one person and a raised line from another is an order
  marked released without the releases its value needs.
* PlanAgain: two sales orders that swap their days leave a plant's orders marked with the orders
  they no longer serve, as the warehouse between is replayed.

### Observed

Met while modelling, without a run of their own. Those with a property's name are stated in the
module, and TLC finds them violated there; the rest of this list was read in the code or seen in
traces.

*Merge.* `_next_free` looks only at the numbers of mine and theirs (`merge.py` 75–103). A base
with orders 3 and 5 of which both sides remove 5 and both add a 4 of their own: mine moves to 5,
which the base had, is shown as a clash with the removed order, and choosing "theirs" loses the
new order. This is why the theorems assume `NoNumberAgain`. Likewise a link in the base to an
order that it has not got follows the renumbering of a new one (`PointsHome`).

*Lock, clock, imports.* On PostgreSQL a connection lost before or during a round of the clock
lets a second process run it too: the first answers from memory (`postgres.py` 105–106) and
starts its next rounds without the lock, until `hold` makes the connection again (`OneClock`
holds on a file only). An import switched on while "Run now" is under way ends with no next time
(`imports.py` 965–969, from the copy); overlapping runs keep no order between contents (957). A
stop between the save and the log row of a received message applies it again (`messages.py` 199,
`cut` in `Imports`).

*Tabs of one browser.* What a reload starts from is shared by the tabs of a browser (`store.ts`
151–155, 286–345, 973–1039). A tab reloaded after another one edited shows the other's copy, and
saves it under its own `CLIENT_ID`: the other's save is then a colleague's to it ("You, in
another window"). A tab whose save was taken writes base and revision, not the copy (425–428):
when another tab had put its own copy there, a reload of either shows that under "saved" and
under a revision it is not, and does not send it. A tab that adopts a revision writes over the
unsaved copy another tab put there; reloaded, that one has lost its edit. `SavedIsTheCompanys`,
`CarriesItsOwn` and `NoColleagueUndone` therefore speak of windows that no reload has mixed, and
`BaseIsTheRevision`, which holds of all, keeps a mixed window's patches right: where its base is
not the revision it names, the copy is sent whole.

*Approval and windows.* A roll-forward is held in half with approval on: stock waits, the
planning start is saved. An approval answered while edits are under way puts the window's copy
back (`History.tsx` 55–56, `store.ts` 740–745).

*Members.* Two-step sign-in can be turned off although a company came to require it while the
password was asked (`StaysOnWhileRequired`, `store.py` 952). Approval is switched on only with
two who can change the data, but nothing keeps the second (`ApprovalHasASecond`, `store.py`
1552–1564; keys count as editors, too). `OwnersUnlimited` holds.

*Mail.* A mail being sent when the server stopped is listed as `"sending"` although
`MailRow.status` says `"sent"` or `"failed"` (`ListedSays`, `outbox.py` 76).

*ERP.* Two sending runs that overlap (`run_job` has no lock of its own: `api/connect.py` 222–228, the
clock's `run_due`) both find no order in Odoo and both make it (`odoo.py` 435, 451), where
`docs/INTEGRATION.md` 330–332 says that the connector asks first "and then changes it rather than
making it twice". The company keeps the number that was acknowledged first; of the other copy it
knows nothing (`MadeOnce` without `crossed`). An acknowledgement's message id is the fingerprint of
what it says, so one that says the same as an earlier one is a duplicate: an order put back to what
it was then is sent in every run (`docs/INTEGRATION.md` 329). A put-back of a revision from before an
order's lifecycle was numbered makes it both new and withdrawn (INTEGRATION.md 200), where
one that is numbered keeps its own (`KeepsLifecycle`, proved as `LifecycleKept`). These are the cases
that `ComesToRest` leaves out by `astray`, in which nothing of the order is listed and the ERP's copy
is another: cancelled, taken and put back, or changed and changed back while acknowledgements of
both are on their way, an order counts as taken when an acknowledgement of what it once was comes
last, though the ERP has closed it or has the other content; and an order deleted while its first
acknowledgement is under way has no number to withdraw: that acknowledgement is refused, the ERP's
copy stays open. A restored order keeps its `erp_ref`, and Odoo's sender refuses it for ever.

*Purchasing.* A received line can be cancelled through a merge. Reversing a return to the
supplier restores neither the order's quantity nor the return's state; reversing a receipt of a
closed line after goods went back opens it for more than it took back (`documents.py` 546); a
line with a final receipt whose quantity is raised closes at the next roll all the same. A
matched invoice is not looked at again when its receipt is reversed; a credit memo is not
checked against what was invoiced.

*Sales and billing.* An order can be in the log of closed orders without being delivered in full
or closed by a delivery that stands (`ClosedIsDone`, `documents.py` 546–547). A reversal dated
before its delivery makes each roll in between grow the order: `RollsCompose` is about days that
no posting and its reversal straddle. Reversing a billed shipment leaves its invoice standing,
reversing a return's receipt leaves it creditable, and `issue` does not check what is left to
deliver.

*Promising.* Changing an order, even only its price, checks it again after orders that hold no
promise, so that with one unit promised to it and another order waiting nobody has it afterwards
(`orders.py` 6–7). An order of a "lose" segment can gain (`model/promise.py` 21). With three
periods of which some carry forward, registering in the order of entry confirms more than the
allocation (`model/promise.py` 64). Lines brought together on a later day are not checked
against that day's allocation; capable-to-promise can count the same hours twice in one order.

*Parts not modelled, read only.* Warehouse: room is counted on open picks, so that a bin can be
overfull or hold two products; goods picked and staged are proposed for put-away again; the
delivery ids used again inherit old picks. Portal: a notice received but not rolled and another
dispatched since leave the plan expecting the second on the due date; a link withdrawn between
its check and the write's lock still writes. S&OP: the last part of a sign-off looks at the
step's state and order again, but not at who may sign; a lost race leaves a base noted as signed.
Versions: of two scenarios promoted from one line, the later supersedes the older root and two
bases stay active; a scenario's update is last-writer-wins. Worklist: days going backwards keep
items resolved. Working data: a change sent before the data check of the last edit can lose or
double a record not yet complete (`client.ts` 239–246).

## 6. Plan

Of the proofs: `KeepersKeep` without an allocation.

Of the model, in the order of how much rides on it:

1. `SharedCompany`: the abstract promise that what a person edits is in the company, waits for
   approval, or its person was told, refined by `WindowSaves`; with put-backs and decisions made
   from a window.
2. `StockJournal`: receipts, production, stock types and counts, of which the line modules'
   journals are parts.
3. `Worklist`, `PortalLinks`, `WorkingData`: exceptions that return, links that expire, a cache
   by revision and patch.
4. `Warehouse` after stock documents; intercompany and drop shipment beside purchasing and sales.
5. Pure algorithms over bounded inputs: forecast consumption, lot picking, scheduling's
   feasibility checker.

The runs are kept to a dozen, one per question. New modules take the place of runs whose
question is settled, or join a run beside the components they belong with.

## 7. Not modelled

The other planning engines (demand, scheduling, inventory, network, finance, tower) are
deterministic calculations on decimals and dates, tested in the repository against textbook
results; they keep no state. Readiness checks are stateless rules, the data model is types, and
layout, mapping and PDF are conversions. The HTTP API and the pages are thin layers around the
parts above. Backup, migration and administration are an operator's commands on files. Identity
providers, mail servers and browsers' pages are input and output. Transport, job work, drop
shipment and intercompany are further document flows like the ones modelled, left for later, as
are the warehouse, the portal and the worklist.
