----------------------------- MODULE WindowSaves -----------------------------
(***************************************************************************)
(* Browser windows with a company of the server open                       *)
(* (web/src/state/store.ts): each has a working copy, saves it by itself a *)
(* moment after an edit, tries again when no answer came, merges quietly   *)
(* when a colleague saved first, and asks its person when that cannot be   *)
(* done without deciding something.                                        *)
(*                                                                         *)
(* What a reload finds again is kept in the browser, for all its windows   *)
(* together: each writes there what it has, over what another one wrote.   *)
(*                                                                         *)
(* The server is CompanyStore's: a request is served by the actions of     *)
(* that module. A request, or its answer, may be lost on the way, and a    *)
(* window may be reloaded at any time; the requests of one window reach    *)
(* the server in the order it made them.                                   *)
(***************************************************************************)
EXTENDS CompanyStore

CONSTANTS
    UserOf,         \* whose window it is
    BrowserOf,      \* the browser it is a tab of
    MaxQuiet,       \* the merges mergeQuietly makes for edits that came meanwhile
    MaxEdits        \* bound: per window, the edits made in it

ASSUME UserOfAssumption   == UserOf \in [Clients -> Users]
ASSUME BrowserOfAssumption ==   \* one person is signed in to a browser
    /\ BrowserOf = [w \in Clients |-> BrowserOf[w]]
    /\ \A w, x \in Clients : BrowserOf[w] = BrowserOf[x] => UserOf[w] = UserOf[x]
ASSUME MaxQuietAssumption == MaxQuiet \in Nat
ASSUME MaxEditsAssumption == MaxEdits \in [Clients -> Nat]

VARIABLES
    win,        \* the windows
    wire,       \* per window: the request or the answer on its way
    storage,    \* per browser: the copy, the base and the company kept in it
    touched     \* auxiliary: the records edited since the save the company has
                \* last had from the window was sent

windowVars == <<win, wire, storage, touched>>
serverVars == <<log, approval, requests, deciding, cut>>
allVars    == <<vars, windowVars>>

\* A window: status is SaveState's; `unsaved` is revision # savedRevision;
\* `based` and `doc` are the save the copy was made from (baseRev, baseDoc) and
\* `revision` the one it says it is based on; `seen` is the save a conflict is
\* with, `over` that the person chose to save over it; `call` is the call under
\* way, `sent` the copy it was made for, `fresh` the records edited since, and
\* `left` the merges left to make. Auxiliary: `kept` is the revision the window
\* has last put in its browser, and `mixed` that a reload has found there what
\* another window of the browser had put.

Browsers == {BrowserOf[w] : w \in Clients}

\* No other window of its browser has the company open.
Alone(w) == \A x \in Clients : BrowserOf[x] = BrowserOf[w] => x = w

NoWire == [kind |-> "none"]

Put(w, v) == win' = [win EXCEPT ![w] = v]
Send(w, message) == wire' = [wire EXCEPT ![w] = message]
Kept(w) == storage[BrowserOf[w]]
Stash(w, s) == storage' = [storage EXCEPT ![BrowserOf[w]] = s]

Calm == UNCHANGED serverVars /\ last' = NoRequest

With(doc, k, content) == [j \in DOMAIN doc \cup {k} |-> IF j = k THEN content ELSE doc[j]]

\* What one document has that another has not, put on a third (lib/patch.ts).
Patched(doc, from, to) ==
    LET same    == {k \in DOMAIN from \cap DOMAIN to : from[k] = to[k]}
        changed == (DOMAIN from \cup DOMAIN to) \ same
    IN  [k \in (DOMAIN doc \ changed) \cup (changed \cap DOMAIN to) |->
            IF k \in changed THEN to[k] ELSE doc[k]]

\* whatToSend: what changed since the save the copy was made from, which the
\* server puts on that save; the copy whole when that is not at hand.
WhatToSend(v, copy) == IF v.based = v.revision
                       THEN Patched(log[v.revision].doc, v.doc, copy)
                       ELSE copy

\* No call under way.
Rest(v) == [v EXCEPT !.call = "none", !.sent = <<>>, !.fresh = {}, !.left = 0]

\* adopt, openCompany: the company as the server has it becomes the copy.
Adopted(v, doc, rev) ==
    [Rest(v) EXCEPT !.copy = doc, !.doc = doc, !.based = rev, !.revision = rev, !.kept = rev, !.mixed = FALSE,
                    !.unsaved = FALSE, !.status = "saved", !.seen = 0, !.over = FALSE]

\* What is kept of a window that has all it has from the server (setBase,
\* persist, persistCompany), and of one that found its own again.
Unedited(doc, rev) == [copy |-> doc, doc |-> doc, based |-> rev, revision |-> rev, dirty |-> FALSE]
ItsOwn(v) == [copy |-> v.copy, doc |-> v.doc, based |-> v.based, revision |-> v.kept,
           dirty |-> v.unsaved]

Adopts(w, doc, rev) == Put(w, Adopted(win[w], doc, rev)) /\ Stash(w, Unedited(doc, rev))

InConflict(v) == [Rest(v) EXCEPT !.status = "conflict"]

Opened(doc) ==
    [copy |-> doc, doc |-> doc, based |-> 1, revision |-> 1, kept |-> 1, mixed |-> FALSE,
     unsaved |-> FALSE, status |-> "saved", seen |-> 0, over |-> FALSE, call |-> "none", sent |-> <<>>,
     fresh |-> {}, left |-> 0, made |-> 0]

\* The company has just been created, from one of the windows, and opened in all.
WInit ==
    /\ Init
    /\ log[1].user = UserOf[CHOOSE w \in Clients : TRUE]
    /\ win = [w \in Clients |-> Opened(Current)]
    /\ wire = [w \in Clients |-> NoWire]
    /\ storage = [b \in Browsers |-> Unedited(Current, 1)]
    /\ touched = [w \in Clients |-> {}]

-----------------------------------------------------------------------------
(* Edits (update, commit), each with a content of its own.                  *)

Commit(w, k, content) ==
    LET v == win[w]
    IN  /\ v.made < MaxEdits[w]
        /\ Put(w, [v EXCEPT !.copy = With(@, k, content), !.unsaved = TRUE, !.made = @ + 1,
                            !.kept = v.revision,
                            !.fresh = IF v.call = "none" THEN {} ELSE @ \cup {k},
                            !.status = IF @ \in {"conflict", "saving"} THEN @ ELSE "pending"])
        /\ Stash(w, [Kept(w) EXCEPT !.copy = With(v.copy, k, content), !.revision = v.revision,
                                   !.dirty = TRUE])
        /\ touched' = [touched EXCEPT ![w] = @ \cup {k}]
        /\ UNCHANGED wire
        /\ Calm

Token(w) == <<w, win[w].made + 1>>

\* The tokens of a window's edits, and the one that a content tells its last edit by.
Tokens(w) == {<<w, i>> : i \in 1..MaxEdits[w]}
Mark(k, content) == IF k[1] = "order" THEN content.text ELSE content

\* A company is created with its orders numbered, and before any window edits it.
ASSUME CreatedAssumption ==
    \A d \in Docs :
       /\ IsFiniteSet(DOMAIN d)
       /\ \A k \in OfKind(d, "order") : /\ k[2] \in Nat /\ k = <<"order", k[2]>>
                                       /\ d[k] \in [taken : {d[k].taken}, text : {d[k].text}]
       /\ \A k \in OfKind(d, "order") \cup OfKind(d, "setting"), w \in Clients :
             Mark(k, d[k]) \notin Tokens(w)

EditSetting(w) == \E k \in OfKind(win[w].copy, "setting") : Commit(w, k, Token(w))

\* An order takes the number after the greatest this copy has.
TakeOrder(w) ==
    LET taken == Numbers(win[w].copy)
        n     == IF taken = {} THEN 1 ELSE Greatest(taken) + 1
    IN  Commit(w, <<"order", n>>, [taken |-> Token(w), text |-> Token(w)])

EditOrder(w) == \E k \in OfKind(win[w].copy, "order") :
                     Commit(w, k, [win[w].copy[k] EXCEPT !.text = Token(w)])

-----------------------------------------------------------------------------
(* saveNow, when the timer of an edit or of a failed save fires.            *)

Saving(v) == [v EXCEPT !.status = "saving", !.call = "save", !.sent = v.copy, !.fresh = {}]

SaveRequest(v) == [kind |-> "save", doc |-> WhatToSend(v, v.copy), base |-> v.revision]

\* A slip: a save that failed is not tried again.
SaveNow_Once(w) ==
    LET v == win[w]
    IN  /\ v.call = "none" /\ v.unsaved /\ v.status \notin {"conflict", "failed"}
        /\ Put(w, Saving(v))
        /\ Send(w, SaveRequest(v))
        /\ UNCHANGED <<storage, touched>>
        /\ Calm

SaveNow(w) ==
    LET v == win[w]
    IN  /\ v.call = "none" /\ v.unsaved /\ v.status # "conflict"
        /\ Put(w, Saving(v))
        /\ Send(w, SaveRequest(v))
        /\ UNCHANGED <<storage, touched>>
        /\ Calm

\* A slip: the save becomes the base as the copy is when the answer comes.
AnswerSaved_BaseIsCopy(w) ==
    LET v == win[w]
        a == wire[w]
    IN  /\ v.call = "save" /\ a.kind = "saved"
        /\ Put(w, [Rest(v) EXCEPT !.doc = v.copy, !.based = a.revision, !.revision = a.revision,
                                  !.kept = a.revision, !.unsaved = v.fresh # {},
                                  !.status = "saved", !.over = FALSE])
        /\ Stash(w, [Kept(w) EXCEPT !.doc = v.copy, !.based = a.revision,
                                   !.revision = a.revision, !.dirty = v.fresh # {}])
        /\ Send(w, NoWire)
        /\ UNCHANGED touched
        /\ Calm

\* The save was taken: what was sent is the base now. When master data of it was
\* held, carry on from what the server saved, unless edits came meanwhile:
\* those are on the old copy, and only its base moves. Of all this the browser is
\* given what the handler has changed: the copy only where it was replaced.
AnswerSaved(w) ==
    LET v == win[w]
        a == wire[w]
        moved == [Rest(v) EXCEPT !.based = a.revision, !.revision = a.revision,
                                 !.status = "saved", !.over = FALSE]
    IN  /\ v.call = "save" /\ a.kind = "saved"
        /\ \/ /\ a.held /\ v.fresh = {}
              /\ Adopts(w, a.doc, a.revision)
           \/ /\ a.held /\ v.fresh # {}
              /\ Put(w, [moved EXCEPT !.doc = a.doc])
              /\ Stash(w, [Kept(w) EXCEPT !.doc = a.doc, !.based = a.revision])
           \/ /\ ~a.held
              /\ Put(w, [moved EXCEPT !.doc = v.sent, !.unsaved = v.fresh # {},
                                      !.kept = a.revision])
              /\ Stash(w, [Kept(w) EXCEPT !.doc = v.sent, !.based = a.revision,
                                         !.revision = a.revision, !.dirty = v.fresh # {}])
        /\ Send(w, NoWire)
        /\ UNCHANGED touched
        /\ Calm

\* A colleague saved first: mergeQuietly, with what this save was to send.
AnswerStale(w) ==
    LET v == win[w]
        a == wire[w]
    IN  /\ v.call = "save" /\ a.kind = "stale"
        /\ Put(w, [v EXCEPT !.call = "quiet", !.seen = a.revision, !.left = MaxQuiet])
        /\ Send(w, [kind |-> "merge", from |-> log[v.revision].doc,
                    mine |-> WhatToSend(v, v.sent), base |-> v.revision, quiet |-> TRUE,
                    choose |-> <<>>])
        /\ UNCHANGED <<storage, touched>>
        /\ Calm

-----------------------------------------------------------------------------
(* mergeQuietly.                                                            *)

\* The merge was made: its result is the copy, unless edits came meanwhile.
\* Those are merged onto it from what was sent, a few times.
AnswerMerged(w) ==
    LET v == win[w]
        a == wire[w]
    IN  /\ v.call = "quiet" /\ a.kind = "merged"
        /\ \/ /\ v.fresh = {}
              /\ Adopts(w, a.doc, a.revision)
              /\ Send(w, NoWire)
           \/ /\ v.fresh # {} /\ v.left > 0
              /\ UNCHANGED storage
              /\ Put(w, [v EXCEPT !.sent = v.copy, !.fresh = {}, !.left = @ - 1])
              /\ Send(w, [kind |-> "merge", from |-> v.sent, mine |-> v.copy,
                          base |-> v.revision, quiet |-> TRUE, choose |-> <<>>])
           \/ /\ v.fresh # {} /\ v.left = 0
              /\ UNCHANGED storage
              /\ Put(w, InConflict(v))
              /\ Send(w, NoWire)
        /\ UNCHANGED touched
        /\ Calm

\* The merge would decide something: the person is asked.
AnswerClash(w) ==
    /\ win[w].call = "quiet" /\ wire[w].kind = "clash"
    /\ Put(w, InConflict(win[w]))
    /\ Send(w, NoWire)
    /\ UNCHANGED <<storage, touched>>
    /\ Calm

\* No answer: a save is tried again by and by; a merge is not.
NoAnswer(w) ==
    LET v == win[w]
    IN  /\ v.call # "none"
        /\ Put(w, IF v.call = "save"
                  THEN [Rest(v) EXCEPT !.status = "failed"]
                  ELSE InConflict(v))
        /\ Send(w, NoWire)
        /\ UNCHANGED <<storage, touched>>
        /\ Calm

-----------------------------------------------------------------------------
(* What the person decides in a conflict.                                   *)

Asked(v) == v.status = "conflict" /\ v.call = "none"

\* keepMine: over the save the conflict is with.
KeepMine(w) ==
    LET v == [win[w] EXCEPT !.revision = win[w].seen, !.over = TRUE, !.seen = 0]
    IN  /\ Asked(win[w])
        /\ Put(w, Saving(v))
        /\ Send(w, SaveRequest(v))
        /\ UNCHANGED <<storage, touched>>
        /\ Calm

\* mergeMine: each clash as the person chooses.
MergeMine(w, choose) ==
    LET v == win[w]
    IN  /\ Asked(v)
        /\ Put(w, [v EXCEPT !.call = "choose", !.sent = v.copy, !.fresh = {}])
        /\ Send(w, [kind |-> "merge", from |-> log[v.revision].doc, mine |-> WhatToSend(v, v.copy),
                    base |-> v.revision, quiet |-> FALSE, choose |-> choose])
        /\ UNCHANGED <<storage, touched>>
        /\ Calm

\* ... opened as it comes back, unless the copy was edited meanwhile.
AnswerChosen(w) ==
    LET v == win[w]
        a == wire[w]
    IN  /\ v.call = "choose" /\ a.kind = "merged"
        /\ \/ v.fresh = {} /\ Adopts(w, a.doc, a.revision)
           \/ v.fresh # {} /\ Put(w, InConflict(v)) /\ UNCHANGED storage
        /\ Send(w, NoWire)
        /\ UNCHANGED touched
        /\ Calm

\* The latest save opened: over a copy with nothing unsaved (a newer save was
\* seen, or a reload), or dropping it in a conflict.
OpenLatest(w) ==
    LET v == win[w]
    IN  /\ v.call = "none"
        /\ v.status = "conflict" \/ ~v.unsaved
        /\ Adopts(w, Current, Revision)
        /\ touched' = [touched EXCEPT ![w] = {}]
        /\ UNCHANGED wire
        /\ Calm

\* What is on screen after a reload: the copy, its base and the revision that lie in
\* the browser; whatever was under way is forgotten.
Restored(v, s) ==
    [Rest(v) EXCEPT !.copy = s.copy, !.doc = s.doc, !.based = s.based,
                    !.revision = s.revision, !.kept = s.revision, !.unsaved = s.dirty,
                    !.seen = 0, !.over = @ /\ s.revision = v.revision,
                    !.mixed = @ \/ s # ItsOwn(v),
                    !.status = IF s.dirty THEN "pending" ELSE "saved"]

\* Slips: the answer under way is still waited for; the copy goes back to the
\* save it was made from.
Reload_StillWaiting(w) ==
    /\ Put(w, Restored(win[w], Kept(w)))
    /\ UNCHANGED <<wire, storage, touched>>
    /\ Calm

Reload_LosesCopy(w) ==
    /\ Put(w, [Restored(win[w], Kept(w)) EXCEPT !.copy = Kept(w).doc])
    /\ Send(w, NoWire)
    /\ UNCHANGED <<storage, touched>>
    /\ Calm

\* restore: the page is loaded again.
Reload(w) ==
    /\ Put(w, Restored(win[w], Kept(w)))
    /\ Send(w, NoWire)
    /\ UNCHANGED <<storage, touched>>
    /\ Calm

-----------------------------------------------------------------------------
(* The server.                                                              *)

\* A slip: the save is taken whatever it was based on.
ServeSave_NoBase(w) ==
    LET q == wire[w]
    IN  /\ q.kind = "save"
        /\ Ready /\ Bounded
        /\ Store(q.doc, UserOf[w], w, "saved")
        /\ Serves("saved", UserOf[w], w, q.base, TRUE)
        /\ UNCHANGED <<approval, deciding, cut, win, storage>>
        /\ Send(w, [kind |-> "saved", doc |-> After, revision |-> Len(log'), held |-> requests' # requests])
        /\ touched' = [touched EXCEPT ![w] = win[w].fresh]

ServeSave(w) ==
    LET q == wire[w]
    IN  /\ q.kind = "save"
        /\ Save(UserOf[w], w, q.doc, q.base)
        /\ Send(w, [kind |-> "saved", doc |-> log'[Len(log')].doc, revision |-> Len(log'),
                    held |-> requests' # requests])
        /\ touched' = [touched EXCEPT ![w] = win[w].fresh]
        /\ UNCHANGED <<win, storage>>

RefuseSave(w) ==
    LET q == wire[w]
    IN  /\ q.kind = "save"
        /\ ~Accepted(q.base, UserOf[w], w)
        /\ Send(w, [kind |-> "stale", revision |-> Revision])
        /\ UNCHANGED <<win, storage, touched>>
        /\ Calm

ServeMerge(w) ==
    LET q == wire[w]
    IN  /\ q.kind = "merge"
        /\ MergeFrom(UserOf[w], w, q.from, q.mine, q.base, q.quiet, q.choose)
        /\ Send(w, [kind |-> "merged", doc |-> log'[Len(log')].doc, revision |-> Len(log')])
        /\ touched' = [touched EXCEPT ![w] = win[w].fresh]
        /\ UNCHANGED <<win, storage>>

RefuseMerge(w) ==
    LET q == wire[w]
    IN  /\ q.kind = "merge" /\ q.quiet
        /\ ~MineOnly(q.base, UserOf[w]) /\ Conflicts(q.from, q.mine, Current) # {}
        /\ Send(w, [kind |-> "clash"])
        /\ UNCHANGED <<win, storage, touched>>
        /\ Calm

SaveServed(w)    == ServeSave(w) \/ RefuseSave(w)
MergeServed(w)   == ServeMerge(w) \/ RefuseMerge(w)
SaveAnswered(w)  == AnswerSaved(w) \/ AnswerStale(w)
MergeAnswered(w) == AnswerMerged(w) \/ AnswerClash(w) \/ AnswerChosen(w)

WStep(w) ==
    \/ EditSetting(w) \/ TakeOrder(w) \/ EditOrder(w)
    \/ SaveNow(w) \/ NoAnswer(w)
    \/ SaveServed(w) \/ SaveAnswered(w) \/ MergeServed(w) \/ MergeAnswered(w)
    \/ KeepMine(w) \/ OpenLatest(w) \/ Reload(w)
    \/ \E choose \in Choices : MergeMine(w, choose)

WNext == \E w \in Clients : WStep(w)

\* Timers fire, and not every request or answer of a kind there is gets lost.
WFairness ==
    \A w \in Clients :
       /\ WF_allVars(SaveNow(w))
       /\ SF_allVars(SaveServed(w))  /\ SF_allVars(SaveAnswered(w))
       /\ SF_allVars(MergeServed(w)) /\ SF_allVars(MergeAnswered(w))

WSpec == WInit /\ [][WNext]_allVars /\ WFairness

-----------------------------------------------------------------------------
\* Type correctness: a window's base and revision are revisions the company has,
\* and what is on the wire belongs to a call the window has under way.
WTypeOK ==
    /\ TypeOK
    /\ \A w \in Clients :
          /\ win[w].status \in {"saved", "pending", "saving", "failed", "conflict"}
          /\ {win[w].based, win[w].revision, Kept(w).based, Kept(w).revision} \subseteq 1..Revision
          /\ win[w].seen \in 0..Revision
          /\ win[w].left \in 0..MaxQuiet
          /\ win[w].call = "none" <=> wire[w] = NoWire

\* A window knows the save its copy was made from: what it keeps as its base is
\* that revision as the company has it, whatever was lost, merged or held on the
\* way, and whichever windows share its browser. What it sends is worked out from
\* it.
BaseIsTheRevision ==
    \A w \in Clients : /\ win[w].doc = log[win[w].based].doc
                       /\ Kept(w).doc = log[Kept(w).based].doc

\* "Saved" is true: a window with nothing unsaved shows its revision of the
\* company, and not something else it believes to have sent; unless, since it had
\* the company from the server, a reload gave it what another window had put in
\* their browser.
SavedIsTheCompanys ==
    \A w \in Clients : ~win[w].unsaved /\ ~win[w].mixed => win[w].copy = log[win[w].revision].doc

\* A window that is alone in its browser finds its own again at every reload.
AloneFindsItsOwn ==
    \A w \in Clients : Alone(w) => ~win[w].mixed /\ Kept(w) = ItsOwn(win[w])

\* What a window takes for the company is the company: its base is the revision it
\* names, and its "saved" is true, whatever was lost, merged or held on the way;
\* with other windows in its browser, until a reload mixes them.
ShowsTheCompany == BaseIsTheRevision /\ SavedIsTheCompanys /\ AloneFindsItsOwn

\* The working copy carries them (_own): a save accepted on an earlier revision,
\* since only this window's saves came after it, changes nothing those saves
\* made but what its person has edited since they were sent. (A window that a reload
\* has given another's copy may bring that back under its own name.)
CarriesItsOwn ==
    [][\A w \in Clients :
          /\ log' # log /\ last'.action = "saved" /\ last'.client = w
          /\ last'.base < Revision /\ ~win[w].over /\ ~win[w].mixed
          => \A k \in DOMAIN Current \cup DOMAIN After :
                At(After, k) # At(Current, k) => k \in touched[w]]_allVars

\* Nobody undoes a colleague's work without having seen it: a content that another
\* person was the first to bring to the company, after the revision a window is
\* based on, is not replaced by a save or a quiet merge of that window.
NoColleagueUndone ==
    [][\A w \in Clients :
          /\ log' # log /\ last'.client = w /\ last'.quiet /\ ~win[w].mixed
          => \A n \in (win[w].revision + 1)..Revision, k \in DOMAIN Current :
                /\ log[n].user # UserOf[w]
                /\ At(Current, k) # Absent /\ At(log[n].doc, k) = At(Current, k)
                /\ \A j \in 1..(n - 1) : At(log[j].doc, k) # At(Current, k)
                => At(After, k) = At(Current, k)]_allVars

\* An order taken in a window is in the company at most once, however often it
\* had to be sent.
TakenOnce ==
    \A n, m \in Numbers(Current) :
        Current[<<"order", n>>].taken = Current[<<"order", m>>].taken => n = m

\* Every edit is saved in the end, or its person is asked. (Within the bounds; a
\* reload may take the edit away with what another window of the browser put there.)
EditsArrive ==
    \A w \in Clients : win[w].unsaved ~> \/ ~win[w].unsaved
                                         \/ win[w].status = "conflict"
                                         \/ ~Bounded
=============================================================================
