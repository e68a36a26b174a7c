-------------------------- MODULE WindowSavesProofs --------------------------
(***************************************************************************)
(* What a browser window believes of the company is so: the base it works  *)
(* its changes out from is the revision it takes it for, and a copy it     *)
(* calls saved is that revision. For every number of windows, edits and    *)
(* members, whatever is lost on the way, and approval on or off.           *)
(*                                                                         *)
(* The inductive invariant ties a window to what is on its wire: a request *)
(* carries the copy it was made for, and an answer the revision it names.  *)
(* What lies in a browser is a document beside a base that is a revision,  *)
(* whichever of its windows put it there; a window that has found its own  *)
(* there so far, and is alone in its browser, finds it again.              *)
(* What the server does to the log is taken from CompanyStoreProofs.       *)
(*                                                                         *)
(* That a colleague's work is not undone rests on where a content comes    *)
(* from: there is a record of who edited what that explains every document *)
(* of the company, of a window and of a request. The record is not a       *)
(* variable: the invariant says that there is one.                         *)
(***************************************************************************)
EXTENDS WindowSaves, CompanyStoreProofs

IsWindow(v) ==
    v \in [copy : {v.copy}, doc : {v.doc}, based : {v.based}, revision : {v.revision},
           kept : {v.kept}, unsaved : {v.unsaved}, status : {v.status}, seen : {v.seen},
           over : {v.over}, call : {v.call}, sent : {v.sent}, fresh : {v.fresh},
           left : {v.left}, made : {v.made}, mixed : {v.mixed}]

\* A window v with m on its wire.
Linked(v, m) ==
    /\ IsWindow(v)
    /\ IsDoc(v.copy) /\ v.mixed \in BOOLEAN
    /\ v.based \in 1..Revision /\ v.revision \in 1..Revision /\ v.kept \in 1..Revision
    /\ v.doc = log[v.based].doc
    /\ ~v.unsaved => (v.mixed \/ v.copy = log[v.revision].doc) /\ v.kept = v.revision
    /\ v.call \in {"none", "save", "quiet", "choose"}
    /\ v.call # "none" => v.unsaved /\ (v.fresh = {} => v.copy = v.sent)
    /\ v.status = "conflict" \/ v.call \in {"quiet", "choose"} => v.unsaved /\ v.seen \in 1..Revision
    /\ m.kind \in {"save", "saved", "stale"} => v.call = "save"
    /\ m.kind = "save" => m.doc = v.sent /\ IsDoc(m.doc)
    /\ m.kind \in {"saved", "merged"} => m.revision \in 1..Revision /\ m.doc = log[m.revision].doc
    /\ m.kind = "saved" /\ ~m.held => m.doc = v.sent
    /\ m.kind = "stale" => m.revision \in 1..Revision

WInv ==
    /\ LogOK /\ RequestsOK
    /\ win = [w \in Clients |-> win[w]]
    /\ wire = [w \in Clients |-> wire[w]]
    /\ \A w \in Clients : Linked(win[w], wire[w])

\* What lies in a browser: a document, and a base that is a revision.
IsKept(s) ==
    /\ s \in [copy : {s.copy}, doc : {s.doc}, based : {s.based}, revision : {s.revision},
              dirty : {s.dirty}]
    /\ IsDoc(s.copy) /\ s.dirty \in BOOLEAN
    /\ s.based \in 1..Revision /\ s.revision \in 1..Revision
    /\ s.doc = log[s.based].doc

StorageOK ==
    /\ storage = [b \in Browsers |-> storage[b]]
    /\ \A b \in Browsers : IsKept(storage[b])

\* Changes worked out from a save and put on it give the copy again.
LEMMA PatchedBack ==
    ASSUME NEW doc, NEW copy, IsDoc(copy)
    PROVE  Patched(doc, doc, copy) = copy
<1> DEFINE same    == {k \in DOMAIN doc \cap DOMAIN copy : doc[k] = copy[k]}
           changed == (DOMAIN doc \cup DOMAIN copy) \ same
           dom     == (DOMAIN doc \ changed) \cup (changed \cap DOMAIN copy)
<1>1. dom = DOMAIN copy
  OBVIOUS
<1>2. \A k \in dom : (IF k \in changed THEN copy[k] ELSE doc[k]) = copy[k]
  OBVIOUS
<1>3. Patched(doc, doc, copy) = [k \in dom |-> IF k \in changed THEN copy[k] ELSE doc[k]]
  BY DEF Patched
<1> HIDE DEF dom, changed
<1> QED
  BY <1>1, <1>2, <1>3 DEF IsDoc

\* A save sends the copy, either way.
LEMMA CopyIsSent ==
    ASSUME NEW v, NEW copy, IsDoc(copy), v.doc = log[v.based].doc
    PROVE  WhatToSend(v, copy) = copy
<1>1. CASE v.based = v.revision
  <2>1. PICK d : d = v.doc
    OBVIOUS
  <2>2. Patched(d, d, copy) = copy
    BY PatchedBack
  <2> QED
    BY <1>1, <2>1, <2>2 DEF WhatToSend
<1>2. CASE v.based # v.revision
  BY <1>2 DEF WhatToSend
<1> QED
  BY <1>1, <1>2

\* With no master data changed, nothing of a document is held apart.
LEMMA NothingApart ==
    ASSUME NEW c, NEW d, IsDoc(d), MasterPart(d) = MasterPart(c)
    PROVE  WithoutMaster(c, d) = d
<1>1. /\ {j \in DOMAIN d : IsMaster(j)} = {j \in DOMAIN c : IsMaster(j)}
      /\ \A k \in DOMAIN d : IsMaster(k) => c[k] = d[k]
  <2>1. DOMAIN MasterPart(d) = {j \in DOMAIN d : IsMaster(j)} /\ DOMAIN MasterPart(c) = {j \in DOMAIN c : IsMaster(j)}
    BY DEF MasterPart
  <2>2. \A k \in DOMAIN d : IsMaster(k) => MasterPart(d)[k] = d[k]
    BY DEF MasterPart
  <2>3. \A k \in DOMAIN c : IsMaster(k) => MasterPart(c)[k] = c[k]
    BY DEF MasterPart
  <2> QED
    BY <2>1, <2>2, <2>3
<1> DEFINE dom == {j \in DOMAIN d : ~IsMaster(j)} \cup {j \in DOMAIN c : IsMaster(j)}
<1>2. dom = DOMAIN d
  BY <1>1
<1>3. WithoutMaster(c, d) = [k \in dom |-> IF IsMaster(k) THEN c[k] ELSE d[k]]
  BY DEF WithoutMaster
<1> HIDE DEF dom
<1> QED
  BY <1>1, <1>2, <1>3 DEF IsDoc

\* What the server saves of a request that it holds nothing of is the request.
LEMMA SavedWhole ==
    ASSUME LogOK, RequestsOK, NEW d, IsDoc(d), NEW u \in Users, NEW c \in Clients,
           Store(d, u, c, "saved"), requests' = requests
    PROVE  log'[Len(log')].doc = d
<1>1. ~(approval /\ MasterPart(d) # MasterPart(Current))
  <2>1. PICK q : q = HeldRequest(u, MasterPart(Current), MasterPart(d))
    OBVIOUS
  <2>2. Append(requests, q) # requests
    <3>1. requests \in Seq({requests[i] : i \in DOMAIN requests} \cup {q})
      <4>1. \A i \in 1..Len(requests) : requests[i] \in {requests[k] : k \in DOMAIN requests} \cup {q}
        BY DEF RequestsOK
      <4> QED
        BY <4>1, IsASeq DEF RequestsOK
    <3>2. Len(Append(requests, q)) = Len(requests) + 1 /\ Len(requests) \in Nat
      BY <3>1
    <3> QED
      BY <3>2
  <2> QED
    BY <2>1, <2>2 DEF Store
<1> DEFINE text == IF approval THEN WithoutMaster(Current, d) ELSE d
<1>2. text = d
  BY <1>1, NothingApart
<1>3. log' = IF text = Current THEN log ELSE Append(log, Entry(text, u, c))
  BY DEF Store
<1> HIDE DEF text
<1>4. CASE d = Current
  BY <1>2, <1>3, <1>4 DEF Current, Revision
<1>5. CASE d # Current
  <2>1. log' = Append(log, Entry(d, u, c))
    BY <1>2, <1>3, <1>5
  <2>2. log'[Len(log')] = Entry(d, u, c)
    BY <2>1, Appended
  <2> QED
    BY <2>2 DEF Entry
<1> QED
  BY <1>4, <1>5
-----------------------------------------------------------------------------
\* What a save or a merge leaves of the log.
Grown == /\ LogOK' /\ RequestsOK'
         /\ Len(log') \in Nat /\ Len(log') >= Revision
         /\ \A n \in 1..Revision : log'[n] = log[n]

LEMMA StoreGrows ==
    ASSUME LogOK, RequestsOK, NEW d, IsDoc(d), NEW u \in Users, NEW c \in Clients, NEW action,
           Store(d, u, c, action)
    PROVE  Grown
<1>1. /\ LogOK'
      /\ \/ log' = log
         \/ Len(log') = Revision + 1 /\ \A n \in 1..Revision : log'[n] = log[n]
  BY Stored
<1>2. RequestsOK'
  BY StoredRequests
<1>3. Len(log) \in Nat
  BY DEF LogOK
<1> QED
  BY <1>1, <1>2, <1>3 DEF Grown, Revision

\* A window and its wire stay linked while the company moves on.
LEMMA StillLinked ==
    ASSUME NEW v, NEW m, Linked(v, m), Grown, Len(log) \in Nat
    PROVE  Linked(v, m)'
<1>1. 1..Revision \subseteq 1..Len(log')
  BY DEF Grown, Revision
<1> QED
  BY <1>1 DEF Linked, Grown, Revision

\* A step of one window.
LEMMA OneMoves ==
    ASSUME WInv, NEW w \in Clients, NEW v, NEW m, Grown, Linked(v, m)',
           win' = [win EXCEPT ![w] = v], wire' = [wire EXCEPT ![w] = m]
    PROVE  WInv'
<1>1. Len(log) \in Nat
  BY DEF WInv, LogOK
<1>2. \A x \in Clients : x # w => Linked(win[x], wire[x])'
  <2> TAKE x \in Clients
  <2> HAVE x # w
  <2>1. PICK a, b : a = win[x] /\ b = wire[x]
    OBVIOUS
  <2>2. Linked(a, b)'
    BY <1>1, <2>1, StillLinked DEF WInv
  <2>3. win'[x] = a /\ wire'[x] = b
    BY <2>1 DEF WInv
  <2> QED
    BY <2>2, <2>3
<1>3. win'[w] = v /\ wire'[w] = m
  BY DEF WInv
<1>4. Linked(win[w], wire[w])'
  BY <1>3
<1>5. win' = [x \in Clients |-> win'[x]] /\ wire' = [x \in Clients |-> wire'[x]]
  BY DEF WInv
<1> QED
  BY <1>2, <1>4, <1>5 DEF WInv, Grown
-----------------------------------------------------------------------------
(* The steps that leave the server alone.                                   *)

LEMMA CalmStep ==
    ASSUME WInv, NEW w \in Clients, NEW v, NEW m, Linked(v, m), Put(w, v),
           Send(w, m) \/ (wire' = wire /\ m = wire[w]), Calm
    PROVE  WInv'
<1>1. log' = log /\ requests' = requests
  BY DEF Calm, serverVars
<1>2. Grown
  BY <1>1 DEF Grown, WInv, LogOK, RequestsOK, Revision
<1>3. Linked(v, m)'
  BY <1>1 DEF Linked, Revision
<1>4. wire' = [wire EXCEPT ![w] = m]
  BY DEF Send, WInv
<1> QED
  BY <1>2, <1>3, <1>4, OneMoves DEF Put

LEMMA CommitKeeps ==
    ASSUME WInv, NEW w \in Clients, NEW k, NEW content, Commit(w, k, content)
    PROVE  WInv'
<1>1. PICK v, m : v = win[w] /\ m = wire[w]
  OBVIOUS
<1>2. Linked(v, m)
  BY <1>1 DEF WInv
<1>3. PICK v2 : v2 = [v EXCEPT !.copy = With(@, k, content), !.unsaved = TRUE, !.made = @ + 1,
                               !.kept = v.revision,
                               !.fresh = IF v.call = "none" THEN {} ELSE @ \cup {k},
                               !.status = IF @ \in {"conflict", "saving"} THEN @ ELSE "pending"]
  OBVIOUS
<1>4. Put(w, v2) /\ wire' = wire /\ Calm
  BY <1>1, <1>3 DEF Commit
<1>5. IsDoc(With(v.copy, k, content))
  BY DEF IsDoc, With
<1>6. Linked(v2, m)
  <2>1. IsWindow(v2) /\ v2.copy = With(v.copy, k, content) /\ v2.unsaved = TRUE
        /\ v2.kept = v.revision /\ v2.mixed = v.mixed /\ v2.doc = v.doc /\ v2.based = v.based
        /\ v2.revision = v.revision /\ v2.call = v.call /\ v2.sent = v.sent /\ v2.seen = v.seen
        /\ (v2.status = "conflict" => v.status = "conflict")
    BY <1>2, <1>3 DEF Linked, IsWindow
  <2>2. v.call # "none" => v2.fresh # {}
    BY <1>2, <1>3 DEF Linked, IsWindow
  <2> QED
    BY <1>2, <1>5, <2>1, <2>2 DEF Linked
<1> QED
  BY <1>1, <1>4, <1>6, CalmStep

\* A save is sent: by itself, or over a colleague's.
LEMMA SavingIsLinked ==
    ASSUME NEW v, IsWindow(v), IsDoc(v.copy), v.unsaved, v.doc = log[v.based].doc,
           v.based \in 1..Revision, v.revision \in 1..Revision, v.kept \in 1..Revision,
           v.mixed \in BOOLEAN
    PROVE  Linked(Saving(v), SaveRequest(v))
<1>1. PICK v2 : v2 = Saving(v)
  OBVIOUS
<1>2. IsWindow(v2) /\ v2.copy = v.copy /\ v2.unsaved = v.unsaved
      /\ v2.kept = v.kept /\ v2.mixed = v.mixed /\ v2.doc = v.doc /\ v2.based = v.based /\ v2.revision = v.revision
      /\ v2.call = "save" /\ v2.sent = v.copy /\ v2.fresh = {} /\ v2.status = "saving"
  BY <1>1 DEF Saving, Linked, IsWindow
<1>3. WhatToSend(v, v.copy) = v.copy
  BY CopyIsSent DEF Linked
<1>4. PICK m2 : m2 = SaveRequest(v)
  OBVIOUS
<1>5. m2.kind = "save" /\ m2.doc = v.copy
  BY <1>3, <1>4 DEF SaveRequest
<1>6. Linked(v2, m2)
  BY <1>2, <1>5 DEF Linked
<1> QED
  BY <1>1, <1>4, <1>6

LEMMA SaveNowKeeps ==
    ASSUME WInv, NEW w \in Clients, SaveNow(w)
    PROVE  WInv'
<1>1. PICK v, m : v = win[w] /\ m = wire[w]
  OBVIOUS
<1>2. Linked(v, m) /\ v.unsaved
  BY <1>1 DEF WInv, SaveNow
<1>3. PICK v2, m2 : v2 = Saving(v) /\ m2 = SaveRequest(v)
  OBVIOUS
<1>4. Linked(v2, m2)
  BY <1>2, <1>3, SavingIsLinked DEF Linked
<1>5. Put(w, v2) /\ Send(w, m2) /\ Calm
  BY <1>1, <1>3 DEF SaveNow
<1> QED
  BY <1>4, <1>5, CalmStep

LEMMA KeepMineKeeps ==
    ASSUME WInv, NEW w \in Clients, KeepMine(w)
    PROVE  WInv'
<1>1. PICK u, m : u = win[w] /\ m = wire[w]
  OBVIOUS
<1>2. Linked(u, m) /\ u.status = "conflict" /\ u.call = "none"
  BY <1>1 DEF WInv, KeepMine, Asked
<1>3. PICK v : v = [u EXCEPT !.revision = u.seen, !.over = TRUE, !.seen = 0]
  OBVIOUS
<1>4. IsWindow(v) /\ v.copy = u.copy /\ v.unsaved = u.unsaved
      /\ v.kept = u.kept /\ v.mixed = u.mixed /\ v.doc = u.doc /\ v.based = u.based /\ v.revision = u.seen
  BY <1>2, <1>3 DEF Linked, IsWindow
<1>5. PICK v2, m2 : v2 = Saving(v) /\ m2 = SaveRequest(v)
  OBVIOUS
<1>6. Linked(v2, m2)
  <2>1. IsWindow(v) /\ IsDoc(v.copy) /\ v.unsaved /\ v.doc = log[v.based].doc
        /\ v.based \in 1..Revision /\ v.revision \in 1..Revision /\ v.kept \in 1..Revision
        /\ v.mixed \in BOOLEAN
    BY <1>2, <1>4 DEF Linked
  <2> QED
    BY <2>1, <1>5, SavingIsLinked
<1>7. Put(w, v2) /\ Send(w, m2) /\ Calm
  BY <1>1, <1>3, <1>5 DEF KeepMine
<1> QED
  BY <1>6, <1>7, CalmStep

\* A window that takes a revision of the company as its copy.
LEMMA AdoptedIsLinked ==
    ASSUME NEW v, IsWindow(v), NEW r \in 1..Revision, LogOK
    PROVE  Linked(Adopted(v, log[r].doc, r), NoWire)
<1>1. PICK v2, d : d = log[r].doc /\ v2 = Adopted(v, d, r)
  OBVIOUS
<1>2. IsWindow(v2) /\ v2.copy = d /\ v2.doc = d /\ v2.based = r /\ v2.revision = r
      /\ v2.kept = r /\ v2.mixed = FALSE /\ v2.call = "none" /\ v2.status = "saved"
  BY <1>1 DEF Adopted, Rest, IsWindow
<1>3. IsDoc(d)
  BY <1>1 DEF LogOK, Revision, IsEntry
<1>4. Linked(v2, NoWire)
  BY <1>1, <1>2, <1>3 DEF Linked, NoWire
<1> QED
  BY <1>1, <1>4

\* A window that stops waiting, and asks its person.
LEMMA ConflictIsLinked ==
    ASSUME NEW v, NEW m, Linked(v, m), v.call \in {"quiet", "choose"}
    PROVE  Linked(InConflict(v), NoWire)
<1>1. PICK v2 : v2 = InConflict(v)
  OBVIOUS
<1>2. IsWindow(v2) /\ v2.copy = v.copy /\ v2.doc = v.doc /\ v2.based = v.based
      /\ v2.revision = v.revision /\ v2.kept = v.kept /\ v2.mixed = v.mixed /\ v2.unsaved = v.unsaved
      /\ v2.seen = v.seen /\ v2.call = "none" /\ v2.status = "conflict"
  BY <1>1 DEF InConflict, Rest, Linked, IsWindow
<1>3. Linked(v2, NoWire)
  BY <1>2 DEF Linked, NoWire
<1> QED
  BY <1>1, <1>3

LEMMA AnswerSavedKeeps ==
    ASSUME WInv, NEW w \in Clients, AnswerSaved(w)
    PROVE  WInv'
<1>1. PICK v, a : v = win[w] /\ a = wire[w]
  OBVIOUS
<1>2. Linked(v, a) /\ LogOK /\ v.call = "save" /\ a.kind = "saved"
  BY <1>1 DEF WInv, AnswerSaved
<1>3. /\ v.unsaved /\ (v.fresh = {} => v.copy = v.sent)
      /\ a.revision \in 1..Revision /\ a.doc = log[a.revision].doc
      /\ ~a.held => a.doc = v.sent
  BY <1>2 DEF Linked
<1>4. PICK moved : moved = [Rest(v) EXCEPT !.based = a.revision, !.revision = a.revision,
                                           !.status = "saved", !.over = FALSE]
  OBVIOUS
<1>5. IsWindow(moved) /\ moved.copy = v.copy /\ moved.doc = v.doc /\ moved.kept = v.kept /\ moved.mixed = v.mixed
      /\ moved.based = a.revision /\ moved.revision = a.revision /\ moved.unsaved = v.unsaved
      /\ moved.call = "none" /\ moved.status = "saved"
  BY <1>2, <1>4 DEF Rest, Linked, IsWindow
<1>6. PICK v2 : /\ Put(w, v2)
                /\ \/ a.held /\ v.fresh = {} /\ v2 = Adopted(v, a.doc, a.revision)
                   \/ a.held /\ v.fresh # {} /\ v2 = [moved EXCEPT !.doc = a.doc]
                   \/ ~a.held /\ v2 = [moved EXCEPT !.doc = v.sent, !.unsaved = v.fresh # {},
                                                     !.kept = a.revision]
  BY <1>1, <1>4 DEF AnswerSaved, Adopts
<1>7. Put(w, v2) /\ Send(w, NoWire) /\ Calm
  BY <1>6 DEF AnswerSaved
<1>8. Linked(v2, NoWire)
  <2>1. CASE a.held /\ v.fresh = {}
    <3>1. v2 = Adopted(v, log[a.revision].doc, a.revision)
      BY <1>3, <1>6, <2>1
    <3>2. IsWindow(v)
      BY <1>2 DEF Linked
    <3> QED
      BY <3>1, <3>2, <1>2, <1>3, AdoptedIsLinked
  <2>2. CASE a.held /\ v.fresh # {}
    <3>1. v2 = [moved EXCEPT !.doc = a.doc]
      BY <1>6, <2>2
    <3>2. IsWindow(v2) /\ v2.copy = v.copy /\ v2.doc = a.doc /\ v2.kept = v.kept /\ v2.mixed = v.mixed
          /\ v2.based = a.revision /\ v2.revision = a.revision /\ v2.unsaved = v.unsaved
          /\ v2.call = "none" /\ v2.status = "saved"
      BY <3>1, <1>5 DEF IsWindow
    <3> QED
      BY <3>2, <1>2, <1>3 DEF Linked, NoWire
  <2>3. CASE ~a.held
    <3>1. v2 = [moved EXCEPT !.doc = v.sent, !.unsaved = v.fresh # {}, !.kept = a.revision]
      BY <1>6, <2>3
    <3>2. IsWindow(v2) /\ v2.copy = v.copy /\ v2.doc = v.sent /\ v2.kept = a.revision /\ v2.mixed = v.mixed
          /\ v2.based = a.revision /\ v2.revision = a.revision /\ v2.unsaved = (v.fresh # {})
          /\ v2.call = "none" /\ v2.status = "saved"
      BY <3>1, <1>5 DEF IsWindow
    <3> QED
      BY <3>2, <1>2, <1>3, <2>3 DEF Linked, NoWire
  <2> QED
    BY <1>6, <2>1, <2>2, <2>3
<1> QED
  BY <1>7, <1>8, CalmStep

LEMMA AnswerStaleKeeps ==
    ASSUME WInv, NEW w \in Clients, AnswerStale(w)
    PROVE  WInv'
<1>1. PICK v, a : v = win[w] /\ a = wire[w]
  OBVIOUS
<1>2. Linked(v, a) /\ v.call = "save" /\ a.kind = "stale"
  BY <1>1 DEF WInv, AnswerStale
<1>3. PICK v2 : v2 = [v EXCEPT !.call = "quiet", !.seen = a.revision, !.left = MaxQuiet]
  OBVIOUS
<1>4. PICK m2 : m2 = [kind |-> "merge", from |-> log[v.revision].doc,
                      mine |-> WhatToSend(v, v.sent), base |-> v.revision, quiet |-> TRUE,
                      choose |-> <<>>]
  OBVIOUS
<1>5. Put(w, v2) /\ Send(w, m2) /\ Calm
  BY <1>1, <1>3, <1>4 DEF AnswerStale
<1>6. IsWindow(v2) /\ v2.copy = v.copy /\ v2.doc = v.doc /\ v2.kept = v.kept /\ v2.mixed = v.mixed
      /\ v2.based = v.based /\ v2.revision = v.revision /\ v2.unsaved = v.unsaved
      /\ v2.call = "quiet" /\ v2.seen = a.revision /\ v2.fresh = v.fresh /\ v2.sent = v.sent
  BY <1>2, <1>3 DEF Linked, IsWindow
<1>7. Linked(v2, m2)
  BY <1>2, <1>4, <1>6 DEF Linked
<1> QED
  BY <1>5, <1>7, CalmStep

LEMMA AnswerMergedKeeps ==
    ASSUME WInv, NEW w \in Clients, AnswerMerged(w)
    PROVE  WInv'
<1>1. PICK v, a : v = win[w] /\ a = wire[w]
  OBVIOUS
<1>2. Linked(v, a) /\ LogOK /\ v.call = "quiet" /\ a.kind = "merged"
  BY <1>1 DEF WInv, AnswerMerged
<1>3. IsWindow(v) /\ a.revision \in 1..Revision /\ a.doc = log[a.revision].doc
  BY <1>2 DEF Linked
<1>4. CASE /\ v.fresh = {}
           /\ Put(w, Adopted(v, a.doc, a.revision))
           /\ Send(w, NoWire)
  <2>1. PICK v2 : v2 = Adopted(v, log[a.revision].doc, a.revision)
    OBVIOUS
  <2>2. Linked(v2, NoWire)
    BY <1>2, <1>3, <2>1, AdoptedIsLinked
  <2>3. Put(w, v2) /\ Send(w, NoWire) /\ Calm
    BY <1>3, <1>4, <2>1 DEF AnswerMerged
  <2> QED
    BY <2>2, <2>3, CalmStep
<1>5. CASE /\ Put(w, [v EXCEPT !.sent = v.copy, !.fresh = {}, !.left = @ - 1])
           /\ Send(w, [kind |-> "merge", from |-> v.sent, mine |-> v.copy,
                       base |-> v.revision, quiet |-> TRUE, choose |-> <<>>])
  <2>1. PICK v2, m2 : /\ v2 = [v EXCEPT !.sent = v.copy, !.fresh = {}, !.left = @ - 1]
                      /\ m2 = [kind |-> "merge", from |-> v.sent, mine |-> v.copy,
                               base |-> v.revision, quiet |-> TRUE, choose |-> <<>>]
    OBVIOUS
  <2>2. IsWindow(v2) /\ v2.copy = v.copy /\ v2.doc = v.doc /\ v2.kept = v.kept /\ v2.mixed = v.mixed
        /\ v2.based = v.based /\ v2.revision = v.revision /\ v2.unsaved = v.unsaved
        /\ v2.call = "quiet" /\ v2.seen = v.seen /\ v2.sent = v.copy
    BY <1>2, <2>1 DEF Linked, IsWindow
  <2>3. Linked(v2, m2)
    BY <1>2, <2>1, <2>2 DEF Linked
  <2>4. Put(w, v2) /\ Send(w, m2) /\ Calm
    BY <1>5, <2>1 DEF AnswerMerged
  <2> QED
    BY <2>3, <2>4, CalmStep
<1>6. CASE /\ Put(w, InConflict(v))
           /\ Send(w, NoWire)
  <2>1. PICK v2 : v2 = InConflict(v)
    OBVIOUS
  <2>2. Linked(v2, NoWire)
    BY <1>2, <2>1, ConflictIsLinked
  <2>3. Put(w, v2) /\ Send(w, NoWire) /\ Calm
    BY <1>6, <2>1 DEF AnswerMerged
  <2> QED
    BY <2>2, <2>3, CalmStep
<1> QED
  BY <1>1, <1>4, <1>5, <1>6 DEF AnswerMerged, Adopts

LEMMA AnswerClashKeeps ==
    ASSUME WInv, NEW w \in Clients, AnswerClash(w)
    PROVE  WInv'
<1>1. PICK v, m, v2 : v = win[w] /\ m = wire[w] /\ v2 = InConflict(v)
  OBVIOUS
<1>2. Linked(v, m) /\ v.call = "quiet"
  BY <1>1 DEF WInv, AnswerClash
<1>3. Linked(v2, NoWire)
  BY <1>1, <1>2, ConflictIsLinked
<1>4. Put(w, v2) /\ Send(w, NoWire) /\ Calm
  BY <1>1 DEF AnswerClash
<1> QED
  BY <1>3, <1>4, CalmStep

LEMMA NoAnswerKeeps ==
    ASSUME WInv, NEW w \in Clients, NoAnswer(w)
    PROVE  WInv'
<1>1. PICK v, m : v = win[w] /\ m = wire[w]
  OBVIOUS
<1>2. Linked(v, m) /\ v.call # "none"
  BY <1>1 DEF WInv, NoAnswer
<1>3. PICK v2 : v2 = IF v.call = "save" THEN [Rest(v) EXCEPT !.status = "failed"]
                     ELSE InConflict(v)
  OBVIOUS
<1>4. Put(w, v2) /\ Send(w, NoWire) /\ Calm
  BY <1>1, <1>3 DEF NoAnswer
<1>5. Linked(v2, NoWire)
  <2>1. CASE v.call = "save"
    <3>1. IsWindow(v2) /\ v2.copy = v.copy /\ v2.doc = v.doc /\ v2.kept = v.kept /\ v2.mixed = v.mixed
          /\ v2.based = v.based /\ v2.revision = v.revision /\ v2.unsaved = v.unsaved
          /\ v2.call = "none" /\ v2.status = "failed"
      BY <1>2, <1>3, <2>1 DEF Rest, Linked, IsWindow
    <3> QED
      BY <1>2, <3>1 DEF Linked, NoWire
  <2>2. CASE v.call # "save"
    <3>1. v2 = InConflict(v) /\ v.call \in {"quiet", "choose"}
      BY <1>2, <1>3, <2>2 DEF Linked
    <3> QED
      BY <1>2, <3>1, ConflictIsLinked
  <2> QED
    BY <2>1, <2>2
<1> QED
  BY <1>4, <1>5, CalmStep

LEMMA MergeMineKeeps ==
    ASSUME WInv, NEW w \in Clients, NEW choose, MergeMine(w, choose)
    PROVE  WInv'
<1>1. PICK v, m : v = win[w] /\ m = wire[w]
  OBVIOUS
<1>2. Linked(v, m) /\ v.status = "conflict"
  BY <1>1 DEF WInv, MergeMine, Asked
<1>3. PICK v2 : v2 = [v EXCEPT !.call = "choose", !.sent = v.copy, !.fresh = {}]
  OBVIOUS
<1>4. PICK m2 : m2 = [kind |-> "merge", from |-> log[v.revision].doc,
                      mine |-> WhatToSend(v, v.copy), base |-> v.revision, quiet |-> FALSE,
                      choose |-> choose]
  OBVIOUS
<1>5. Put(w, v2) /\ Send(w, m2) /\ Calm
  BY <1>1, <1>3, <1>4 DEF MergeMine
<1>6. IsWindow(v2) /\ v2.copy = v.copy /\ v2.doc = v.doc /\ v2.kept = v.kept /\ v2.mixed = v.mixed
      /\ v2.based = v.based /\ v2.revision = v.revision /\ v2.unsaved = v.unsaved
      /\ v2.call = "choose" /\ v2.seen = v.seen /\ v2.sent = v.copy
  BY <1>2, <1>3 DEF Linked, IsWindow
<1>7. Linked(v2, m2)
  BY <1>2, <1>4, <1>6 DEF Linked
<1> QED
  BY <1>5, <1>7, CalmStep

LEMMA AnswerChosenKeeps ==
    ASSUME WInv, NEW w \in Clients, AnswerChosen(w)
    PROVE  WInv'
<1>1. PICK v, a : v = win[w] /\ a = wire[w]
  OBVIOUS
<1>2. Linked(v, a) /\ LogOK /\ v.call = "choose" /\ a.kind = "merged"
  BY <1>1 DEF WInv, AnswerChosen
<1>3. IsWindow(v) /\ a.revision \in 1..Revision /\ a.doc = log[a.revision].doc
  BY <1>2 DEF Linked
<1>4. PICK v2 : v2 = IF v.fresh = {} THEN Adopted(v, a.doc, a.revision) ELSE InConflict(v)
  OBVIOUS
<1>5. Put(w, v2) /\ Send(w, NoWire) /\ Calm
  BY <1>1, <1>4 DEF AnswerChosen, Adopts
<1>6. Linked(v2, NoWire)
  <2>1. CASE v.fresh = {}
    <3>1. v2 = Adopted(v, log[a.revision].doc, a.revision)
      BY <1>3, <1>4, <2>1
    <3> QED
      BY <3>1, <1>2, <1>3, AdoptedIsLinked
  <2>2. CASE v.fresh # {}
    BY <2>2, <1>2, <1>4, ConflictIsLinked
  <2> QED
    BY <2>1, <2>2
<1> QED
  BY <1>5, <1>6, CalmStep

LEMMA OpenLatestKeeps ==
    ASSUME WInv, NEW w \in Clients, OpenLatest(w)
    PROVE  WInv'
<1>1. PICK v, m : v = win[w] /\ m = wire[w]
  OBVIOUS
<1>2. Linked(v, m) /\ LogOK /\ v.call = "none"
  BY <1>1 DEF WInv, OpenLatest
<1>3. PICK v2 : v2 = Adopted(v, log[Revision].doc, Revision)
  OBVIOUS
<1>4. Linked(v2, NoWire)
  <2>1. Revision \in 1..Revision
    BY <1>2 DEF LogOK, Revision
  <2>2. IsWindow(v)
    BY <1>2 DEF Linked
  <2> QED
    BY <1>2, <1>3, <2>1, <2>2, AdoptedIsLinked
<1>5. Linked(v2, m)
  <2>1. ~(m.kind \in {"save", "saved", "stale"})
    BY <1>2 DEF Linked
  <2>2. m.kind \in {"saved", "merged"} => m.revision \in 1..Revision /\ m.doc = log[m.revision].doc
    BY <1>2 DEF Linked
  <2> QED
    BY <1>4, <2>1, <2>2 DEF Linked
<1>6. Put(w, v2) /\ wire' = wire /\ Calm
  BY <1>1, <1>3 DEF OpenLatest, Adopts, Current
<1> QED
  BY <1>1, <1>5, <1>6, CalmStep

LEMMA ReloadKeeps ==
    ASSUME WInv, StorageOK, NEW w \in Clients, Reload(w)
    PROVE  WInv'
<1>1. PICK v, m, s : v = win[w] /\ m = wire[w] /\ s = Kept(w)
  OBVIOUS
<1>2. Linked(v, m)
  BY <1>1 DEF WInv
<1>3. IsKept(s)
  BY <1>1 DEF StorageOK, Browsers, Kept
<1>4. PICK v2 : v2 = Restored(v, s)
  OBVIOUS
<1>5. Put(w, v2) /\ Send(w, NoWire) /\ Calm
  BY <1>1, <1>4 DEF Reload
<1>6. IsWindow(v2) /\ v2.copy = s.copy /\ v2.doc = s.doc /\ v2.kept = s.revision
      /\ v2.based = s.based /\ v2.revision = s.revision /\ v2.unsaved = s.dirty
      /\ v2.call = "none" /\ v2.status # "conflict"
  BY <1>2, <1>4 DEF Restored, Rest, Linked, IsWindow
<1>7. v2.mixed \in BOOLEAN /\ (~v2.mixed => ~v.mixed /\ s = ItsOwn(v))
  BY <1>2, <1>4 DEF Restored, Rest, Linked, IsWindow
<1>8. ~v2.unsaved => v2.mixed \/ v2.copy = log[v2.revision].doc
  <2> SUFFICES ASSUME ~v2.unsaved, ~v2.mixed PROVE v2.copy = log[v2.revision].doc
    OBVIOUS
  <2>1. s.copy = v.copy /\ s.revision = v.kept /\ s.dirty = v.unsaved
    BY <1>7 DEF ItsOwn
  <2> QED
    BY <1>2, <1>6, <1>7, <2>1 DEF Linked
<1>9. Linked(v2, NoWire)
  BY <1>3, <1>6, <1>7, <1>8 DEF Linked, IsKept, NoWire
<1> QED
  BY <1>5, <1>9, CalmStep
-----------------------------------------------------------------------------
(* The server's steps.                                                      *)

\* An answer is put on the wire of the window that asked; the window itself
\* does not change.
LEMMA ServedStep ==
    ASSUME WInv, NEW w \in Clients, NEW m, Grown, Linked(win[w], m)', win' = win, Send(w, m)
    PROVE  WInv'
<1>1. win' = [win EXCEPT ![w] = win[w]] /\ win'[w] = win[w]
  BY DEF WInv
<1>2. PICK v : v = win[w]
  OBVIOUS
<1>3. Linked(v, m)'
  BY <1>1, <1>2
<1> QED
  BY <1>1, <1>2, <1>3, OneMoves DEF Send

LEMMA ServeSaveKeeps ==
    ASSUME WInv, NEW w \in Clients, ServeSave(w)
    PROVE  WInv'
<1>1. PICK v, q : v = win[w] /\ q = wire[w]
  OBVIOUS
<1>2. Linked(v, q) /\ LogOK /\ RequestsOK /\ q.kind = "save"
  BY <1>1 DEF WInv, ServeSave
<1>3. v.call = "save" /\ q.doc = v.sent /\ IsDoc(q.doc)
  BY <1>2 DEF Linked
<1>4. UserOf[w] \in Users
  BY UserOfAssumption
<1>5. PICK d, u : d = q.doc /\ u = UserOf[w]
  OBVIOUS
<1>6. Store(d, u, w, "saved")
  BY <1>1, <1>5 DEF ServeSave, Save
<1>7. Grown
  BY <1>2, <1>3, <1>4, <1>5, <1>6, StoreGrows
<1>8. requests' = requests => log'[Len(log')].doc = d
  BY <1>2, <1>3, <1>4, <1>5, <1>6, SavedWhole
<1>9. PICK m : m = [kind |-> "saved", doc |-> log'[Len(log')].doc, revision |-> Len(log'),
                    held |-> requests' # requests]
  OBVIOUS
<1>10. Linked(v, q)'
  BY <1>2, <1>7, StillLinked DEF LogOK
<1>11. Linked(v, m)'
  <2>1. m.revision \in 1..Len(log') /\ m.doc = log'[m.revision].doc
    BY <1>2, <1>7, <1>9 DEF Grown, LogOK
  <2>2. ~m.held => m.doc = v.sent
    BY <1>3, <1>5, <1>8, <1>9
  <2>3. m.kind = "saved"
    BY <1>9
  <2> QED
    BY <1>3, <1>10, <2>1, <2>2, <2>3 DEF Linked, Revision
<1>12. win' = win /\ Send(w, m)
  BY <1>9 DEF ServeSave
<1>13. Linked(win[w], m)'
  BY <1>1, <1>11, <1>12
<1> QED
  BY <1>7, <1>12, <1>13, ServedStep

LEMMA ServeMergeKeeps ==
    ASSUME WInv, NEW w \in Clients, ServeMerge(w)
    PROVE  WInv'
<1>1. PICK v, q : v = win[w] /\ q = wire[w]
  OBVIOUS
<1>2. Linked(v, q) /\ LogOK /\ RequestsOK
  BY <1>1 DEF WInv
<1>3. UserOf[w] \in Users
  BY UserOfAssumption
<1>4. PICK d : IsDoc(d) /\ Store(d, UserOf[w], w, "merged")
  <2>1. PICK only : Store(Merge(q.from, q.mine, Current, q.choose, only), UserOf[w], w, "merged")
    BY <1>1 DEF ServeMerge, MergeFrom
  <2> QED
    BY <2>1, MadeDocs
<1>5. PICK u : u = UserOf[w]
  OBVIOUS
<1>6. Grown
  BY <1>2, <1>3, <1>4, <1>5, StoreGrows
<1>7. PICK m : m = [kind |-> "merged", doc |-> log'[Len(log')].doc, revision |-> Len(log')]
  OBVIOUS
<1>8. Linked(v, q)'
  BY <1>2, <1>6, StillLinked DEF LogOK
<1>9. Linked(v, m)'
  <2>1. m.revision \in 1..Len(log') /\ m.doc = log'[m.revision].doc /\ m.kind = "merged"
    BY <1>2, <1>6, <1>7 DEF Grown, LogOK
  <2> QED
    BY <1>8, <2>1 DEF Linked, Revision
<1>10. win' = win /\ Send(w, m)
  BY <1>7 DEF ServeMerge
<1>11. Linked(win[w], m)'
  BY <1>1, <1>9, <1>10
<1> QED
  BY <1>6, <1>10, <1>11, ServedStep

LEMMA RefusedKeeps ==
    ASSUME WInv, NEW w \in Clients, RefuseSave(w) \/ RefuseMerge(w)
    PROVE  WInv'
<1>1. PICK v, q : v = win[w] /\ q = wire[w]
  OBVIOUS
<1>2. Linked(v, q) /\ LogOK
  BY <1>1 DEF WInv
<1>3. Put(w, v) /\ Calm
  BY <1>1 DEF RefuseSave, RefuseMerge, Put, WInv
<1>4. CASE RefuseSave(w)
  <2>1. PICK m : m = [kind |-> "stale", revision |-> Revision]
    OBVIOUS
  <2>2. Send(w, m) /\ q.kind = "save"
    BY <1>1, <1>4, <2>1 DEF RefuseSave
  <2>3. m.kind = "stale" /\ m.revision \in 1..Revision
    BY <1>2, <2>1 DEF LogOK, Revision
  <2>4. v.call = "save"
    BY <1>2, <2>2 DEF Linked
  <2>5. Linked(v, m)
    BY <1>2, <2>3, <2>4 DEF Linked
  <2> QED
    BY <1>3, <2>2, <2>5, CalmStep
<1>5. CASE RefuseMerge(w)
  <2>1. PICK m : m = [kind |-> "clash"]
    OBVIOUS
  <2>2. Send(w, m)
    BY <1>5, <2>1 DEF RefuseMerge
  <2>3. Linked(v, m)
    BY <1>2, <2>1 DEF Linked
  <2> QED
    BY <1>3, <2>2, <2>3, CalmStep
<1> QED
  BY <1>4, <1>5

-----------------------------------------------------------------------------
LEMMA WInitInv == WInit => WInv
<1> SUFFICES ASSUME WInit PROVE WInv
  OBVIOUS
<1>1. LogOK /\ RequestsOK
  BY InitTypeOK DEF WInit, TypeOK, LogOK, RequestsOK
<1>2. Revision = 1
  BY DEF WInit, Init, Revision
<1>3. PICK d, v : d = log[1].doc /\ v = Opened(d)
  OBVIOUS
<1>4. IsWindow(v) /\ v.copy = d /\ v.doc = d /\ v.based = 1 /\ v.revision = 1 /\ v.kept = 1 /\ v.mixed = FALSE
      /\ v.call = "none" /\ v.status = "saved"
  BY <1>3 DEF Opened, IsWindow
<1>5. IsDoc(d)
  BY <1>1, <1>2, <1>3 DEF LogOK, Revision, IsEntry
<1>6. Linked(v, NoWire)
  <2>1. v.mixed \in BOOLEAN /\ v.copy = log[v.revision].doc /\ v.doc = log[v.based].doc
    BY <1>3, <1>4
  <2> QED
    BY <1>2, <1>4, <1>5, <2>1 DEF Linked, NoWire
<1>7. \A w \in Clients : win[w] = v /\ wire[w] = NoWire
  <2>1. win = [w \in Clients |-> Opened(Current)] /\ wire = [w \in Clients |-> NoWire]
    BY DEF WInit
  <2>2. Opened(Current) = v
    BY <1>2, <1>3 DEF Current
  <2> QED
    BY <2>1, <2>2
<1>8. win = [w \in Clients |-> win[w]] /\ wire = [w \in Clients |-> wire[w]]
  BY DEF WInit
<1> QED
  BY <1>1, <1>6, <1>7, <1>8 DEF WInv

-----------------------------------------------------------------------------
(* What lies in the browser. A step of a window writes there for it alone,   *)
(* and a window that has found its own there so far will find it again.      *)

Stashes(w) ==
    /\ \A x \in Clients : x # w => win'[x] = win[x]
    /\ \E s : /\ IsKept(s)'
              /\ storage' = [storage EXCEPT ![BrowserOf[w]] = s]
              /\ ~win[w].mixed /\ Kept(w) = ItsOwn(win[w])
                 => ~win'[w].mixed /\ s = ItsOwn(win'[w])

LEMMA StillKept ==
    ASSUME NEW s, IsKept(s), Grown, Len(log) \in Nat
    PROVE  IsKept(s)'
<1>1. 1..Revision \subseteq 1..Len(log')
  BY DEF Grown, Revision
<1> QED
  BY <1>1 DEF IsKept, Grown, Revision

LEMMA OneStashes ==
    ASSUME StorageOK, AloneFindsItsOwn, Grown, Len(log) \in Nat, NEW w \in Clients, Stashes(w)
    PROVE  StorageOK' /\ AloneFindsItsOwn'
<1>1. PICK s : /\ IsKept(s)'
               /\ storage' = [storage EXCEPT ![BrowserOf[w]] = s]
               /\ ~win[w].mixed /\ Kept(w) = ItsOwn(win[w])
                  => ~win'[w].mixed /\ s = ItsOwn(win'[w])
  BY DEF Stashes
<1>2. BrowserOf[w] \in Browsers
  BY DEF Browsers
<1>3. /\ storage'[BrowserOf[w]] = s
      /\ \A b \in Browsers : b # BrowserOf[w] => storage'[b] = storage[b]
      /\ storage' = [b \in Browsers |-> storage'[b]]
  BY <1>1, <1>2 DEF StorageOK
<1>4. \A b \in Browsers : IsKept(storage[b])'
  <2> TAKE b \in Browsers
  <2>1. CASE b = BrowserOf[w]
    BY <1>1, <1>3, <2>1
  <2>2. CASE b # BrowserOf[w]
    <3>1. PICK t : t = storage[b]
      OBVIOUS
    <3>2. IsKept(t)'
      BY <3>1, StillKept DEF StorageOK
    <3> QED
      BY <1>3, <2>2, <3>1, <3>2
  <2> QED
    BY <2>1, <2>2
<1>5. ASSUME NEW x \in Clients, Alone(x)
      PROVE  ~win'[x].mixed /\ Kept(x)' = ItsOwn(win'[x])
  <2>1. ~win[x].mixed /\ Kept(x) = ItsOwn(win[x])
    BY <1>5 DEF AloneFindsItsOwn
  <2>2. CASE x = w
    BY <1>1, <1>3, <2>1, <2>2 DEF Kept
  <2>3. CASE x # w
    <3>1. BrowserOf[x] \in Browsers /\ BrowserOf[x] # BrowserOf[w]
      BY <1>5, <2>3 DEF Alone, Browsers
    <3>2. win'[x] = win[x] /\ storage'[BrowserOf[x]] = storage[BrowserOf[x]]
      BY <1>3, <2>3, <3>1 DEF Stashes
    <3> QED
      BY <2>1, <3>2 DEF Kept
  <2> QED
    BY <2>2, <2>3
<1>6. StorageOK'
  BY <1>3, <1>4 DEF StorageOK, Browsers
<1>7. AloneFindsItsOwn'
  BY <1>5 DEF AloneFindsItsOwn, Kept, ItsOwn, Alone
<1> QED
  BY <1>6, <1>7

\* The browser is given nothing, and the window keeps what it would put there.
LEMMA NothingStashed ==
    ASSUME WInv, StorageOK, Grown, NEW w \in Clients, NEW v, NEW v2, v = win[w], Put(w, v2),
           v2.mixed = v.mixed, v2.copy = v.copy, v2.doc = v.doc, v2.based = v.based,
           v2.kept = v.kept, v2.unsaved = v.unsaved, storage' = storage
    PROVE  Stashes(w)
<1>1. PICK s : s = Kept(w)
  OBVIOUS
<1>2. Len(log) \in Nat
  BY DEF WInv, LogOK
<1>3. IsKept(s)'
  BY <1>1, <1>2, StillKept DEF StorageOK, Browsers, Kept
<1>4. storage' = [storage EXCEPT ![BrowserOf[w]] = s]
  BY <1>1 DEF StorageOK, Kept
<1>5. win'[w] = v2 /\ \A x \in Clients : x # w => win'[x] = win[x]
  BY DEF Put, WInv
<1>6. ItsOwn(v2) = ItsOwn(v)
  BY DEF ItsOwn
<1> QED
  BY <1>1, <1>3, <1>4, <1>5, <1>6 DEF Stashes

\* What a window puts in its browser while the server stands still.
LEMMA Stashed ==
    ASSUME WInv, Calm, NEW w \in Clients, NEW v, NEW v2, NEW s, v = win[w], Put(w, v2), Stash(w, s),
           IsKept(s),
           ~v.mixed /\ Kept(w) = ItsOwn(v) => ~v2.mixed /\ s = ItsOwn(v2)
    PROVE  Stashes(w)
<1>1. IsKept(s)'
  BY DEF IsKept, Calm, serverVars, Revision
<1>2. win'[w] = v2 /\ \A x \in Clients : x # w => win'[x] = win[x]
  BY DEF Put, WInv
<1> QED
  BY <1>1, <1>2 DEF Stashes, Stash

LEMMA CalmGrows ==
    ASSUME WInv, Calm
    PROVE  Grown
<1>1. log' = log /\ requests' = requests
  BY DEF Calm, serverVars
<1> QED
  BY <1>1 DEF Grown, WInv, LogOK, RequestsOK, Revision

LEMMA CommitStashes ==
    ASSUME WInv, StorageOK, NEW w \in Clients, NEW k, NEW content, Commit(w, k, content)
    PROVE  Stashes(w)
<1>1. PICK v, t : v = win[w] /\ t = Kept(w)
  OBVIOUS
<1>2. Linked(v, wire[w]) /\ IsKept(t)
  BY <1>1 DEF WInv, StorageOK, Browsers, Kept
<1>3. PICK v2 : v2 = [v EXCEPT !.copy = With(@, k, content), !.unsaved = TRUE, !.made = @ + 1,
                               !.kept = v.revision,
                               !.fresh = IF v.call = "none" THEN {} ELSE @ \cup {k},
                               !.status = IF @ \in {"conflict", "saving"} THEN @ ELSE "pending"]
  OBVIOUS
<1>4. PICK s : s = [t EXCEPT !.copy = With(v.copy, k, content), !.revision = v.revision,
                             !.dirty = TRUE]
  OBVIOUS
<1>5. Put(w, v2) /\ Stash(w, s) /\ Calm
  BY <1>1, <1>3, <1>4 DEF Commit
<1>6. IsDoc(With(v.copy, k, content))
  BY DEF IsDoc, With
<1>7. v2.copy = With(v.copy, k, content) /\ v2.unsaved = TRUE /\ v2.kept = v.revision
      /\ v2.doc = v.doc /\ v2.based = v.based /\ v2.mixed = v.mixed
  BY <1>2, <1>3 DEF Linked, IsWindow
<1>8. s = [copy |-> With(v.copy, k, content), doc |-> t.doc, based |-> t.based,
           revision |-> v.revision, dirty |-> TRUE]
  BY <1>2, <1>4 DEF IsKept
<1>9. IsKept(s)
  BY <1>2, <1>6, <1>8 DEF IsKept, Linked
<1>10. t = ItsOwn(v) => s = ItsOwn(v2)
  <2>1. t = ItsOwn(v) => t.doc = v2.doc /\ t.based = v2.based
    BY <1>7 DEF ItsOwn
  <2>2. PICK edited : edited = v2.unsaved
    OBVIOUS
  <2>3. s = [copy |-> v2.copy, doc |-> t.doc, based |-> t.based, revision |-> v2.kept,
             dirty |-> edited]
    BY <1>7, <1>8, <2>2
  <2> QED
    BY <2>1, <2>2, <2>3 DEF ItsOwn
<1> QED
  BY <1>1, <1>5, <1>7, <1>9, <1>10, Stashed

\* All of it at once: the company as the server has it.
LEMMA AdoptsStashes ==
    ASSUME WInv, Calm, NEW w \in Clients, NEW doc, NEW r \in 1..Revision, doc = log[r].doc,
           Adopts(w, doc, r)
    PROVE  Stashes(w)
<1>1. PICK v, v2, s : v = win[w] /\ v2 = Adopted(v, doc, r) /\ s = Unedited(doc, r)
  OBVIOUS
<1>2. IsWindow(v)
  BY <1>1 DEF WInv, Linked
<1>3. v2.copy = doc /\ v2.doc = doc /\ v2.based = r /\ v2.kept = r /\ v2.mixed = FALSE
      /\ v2.unsaved = FALSE
  BY <1>1, <1>2 DEF Adopted, Rest, IsWindow
<1>4. IsDoc(doc)
  BY DEF WInv, LogOK, Revision, IsEntry
<1>5. IsKept(s)
  BY <1>1, <1>4 DEF IsKept, Unedited
<1>6. s = ItsOwn(v2)
  BY <1>1, <1>3 DEF Unedited, ItsOwn
<1>7. Put(w, v2) /\ Stash(w, s)
  BY <1>1 DEF Adopts
<1> QED
  BY <1>1, <1>3, <1>5, <1>6, <1>7, Stashed

LEMMA AnswerSavedStashes ==
    ASSUME WInv, StorageOK, NEW w \in Clients, AnswerSaved(w)
    PROVE  Stashes(w)
<1>1. PICK v, a, t : v = win[w] /\ a = wire[w] /\ t = Kept(w)
  OBVIOUS
<1>2. Linked(v, a) /\ v.call = "save" /\ a.kind = "saved" /\ IsKept(t)
  BY <1>1 DEF WInv, AnswerSaved, StorageOK, Browsers, Kept
<1>3. /\ v.unsaved
      /\ a.revision \in 1..Revision /\ a.doc = log[a.revision].doc
      /\ ~a.held => a.doc = v.sent
  BY <1>2 DEF Linked
<1>4. PICK moved : moved = [Rest(v) EXCEPT !.based = a.revision, !.revision = a.revision,
                                           !.status = "saved", !.over = FALSE]
  OBVIOUS
<1>5. IsWindow(moved) /\ moved.copy = v.copy /\ moved.kept = v.kept /\ moved.mixed = v.mixed
      /\ moved.based = a.revision /\ moved.unsaved = v.unsaved
  BY <1>2, <1>4 DEF Rest, Linked, IsWindow
<1>6. Calm
  BY DEF AnswerSaved
<1>7. CASE Adopts(w, a.doc, a.revision)
  BY <1>3, <1>6, <1>7, AdoptsStashes
<1>8. CASE /\ Put(w, [moved EXCEPT !.doc = a.doc])
           /\ Stash(w, [Kept(w) EXCEPT !.doc = a.doc, !.based = a.revision])
  <2>1. PICK v2, s : /\ v2 = [moved EXCEPT !.doc = a.doc]
                     /\ s = [t EXCEPT !.doc = a.doc, !.based = a.revision]
    OBVIOUS
  <2>2. v2.copy = v.copy /\ v2.doc = a.doc /\ v2.kept = v.kept /\ v2.mixed = v.mixed
        /\ v2.based = a.revision /\ v2.unsaved = v.unsaved
    BY <1>5, <2>1 DEF IsWindow
  <2>3. s = [copy |-> t.copy, doc |-> a.doc, based |-> a.revision, revision |-> t.revision,
             dirty |-> t.dirty]
    BY <1>2, <2>1 DEF IsKept
  <2>4. IsKept(s)
    BY <1>2, <1>3, <2>3 DEF IsKept
  <2>5. t = ItsOwn(v) => s = ItsOwn(v2)
    BY <2>2, <2>3 DEF ItsOwn
  <2>6. Put(w, v2) /\ Stash(w, s)
    BY <1>1, <1>8, <2>1
  <2> QED
    BY <1>1, <1>6, <2>2, <2>4, <2>5, <2>6, Stashed
<1>9. CASE /\ ~a.held
           /\ Put(w, [moved EXCEPT !.doc = v.sent, !.unsaved = v.fresh # {},
                                   !.kept = a.revision])
           /\ Stash(w, [Kept(w) EXCEPT !.doc = v.sent, !.based = a.revision,
                                      !.revision = a.revision, !.dirty = v.fresh # {}])
  <2>1. PICK new : new = (v.fresh # {})
    OBVIOUS
  <2>2. PICK v2, s : /\ v2 = [moved EXCEPT !.doc = v.sent, !.unsaved = new, !.kept = a.revision]
                     /\ s = [t EXCEPT !.doc = v.sent, !.based = a.revision,
                                      !.revision = a.revision, !.dirty = new]
    OBVIOUS
  <2>3. v2.copy = v.copy /\ v2.doc = v.sent /\ v2.kept = a.revision /\ v2.mixed = v.mixed
        /\ v2.based = a.revision /\ v2.unsaved = new
    BY <1>5, <2>2 DEF IsWindow
  <2>4. s = [copy |-> t.copy, doc |-> v.sent, based |-> a.revision, revision |-> a.revision,
             dirty |-> new]
    BY <1>2, <2>2 DEF IsKept
  <2>5. IsKept(s)
    BY <1>2, <1>3, <1>9, <2>1, <2>4 DEF IsKept
  <2>6. t = ItsOwn(v) => s = ItsOwn(v2)
    BY <2>3, <2>4 DEF ItsOwn
  <2>7. Put(w, v2) /\ Stash(w, s)
    BY <1>1, <1>9, <2>1, <2>2
  <2> QED
    BY <1>1, <1>6, <2>3, <2>5, <2>6, <2>7, Stashed
<1> QED
  BY <1>1, <1>4, <1>7, <1>8, <1>9 DEF AnswerSaved

LEMMA AnswerMergedStashes ==
    ASSUME WInv, StorageOK, NEW w \in Clients, AnswerMerged(w)
    PROVE  Stashes(w)
<1>1. PICK v, a : v = win[w] /\ a = wire[w]
  OBVIOUS
<1>2. Linked(v, a) /\ a.kind = "merged"
  BY <1>1 DEF WInv, AnswerMerged
<1>3. IsWindow(v) /\ a.revision \in 1..Revision /\ a.doc = log[a.revision].doc
  BY <1>2 DEF Linked
<1>4. Calm /\ Grown
  BY CalmGrows DEF AnswerMerged
<1>5. CASE Adopts(w, a.doc, a.revision)
  BY <1>3, <1>4, <1>5, AdoptsStashes
<1>6. CASE Put(w, [v EXCEPT !.sent = v.copy, !.fresh = {}, !.left = @ - 1]) /\ UNCHANGED storage
  <2>1. PICK v2 : v2 = [v EXCEPT !.sent = v.copy, !.fresh = {}, !.left = @ - 1]
    OBVIOUS
  <2>2. v2.copy = v.copy /\ v2.doc = v.doc /\ v2.kept = v.kept /\ v2.mixed = v.mixed
        /\ v2.based = v.based /\ v2.unsaved = v.unsaved
    BY <1>3, <2>1 DEF IsWindow
  <2> QED
    BY <1>1, <1>4, <1>6, <2>1, <2>2, NothingStashed
<1>7. CASE Put(w, InConflict(v)) /\ UNCHANGED storage
  <2>1. PICK v2 : v2 = InConflict(v)
    OBVIOUS
  <2>2. v2.copy = v.copy /\ v2.doc = v.doc /\ v2.kept = v.kept /\ v2.mixed = v.mixed
        /\ v2.based = v.based /\ v2.unsaved = v.unsaved
    BY <1>3, <2>1 DEF IsWindow, InConflict, Rest
  <2> QED
    BY <1>1, <1>4, <1>7, <2>1, <2>2, NothingStashed
<1> QED
  BY <1>1, <1>5, <1>6, <1>7 DEF AnswerMerged

LEMMA AnswerChosenStashes ==
    ASSUME WInv, StorageOK, NEW w \in Clients, AnswerChosen(w)
    PROVE  Stashes(w)
<1>1. PICK v, a : v = win[w] /\ a = wire[w]
  OBVIOUS
<1>2. Linked(v, a) /\ a.kind = "merged"
  BY <1>1 DEF WInv, AnswerChosen
<1>3. IsWindow(v) /\ a.revision \in 1..Revision /\ a.doc = log[a.revision].doc
  BY <1>2 DEF Linked
<1>4. Calm /\ Grown
  BY CalmGrows DEF AnswerChosen
<1>5. CASE Adopts(w, a.doc, a.revision)
  BY <1>3, <1>4, <1>5, AdoptsStashes
<1>6. CASE Put(w, InConflict(v)) /\ UNCHANGED storage
  <2>1. PICK v2 : v2 = InConflict(v)
    OBVIOUS
  <2>2. v2.copy = v.copy /\ v2.doc = v.doc /\ v2.kept = v.kept /\ v2.mixed = v.mixed
        /\ v2.based = v.based /\ v2.unsaved = v.unsaved
    BY <1>3, <2>1 DEF IsWindow, InConflict, Rest
  <2> QED
    BY <1>1, <1>4, <1>6, <2>1, <2>2, NothingStashed
<1> QED
  BY <1>1, <1>5, <1>6 DEF AnswerChosen

LEMMA OpenLatestStashes ==
    ASSUME WInv, NEW w \in Clients, OpenLatest(w)
    PROVE  Stashes(w)
<1>1. Revision \in 1..Revision
  BY DEF WInv, LogOK, Revision
<1>2. PICK d, r : d = Current /\ r = Revision
  OBVIOUS
<1>3. Adopts(w, d, r) /\ Calm /\ d = log[r].doc
  BY <1>2 DEF OpenLatest, Current
<1> QED
  BY <1>1, <1>2, <1>3, AdoptsStashes

LEMMA ReloadStashes ==
    ASSUME WInv, StorageOK, NEW w \in Clients, Reload(w)
    PROVE  Stashes(w)
<1>1. PICK v, s : v = win[w] /\ s = Kept(w)
  OBVIOUS
<1>2. IsWindow(v) /\ IsKept(s)
  BY <1>1 DEF WInv, Linked, StorageOK, Browsers, Kept
<1>3. PICK v2 : v2 = Restored(v, s)
  OBVIOUS
<1>4. Put(w, v2) /\ Calm /\ storage' = storage
  BY <1>1, <1>3 DEF Reload
<1>5. v2.copy = s.copy /\ v2.doc = s.doc /\ v2.kept = s.revision /\ v2.based = s.based
      /\ v2.unsaved = s.dirty
  BY <1>2, <1>3 DEF Restored, Rest, IsWindow
<1>6. v2.mixed = (v.mixed \/ s # ItsOwn(v))
  BY <1>2, <1>3 DEF Restored, Rest, IsWindow
<1>7. s = ItsOwn(v2)
  BY <1>2, <1>5 DEF IsKept, ItsOwn
<1>8. Stash(w, s)
  BY <1>1, <1>4 DEF StorageOK, Stash, Kept
<1> QED
  BY <1>1, <1>2, <1>4, <1>6, <1>7, <1>8, Stashed

\* The steps that give the browser nothing.
LEMMA OtherStashes ==
    ASSUME WInv, StorageOK, NEW w \in Clients, NEW choose,
           SaveNow(w) \/ AnswerStale(w) \/ AnswerClash(w) \/ NoAnswer(w) \/ KeepMine(w)
              \/ MergeMine(w, choose)
    PROVE  Stashes(w)
<1>1. PICK v : v = win[w]
  OBVIOUS
<1>2. IsWindow(v)
  BY <1>1 DEF WInv, Linked
<1>3. Calm /\ Grown /\ storage' = storage
  BY CalmGrows DEF SaveNow, AnswerStale, AnswerClash, NoAnswer, KeepMine, MergeMine
<1>4. CASE SaveNow(w)
  <2>1. PICK v2 : v2 = Saving(v)
    OBVIOUS
  <2>2. v2.copy = v.copy /\ v2.doc = v.doc /\ v2.kept = v.kept /\ v2.mixed = v.mixed
        /\ v2.based = v.based /\ v2.unsaved = v.unsaved
    BY <1>2, <2>1 DEF IsWindow, Saving
  <2> QED
    BY <1>1, <1>3, <1>4, <2>1, <2>2, NothingStashed DEF SaveNow
<1>5. CASE AnswerStale(w)
  <2>1. PICK v2 : v2 = [v EXCEPT !.call = "quiet", !.seen = wire[w].revision, !.left = MaxQuiet]
    OBVIOUS
  <2>2. v2.copy = v.copy /\ v2.doc = v.doc /\ v2.kept = v.kept /\ v2.mixed = v.mixed
        /\ v2.based = v.based /\ v2.unsaved = v.unsaved
    BY <1>2, <2>1 DEF IsWindow
  <2> QED
    BY <1>1, <1>3, <1>5, <2>1, <2>2, NothingStashed DEF AnswerStale
<1>6. CASE AnswerClash(w) \/ NoAnswer(w)
  <2>1. PICK v2 : /\ v2 \in {InConflict(v), [Rest(v) EXCEPT !.status = "failed"]}
                  /\ Put(w, v2)
    BY <1>1, <1>6 DEF AnswerClash, NoAnswer
  <2>2. v2.copy = v.copy /\ v2.doc = v.doc /\ v2.kept = v.kept /\ v2.mixed = v.mixed
        /\ v2.based = v.based /\ v2.unsaved = v.unsaved
    BY <1>2, <2>1 DEF IsWindow, InConflict, Rest
  <2> QED
    BY <1>1, <1>3, <2>1, <2>2, NothingStashed
<1>7. CASE KeepMine(w)
  <2>1. PICK u : u = [v EXCEPT !.revision = v.seen, !.over = TRUE, !.seen = 0]
    OBVIOUS
  <2>2. IsWindow(u) /\ u.copy = v.copy /\ u.doc = v.doc /\ u.kept = v.kept /\ u.mixed = v.mixed
        /\ u.based = v.based /\ u.unsaved = v.unsaved
    BY <1>2, <2>1 DEF IsWindow
  <2>3. PICK v2 : v2 = Saving(u)
    OBVIOUS
  <2>4. v2.copy = v.copy /\ v2.doc = v.doc /\ v2.kept = v.kept /\ v2.mixed = v.mixed
        /\ v2.based = v.based /\ v2.unsaved = v.unsaved
    BY <2>2, <2>3 DEF IsWindow, Saving
  <2>5. Put(w, v2)
    BY <1>1, <1>7, <2>1, <2>3 DEF KeepMine
  <2> QED
    BY <1>1, <1>3, <2>4, <2>5, NothingStashed
<1>8. CASE MergeMine(w, choose)
  <2>1. PICK v2 : v2 = [v EXCEPT !.call = "choose", !.sent = v.copy, !.fresh = {}]
    OBVIOUS
  <2>2. v2.copy = v.copy /\ v2.doc = v.doc /\ v2.kept = v.kept /\ v2.mixed = v.mixed
        /\ v2.based = v.based /\ v2.unsaved = v.unsaved
    BY <1>2, <2>1 DEF IsWindow
  <2> QED
    BY <1>1, <1>3, <1>8, <2>1, <2>2, NothingStashed DEF MergeMine
<1> QED
  BY <1>4, <1>5, <1>6, <1>7, <1>8

\* What the server does to the log.
LEMMA ServedGrows ==
    ASSUME WInv, NEW w \in Clients, SaveServed(w) \/ MergeServed(w)
    PROVE  Grown
<1>1. PICK q : q = wire[w]
  OBVIOUS
<1>2. LogOK /\ RequestsOK /\ (q.kind = "save" => IsDoc(q.doc)) /\ UserOf[w] \in Users
  BY <1>1, UserOfAssumption DEF WInv, Linked
<1>3. CASE ServeSave(w)
  <2>1. PICK d, u : d = q.doc /\ u = UserOf[w]
    OBVIOUS
  <2>2. Store(d, u, w, "saved") /\ IsDoc(d)
    BY <1>1, <1>2, <1>3, <2>1 DEF ServeSave, Save
  <2> QED
    BY <1>2, <2>1, <2>2, StoreGrows
<1>4. CASE ServeMerge(w)
  <2>1. PICK u : u = UserOf[w]
    OBVIOUS
  <2>2. PICK only : Store(Merge(q.from, q.mine, Current, q.choose, only), u, w, "merged")
    BY <1>1, <1>4, <2>1 DEF ServeMerge, MergeFrom
  <2>3. PICK d : IsDoc(d) /\ Store(d, u, w, "merged")
    BY <2>2, MadeDocs
  <2> QED
    BY <1>2, <2>1, <2>3, StoreGrows
<1>5. CASE RefuseSave(w) \/ RefuseMerge(w)
  BY <1>5, CalmGrows DEF RefuseSave, RefuseMerge
<1> QED
  BY <1>3, <1>4, <1>5 DEF SaveServed, MergeServed

LEMMA ServedStashes ==
    ASSUME WInv, StorageOK, NEW w \in Clients, SaveServed(w) \/ MergeServed(w)
    PROVE  Stashes(w)
<1>1. PICK v : v = win[w]
  OBVIOUS
<1>2. win' = win /\ storage' = storage
  BY DEF SaveServed, MergeServed, ServeSave, RefuseSave, ServeMerge, RefuseMerge
<1>3. Put(w, v)
  BY <1>1, <1>2 DEF Put, WInv
<1>4. Grown
  BY ServedGrows
<1> QED
  BY <1>1, <1>2, <1>3, <1>4, NothingStashed
-----------------------------------------------------------------------------
Held == WInv /\ StorageOK /\ AloneFindsItsOwn

LEMMA WInitHeld == WInit => Held
<1> SUFFICES ASSUME WInit PROVE StorageOK /\ AloneFindsItsOwn
  BY WInitInv DEF Held
<1>1. LogOK
  BY WInitInv DEF WInv
<1>2. PICK d, s, v : d = Current /\ s = Unedited(d, 1) /\ v = Opened(d)
  OBVIOUS
<1>3. Revision = 1 /\ log[1].doc = d
  BY <1>2 DEF WInit, Init, Revision, Current
<1>4. IsDoc(d)
  BY <1>1, <1>3 DEF LogOK, Revision, IsEntry
<1>5. s = [copy |-> d, doc |-> d, based |-> 1, revision |-> 1, dirty |-> FALSE]
  BY <1>2 DEF Unedited
<1>6. IsKept(s)
  BY <1>3, <1>4, <1>5 DEF IsKept
<1>7. ~v.mixed /\ s = ItsOwn(v)
  BY <1>2, <1>5 DEF Opened, ItsOwn
<1>8. storage = [b \in Browsers |-> s]
  BY <1>2 DEF WInit
<1>9. win = [w \in Clients |-> v]
  BY <1>2 DEF WInit
<1>10. StorageOK
  BY <1>6, <1>8 DEF StorageOK
<1>11. AloneFindsItsOwn
  BY <1>7, <1>8, <1>9 DEF AloneFindsItsOwn, Kept, Browsers
<1> QED
  BY <1>10, <1>11

LEMMA WNextInv == WInv /\ StorageOK /\ [WNext]_allVars => WInv'
<1> SUFFICES ASSUME WInv, StorageOK, [WNext]_allVars PROVE WInv'
  OBVIOUS
<1>1. CASE UNCHANGED allVars
  BY <1>1 DEF allVars, vars, windowVars, WInv, LogOK, RequestsOK, Linked, Revision
<1>2. ASSUME NEW w \in Clients,
             EditSetting(w) \/ TakeOrder(w) \/ EditOrder(w)
      PROVE  WInv'
  BY <1>2, CommitKeeps DEF EditSetting, TakeOrder, EditOrder
<1>3. ASSUME NEW w \in Clients, SaveServed(w) \/ MergeServed(w)
      PROVE  WInv'
  BY <1>3, ServeSaveKeeps, ServeMergeKeeps, RefusedKeeps DEF SaveServed, MergeServed
<1>4. ASSUME NEW w \in Clients, SaveAnswered(w) \/ MergeAnswered(w)
      PROVE  WInv'
  BY <1>4, AnswerSavedKeeps, AnswerStaleKeeps, AnswerMergedKeeps, AnswerClashKeeps,
     AnswerChosenKeeps DEF SaveAnswered, MergeAnswered
<1>5. ASSUME NEW w \in Clients,
             SaveNow(w) \/ NoAnswer(w) \/ KeepMine(w) \/ OpenLatest(w) \/ Reload(w)
      PROVE  WInv'
  BY <1>5, SaveNowKeeps, NoAnswerKeeps, KeepMineKeeps, OpenLatestKeeps, ReloadKeeps
<1>6. ASSUME NEW w \in Clients, NEW choose \in Choices, MergeMine(w, choose)
      PROVE  WInv'
  BY <1>6, MergeMineKeeps
<1> QED
  BY <1>1, <1>2, <1>3, <1>4, <1>5, <1>6 DEF WNext, WStep

\* Every step, by what it does to the log and to the browser.
LEMMA WNextStashes ==
    ASSUME WInv, StorageOK, WNext
    PROVE  Grown /\ \E w \in Clients : Stashes(w)
<1>1. PICK w \in Clients : WStep(w)
  BY DEF WNext
<1>2. CASE EditSetting(w) \/ TakeOrder(w) \/ EditOrder(w)
  <2>1. PICK k, content : Commit(w, k, content)
    BY <1>2 DEF EditSetting, TakeOrder, EditOrder
  <2>2. Calm
    BY <2>1 DEF Commit
  <2> QED
    BY <2>1, <2>2, CommitStashes, CalmGrows
<1>3. CASE SaveServed(w) \/ MergeServed(w)
  BY <1>3, ServedStashes, ServedGrows
<1>4. CASE SaveAnswered(w) \/ MergeAnswered(w)
  <2>1. Calm
    BY <1>4 DEF SaveAnswered, MergeAnswered, AnswerSaved, AnswerStale, AnswerMerged, AnswerClash,
       AnswerChosen
  <2> QED
    BY <1>4, <2>1, CalmGrows, AnswerSavedStashes, AnswerMergedStashes, AnswerChosenStashes,
       OtherStashes DEF SaveAnswered, MergeAnswered
<1>5. CASE SaveNow(w) \/ NoAnswer(w) \/ KeepMine(w) \/ OpenLatest(w) \/ Reload(w)
  <2>1. Calm
    BY <1>5 DEF SaveNow, NoAnswer, KeepMine, OpenLatest, Reload
  <2> QED
    BY <1>5, <2>1, CalmGrows, OpenLatestStashes, ReloadStashes, OtherStashes
<1>6. CASE \E choose \in Choices : MergeMine(w, choose)
  <2>1. PICK choose \in Choices : MergeMine(w, choose)
    BY <1>6
  <2>2. Calm
    BY <2>1 DEF MergeMine
  <2> QED
    BY <2>1, <2>2, CalmGrows, OtherStashes
<1> QED
  BY <1>1, <1>2, <1>3, <1>4, <1>5, <1>6 DEF WStep

LEMMA WNextHeld == Held /\ [WNext]_allVars => Held'
<1> SUFFICES ASSUME Held, [WNext]_allVars PROVE Held'
  OBVIOUS
<1>1. WInv'
  BY WNextInv DEF Held
<1>2. CASE UNCHANGED allVars
  <2>1. storage' = storage /\ win' = win /\ log' = log
    BY <1>2 DEF allVars, vars, windowVars
  <2>2. StorageOK'
    BY <2>1 DEF Held, StorageOK, IsKept, Revision, Browsers
  <2>3. AloneFindsItsOwn'
    BY <2>1 DEF Held, AloneFindsItsOwn, Kept, ItsOwn, Alone
  <2> QED
    BY <1>1, <2>2, <2>3 DEF Held
<1>3. CASE WNext
  <2>1. Grown
    BY <1>3, WNextStashes DEF Held
  <2>2. PICK w \in Clients : Stashes(w)
    BY <1>3, WNextStashes DEF Held
  <2>3. Len(log) \in Nat
    BY DEF Held, WInv, LogOK
  <2>4. StorageOK' /\ AloneFindsItsOwn'
    BY <2>1, <2>2, <2>3, OneStashes DEF Held
  <2> QED
    BY <1>1, <2>4 DEF Held
<1> QED
  BY <1>2, <1>3

LEMMA AlwaysHeld == WSpec => []Held
  BY WInitHeld, WNextHeld, PTL DEF WSpec

\* What a window, or its browser, keeps as its base is that revision as the company
\* has it, after any loss, retry, merge, held change or reload, and whichever
\* windows write to that browser (store.ts saveNow, setBase, restore).
THEOREM BaseIsKnown == WSpec => []BaseIsTheRevision
<1>1. Held => BaseIsTheRevision
  <2> SUFFICES ASSUME Held, NEW w \in Clients
               PROVE  win[w].doc = log[win[w].based].doc /\ Kept(w).doc = log[Kept(w).based].doc
    BY DEF BaseIsTheRevision
  <2>1. Linked(win[w], wire[w]) /\ IsKept(Kept(w))
    BY DEF Held, WInv, StorageOK, Kept, Browsers
  <2> QED
    BY <2>1 DEF Linked, IsKept
<1> QED
  BY <1>1, AlwaysHeld, PTL

\* A window that says "saved" shows its revision of the company, unless a reload
\* has given it what another window of its browser put there.
THEOREM SavedIsTrue == WSpec => []SavedIsTheCompanys
<1>1. Held => SavedIsTheCompanys
  <2> SUFFICES ASSUME Held, NEW w \in Clients, ~win[w].unsaved, ~win[w].mixed
               PROVE  win[w].copy = log[win[w].revision].doc
    BY DEF SavedIsTheCompanys
  <2>1. Linked(win[w], wire[w])
    BY DEF Held, WInv
  <2> QED
    BY <2>1 DEF Linked
<1> QED
  BY <1>1, AlwaysHeld, PTL

\* What a window keeps as its base and shows as saved is the company's, whatever
\* other windows of its browser do; until a reload gives it what they put there,
\* which never happens to a window alone in its browser (store.ts persist, restore).
THEOREM CompanyShown == WSpec => []ShowsTheCompany
<1>1. BaseIsTheRevision /\ SavedIsTheCompanys /\ Held => ShowsTheCompany
  BY DEF ShowsTheCompany, Held
<1> QED
  BY <1>1, BaseIsKnown, SavedIsTrue, AlwaysHeld, PTL
-----------------------------------------------------------------------------
(* What a window still owes the company: with nothing but its own saves     *)
(* after its revision, its copy differs from the company in what was edited *)
(* since the last of them was sent, and in the master data that waits.      *)

\* Every save after r came from the window, or none did.
OnlyFrom(w, r) == \A n \in (r + 1)..Revision : log[n].user = UserOf[w] /\ log[n].client = w
NoneFrom(w, r) == \A n \in (r + 1)..Revision : log[n].client # w

\* One document is another but for the records of S.
ButFor(S, a, b)     == \A k \in DOMAIN a \cup DOMAIN b : At(a, k) # At(b, k) => k \in S
ButForHeld(S, a, b) == \A k \in DOMAIN a \cup DOMAIN b :
                          At(a, k) # At(b, k) => k \in S \/ (approval /\ IsMaster(k))

\* The window w as v, with m on its wire and the records of t touched.
Owes(w, v, m, t) ==
    /\ v.status \in {"saved", "pending", "saving", "failed", "conflict"}
    /\ v.seen \in 0..Revision
    /\ v.left \in 0..MaxQuiet
    /\ v.call = "none" <=> m = NoWire
    /\ v.kept <= v.revision
    /\ v.fresh \subseteq t
    /\ v.call # "none" => ButFor(v.fresh, v.copy, v.sent)
    /\ v.status = "conflict" \/ v.call \in {"quiet", "choose"} =>
          v.seen >= v.revision /\ ~OnlyFrom(w, v.revision)
    /\ v.over /\ v.kept # v.revision => ~OnlyFrom(w, v.kept)
    /\ ~v.mixed /\ ~v.over /\ OnlyFrom(w, v.revision) => ButForHeld(t, v.copy, Current)
    /\ m.kind \in {"save", "merge"} => m.base = v.revision
    /\ m.kind \in {"merge", "merged"} => v.call \in {"quiet", "choose"}
    /\ m.kind \in {"saved", "merged"} => m.revision >= v.revision /\ NoneFrom(w, m.revision)
    /\ m.kind = "saved" => ButForHeld({}, v.sent, m.doc)
    /\ m.kind = "stale" => m.revision >= v.revision /\ ~OnlyFrom(w, v.revision)

OwesInv ==
    /\ approval \in BOOLEAN /\ deciding = 0 /\ cut = {}
    /\ touched = [w \in Clients |-> touched[w]]
    /\ \A w \in Clients : Owes(w, win[w], wire[w], touched[w])

LEMMA ButForAt ==
    ASSUME NEW S, NEW a, NEW b, ButFor(S, a, b), NEW k, At(a, k) # At(b, k)
    PROVE  k \in S
BY DEF ButFor, At

LEMMA ButForHeldAt ==
    ASSUME NEW S, NEW a, NEW b, ButForHeld(S, a, b), NEW k, At(a, k) # At(b, k)
    PROVE  k \in S \/ (approval /\ IsMaster(k))
BY DEF ButForHeld, At

LEMMA ButForBoth ==
    ASSUME NEW S, NEW a, NEW b, NEW c, ButFor(S, a, b), ButForHeld({}, b, c)
    PROVE  ButForHeld(S, a, c)
<1>1. \A k : At(a, k) # At(b, k) => k \in S
  BY ButForAt
<1>2. \A k : At(b, k) # At(c, k) => approval /\ IsMaster(k)
  BY ButForHeldAt
<1> QED
  BY <1>1, <1>2 DEF ButForHeld

LEMMA OnlyFromLater ==
    ASSUME NEW w, NEW r \in Nat, NEW s \in Nat, r <= s, OnlyFrom(w, r)
    PROVE  OnlyFrom(w, s)
BY DEF OnlyFrom

LEMMA ItsOwnIsLatest ==
    ASSUME LogOK, NEW w, NEW r \in 1..Revision, OnlyFrom(w, r), NoneFrom(w, r)
    PROVE  r = Revision
BY DEF OnlyFrom, NoneFrom, LogOK, Revision

\* The log after a save or a merge of the window w.
GrownFor(w) ==
    \/ log' = log
    \/ /\ Len(log') = Revision + 1
       /\ \A n \in 1..Revision : log'[n] = log[n]
       /\ log'[Len(log')].client = w

LEMMA StoreGrowsFor ==
    ASSUME LogOK, NEW d, IsDoc(d), NEW w \in Clients, NEW action,
           Store(d, UserOf[w], w, action)
    PROVE  GrownFor(w)
<1> DEFINE text == IF approval /\ action # "approved" THEN WithoutMaster(Current, d) ELSE d
<1>1. log' = log \/ log' = Append(log, Entry(text, UserOf[w], w))
  BY DEF Store
<1>2. IsDoc(text)
  BY MadeDocs
<1>3. UserOf[w] \in Users
  BY UserOfAssumption
<1> HIDE DEF text
<1>4. ASSUME log' = Append(log, Entry(text, UserOf[w], w)) PROVE GrownFor(w)
  <2>1. PICK u : u = UserOf[w]
    OBVIOUS
  <2>2. /\ Len(log') = Revision + 1
        /\ log'[Len(log')] = Entry(text, u, w)
        /\ \A n \in 1..Revision : log'[n] = log[n]
    BY <1>2, <1>3, <1>4, <2>1, Appended
  <2> QED
    BY <2>2 DEF GrownFor, Entry
<1> QED
  BY <1>1, <1>4 DEF GrownFor

\* A window owes what it did when another window saves: with that save after its
\* revision, nothing is said of its copy.
LEMMA OthersOwe ==
    ASSUME LogOK, NEW x \in Clients, NEW w \in Clients, x # w, NEW v, NEW m, NEW t,
           Linked(v, m), Owes(x, v, m, t), GrownFor(w), approval' = approval
    PROVE  Owes(x, v, m, t)'
<1>0. Len(log) \in Nat /\ Len(log) > 0
  BY DEF LogOK
<1>1. CASE log' = log
  BY <1>1 DEF Owes, OnlyFrom, NoneFrom, ButForHeld, Current, Revision
<1>2. CASE /\ Len(log') = Revision + 1
           /\ \A n \in 1..Revision : log'[n] = log[n]
           /\ log'[Len(log')].client = w
  <2>1. \A r \in 1..Revision : ~OnlyFrom(x, r)'
    BY <1>0, <1>2 DEF OnlyFrom, Revision
  <2>2. \A r \in 1..Revision : NoneFrom(x, r) => NoneFrom(x, r)'
    BY <1>0, <1>2 DEF NoneFrom, Revision
  <2>3. \A S, a, b : ButForHeld(S, a, b)' <=> ButForHeld(S, a, b)
    BY DEF ButForHeld
  <2>4. v.revision \in 1..Revision /\ v.kept \in 1..Revision
        /\ (m.kind \in {"saved", "merged"} => m.revision \in 1..Revision)
    BY DEF Linked
  <2>5. 0..Revision \subseteq 0..Revision'
    BY <1>0, <1>2 DEF Revision
  <2> QED
    BY <2>1, <2>2, <2>3, <2>4, <2>5 DEF Owes
<1> QED
  BY <1>1, <1>2 DEF GrownFor

\* A step of one window.
LEMMA OneOwes ==
    ASSUME WInv, OwesInv, NEW w \in Clients, NEW v, NEW m, NEW t, Owes(w, v, m, t)', GrownFor(w),
           win' = [win EXCEPT ![w] = v], wire' = [wire EXCEPT ![w] = m],
           touched' = [touched EXCEPT ![w] = t], UNCHANGED <<approval, deciding, cut>>
    PROVE  OwesInv'
<1>1. \A x \in Clients : x # w => Owes(x, win[x], wire[x], touched[x])'
  <2> TAKE x \in Clients
  <2> HAVE x # w
  <2>1. PICK a, b, c : a = win[x] /\ b = wire[x] /\ c = touched[x]
    OBVIOUS
  <2>2. LogOK /\ Linked(a, b) /\ Owes(x, a, b, c)
    BY <2>1 DEF WInv, OwesInv
  <2>3. Owes(x, a, b, c)'
    BY <2>2, OthersOwe
  <2>4. win'[x] = a /\ wire'[x] = b /\ touched'[x] = c
    BY <2>1 DEF WInv, OwesInv
  <2> QED
    BY <2>3, <2>4
<1>2. win'[w] = v /\ wire'[w] = m /\ touched'[w] = t
  BY DEF WInv, OwesInv
<1>3. Owes(w, win[w], wire[w], touched[w])'
  BY <1>2
<1>4. touched' = [x \in Clients |-> touched'[x]]
  BY DEF OwesInv
<1> QED
  BY <1>1, <1>3, <1>4 DEF OwesInv

\* A step that leaves the server alone.
LEMMA CalmOwes ==
    ASSUME WInv, OwesInv, NEW w \in Clients, NEW v, NEW m, NEW t, Owes(w, v, m, t), Put(w, v),
           Send(w, m) \/ (wire' = wire /\ m = wire[w]),
           touched' = [touched EXCEPT ![w] = t] \/ (touched' = touched /\ t = touched[w]), Calm
    PROVE  OwesInv'
<1>1. log' = log /\ UNCHANGED <<approval, deciding, cut>>
  BY DEF Calm, serverVars
<1>2. Owes(w, v, m, t)'
  BY <1>1 DEF Owes, OnlyFrom, NoneFrom, ButForHeld, Current, Revision
<1>3. wire' = [wire EXCEPT ![w] = m]
  BY DEF Send, WInv
<1>4. touched' = [touched EXCEPT ![w] = t]
  BY DEF OwesInv
<1>5. win' = [win EXCEPT ![w] = v] /\ GrownFor(w)
  BY <1>1 DEF Put, GrownFor
<1> QED
  BY <1>1, <1>2, <1>3, <1>4, <1>5, OneOwes

LEMMA WithAt ==
    ASSUME NEW d, NEW k, NEW content, NEW j, j # k
    PROVE  At(With(d, k, content), j) = At(d, j)
BY DEF At, With

LEMMA CommitOwes ==
    ASSUME WInv, OwesInv, NEW w \in Clients, NEW k, NEW content, Commit(w, k, content)
    PROVE  OwesInv'
<1>1. PICK v, m, t : v = win[w] /\ m = wire[w] /\ t = touched[w]
  OBVIOUS
<1>2. Linked(v, m) /\ Owes(w, v, m, t)
  BY <1>1 DEF WInv, OwesInv
<1>3. PICK d : d = With(v.copy, k, content)
  OBVIOUS
<1>4. PICK v2 : v2 = [v EXCEPT !.copy = With(@, k, content), !.unsaved = TRUE, !.made = @ + 1,
                               !.kept = v.revision,
                               !.fresh = IF v.call = "none" THEN {} ELSE @ \cup {k},
                               !.status = IF @ \in {"conflict", "saving"} THEN @ ELSE "pending"]
  OBVIOUS
<1>5. Put(w, v2) /\ wire' = wire /\ Calm /\ touched' = [touched EXCEPT ![w] = t \cup {k}]
  BY <1>1, <1>4 DEF Commit
<1>6. /\ v2.copy = d /\ v2.kept = v.revision /\ v2.mixed = v.mixed /\ v2.revision = v.revision
      /\ v2.call = v.call
      /\ v2.sent = v.sent /\ v2.seen = v.seen /\ v2.left = v.left /\ v2.over = v.over
      /\ v2.fresh = (IF v.call = "none" THEN {} ELSE v.fresh \cup {k})
      /\ v2.status = (IF v.status \in {"conflict", "saving"} THEN v.status ELSE "pending")
  BY <1>2, <1>3, <1>4 DEF Linked, IsWindow
<1>7. ButFor(v.fresh, v.copy, v.sent) => ButFor(v.fresh \cup {k}, d, v.sent)
  BY <1>3, WithAt, ButForAt DEF ButFor
<1>8. ButForHeld(t, v.copy, Current) => ButForHeld(t \cup {k}, d, Current)
  BY <1>3, WithAt, ButForHeldAt DEF ButForHeld
<1>9. v.revision \in Nat
  BY <1>2 DEF Linked
<1>10. Owes(w, v2, m, t \cup {k})
  BY <1>2, <1>6, <1>7, <1>8, <1>9 DEF Owes
<1> QED
  BY <1>1, <1>5, <1>10, CalmOwes

\* A save is sent: by itself, or over a colleague's.
LEMMA SavingOwes ==
    ASSUME NEW w, NEW v, NEW t, IsWindow(v),
           v.seen \in 0..Revision, v.left \in 0..MaxQuiet, v.kept <= v.revision,
           v.over /\ v.kept # v.revision => ~OnlyFrom(w, v.kept),
           ~v.mixed /\ ~v.over /\ OnlyFrom(w, v.revision) => ButForHeld(t, v.copy, Current)
    PROVE  Owes(w, Saving(v), SaveRequest(v), t)
<1>1. PICK v2, m2 : v2 = Saving(v) /\ m2 = SaveRequest(v)
  OBVIOUS
<1>2. /\ v2.copy = v.copy /\ v2.kept = v.kept /\ v2.mixed = v.mixed /\ v2.revision = v.revision /\ v2.call = "save"
      /\ v2.sent = v.copy /\ v2.seen = v.seen /\ v2.left = v.left /\ v2.over = v.over
      /\ v2.fresh = {} /\ v2.status = "saving"
  BY <1>1 DEF Saving, IsWindow
<1>3. m2.kind = "save" /\ m2.base = v.revision /\ m2 # NoWire
  BY <1>1 DEF SaveRequest, NoWire
<1>4. ButFor({}, v.copy, v.copy)
  BY DEF ButFor
<1>5. Owes(w, v2, m2, t)
  BY <1>2, <1>3, <1>4 DEF Owes
<1> QED
  BY <1>1, <1>5

LEMMA SaveNowOwes ==
    ASSUME WInv, OwesInv, NEW w \in Clients, SaveNow(w)
    PROVE  OwesInv'
<1>1. PICK v, m, t : v = win[w] /\ m = wire[w] /\ t = touched[w]
  OBVIOUS
<1>2. Linked(v, m) /\ Owes(w, v, m, t)
  BY <1>1 DEF WInv, OwesInv
<1>3. PICK v2, m2 : v2 = Saving(v) /\ m2 = SaveRequest(v)
  OBVIOUS
<1>4. Owes(w, v2, m2, t)
  <2>1. IsWindow(v)
    BY <1>2 DEF Linked
  <2> QED
    BY <1>2, <1>3, <2>1, SavingOwes DEF Owes
<1>5. Put(w, v2) /\ Send(w, m2) /\ touched' = touched /\ Calm
  BY <1>1, <1>3 DEF SaveNow
<1> QED
  BY <1>1, <1>4, <1>5, CalmOwes

LEMMA KeepMineOwes ==
    ASSUME WInv, OwesInv, NEW w \in Clients, KeepMine(w)
    PROVE  OwesInv'
<1>1. PICK u, m, t : u = win[w] /\ m = wire[w] /\ t = touched[w]
  OBVIOUS
<1>2. Linked(u, m) /\ Owes(w, u, m, t) /\ u.status = "conflict" /\ u.call = "none"
  BY <1>1 DEF WInv, OwesInv, KeepMine, Asked
<1>3. PICK v : v = [u EXCEPT !.revision = u.seen, !.over = TRUE, !.seen = 0]
  OBVIOUS
<1>4. IsWindow(v) /\ v.kept = u.kept /\ v.mixed = u.mixed /\ v.revision = u.seen /\ v.over = TRUE /\ v.seen = 0
      /\ v.left = u.left
  BY <1>2, <1>3 DEF Linked, IsWindow
<1>5. /\ u.seen \in 1..Revision /\ u.revision \in 1..Revision /\ u.kept \in 1..Revision
      /\ u.kept <= u.revision /\ u.revision <= u.seen /\ ~OnlyFrom(w, u.revision)
  BY <1>2 DEF Linked, Owes
<1>6. ~OnlyFrom(w, u.kept)
  BY <1>5, OnlyFromLater
<1>7. PICK v2, m2 : v2 = Saving(v) /\ m2 = SaveRequest(v)
  OBVIOUS
<1>8. Owes(w, v2, m2, t)
  <2>1. v.seen \in 0..Revision /\ v.left \in 0..MaxQuiet /\ v.kept <= v.revision
    <3>1. 0 \in 0..Revision
      BY DEF WInv, LogOK, Revision
    <3> QED
      BY <3>1, <1>2, <1>4, <1>5 DEF Owes
  <2>2. v.kept # v.revision => ~OnlyFrom(w, v.kept)
    BY <1>4, <1>6
  <2> QED
    BY <1>4, <1>7, <2>1, <2>2, SavingOwes
<1>9. Put(w, v2) /\ Send(w, m2) /\ touched' = touched /\ Calm
  BY <1>1, <1>3, <1>7 DEF KeepMine
<1> QED
  BY <1>1, <1>8, <1>9, CalmOwes

\* A window that takes a revision after which it saved nothing owes nothing.
LEMMA AdoptedOwes ==
    ASSUME LogOK, NEW w, NEW v, IsWindow(v), NEW t, NEW r \in 1..Revision,
           r = Revision \/ NoneFrom(w, r)
    PROVE  Owes(w, Adopted(v, log[r].doc, r), NoWire, t)
<1>1. PICK v2, d : d = log[r].doc /\ v2 = Adopted(v, d, r)
  OBVIOUS
<1>2. /\ v2.copy = d /\ v2.kept = r /\ v2.mixed = FALSE /\ v2.revision = r /\ v2.call = "none"
      /\ v2.seen = 0 /\ v2.left = 0 /\ v2.over = FALSE
      /\ v2.fresh = {} /\ v2.status = "saved"
  BY <1>1 DEF Adopted, Rest, IsWindow
<1>3. OnlyFrom(w, r) => d = Current
  BY <1>1, ItsOwnIsLatest DEF Current
<1>4. ButForHeld(t, d, d)
  BY DEF ButForHeld
<1>5. 0 \in 0..Revision /\ 0 \in 0..MaxQuiet /\ r <= r
  BY MaxQuietAssumption DEF LogOK, Revision
<1>6. Owes(w, v2, NoWire, t)
  BY <1>2, <1>3, <1>4, <1>5 DEF Owes, NoWire
<1> QED
  BY <1>1, <1>6

\* A window that stops waiting, and asks its person.
LEMMA ConflictOwes ==
    ASSUME NEW w, NEW v, NEW m, NEW t, Linked(v, m), Owes(w, v, m, t),
           v.call \in {"quiet", "choose"}
    PROVE  Owes(w, InConflict(v), NoWire, t)
<1>1. PICK v2 : v2 = InConflict(v)
  OBVIOUS
<1>2. /\ v2.copy = v.copy /\ v2.kept = v.kept /\ v2.mixed = v.mixed /\ v2.revision = v.revision /\ v2.call = "none"
      /\ v2.seen = v.seen /\ v2.left = 0 /\ v2.over = v.over
      /\ v2.fresh = {} /\ v2.status = "conflict"
  BY <1>1 DEF InConflict, Rest, Linked, IsWindow
<1>3. 0 \in 0..MaxQuiet
  BY MaxQuietAssumption
<1>4. Owes(w, v2, NoWire, t)
  BY <1>2, <1>3 DEF Owes, NoWire
<1> QED
  BY <1>1, <1>4

LEMMA AnswerSavedOwes ==
    ASSUME WInv, OwesInv, NEW w \in Clients, AnswerSaved(w)
    PROVE  OwesInv'
<1>1. PICK v, a, t : v = win[w] /\ a = wire[w] /\ t = touched[w]
  OBVIOUS
<1>2. Linked(v, a) /\ Owes(w, v, a, t) /\ LogOK /\ v.call = "save" /\ a.kind = "saved"
  BY <1>1 DEF WInv, OwesInv, AnswerSaved
<1>3. /\ IsWindow(v) /\ a.revision \in 1..Revision /\ a.doc = log[a.revision].doc
      /\ v.kept \in 1..Revision /\ v.revision \in 1..Revision
  BY <1>2 DEF Linked
<1>4. /\ a.revision >= v.revision /\ v.kept <= v.revision /\ NoneFrom(w, a.revision)
      /\ ButForHeld({}, v.sent, a.doc) /\ ButFor(v.fresh, v.copy, v.sent) /\ v.fresh \subseteq t
      /\ v.seen \in 0..Revision
  BY <1>2 DEF Owes
<1>5. PICK moved : moved = [Rest(v) EXCEPT !.based = a.revision, !.revision = a.revision,
                                           !.status = "saved", !.over = FALSE]
  OBVIOUS
<1>6. IsWindow(moved) /\ moved.copy = v.copy /\ moved.kept = v.kept /\ moved.mixed = v.mixed /\ moved.seen = v.seen
      /\ moved.revision = a.revision /\ moved.over = FALSE /\ moved.fresh = {}
      /\ moved.call = "none" /\ moved.status = "saved" /\ moved.left = 0
  BY <1>3, <1>5 DEF Rest, IsWindow
<1>7. PICK v2 : /\ Put(w, v2)
                /\ \/ v2 = Adopted(v, a.doc, a.revision)
                   \/ v2 = [moved EXCEPT !.doc = a.doc]
                   \/ v2 = [moved EXCEPT !.doc = v.sent, !.unsaved = v.fresh # {},
                                         !.kept = a.revision]
  BY <1>1, <1>5 DEF AnswerSaved, Adopts
<1>8. Put(w, v2) /\ Send(w, NoWire) /\ touched' = touched /\ Calm
  BY <1>7 DEF AnswerSaved
<1>9. OnlyFrom(w, a.revision) => ButForHeld(t, v.copy, Current)
  <2>1. SUFFICES ASSUME OnlyFrom(w, a.revision) PROVE ButForHeld(t, v.copy, a.doc)
    BY <1>2, <1>3, <1>4, ItsOwnIsLatest DEF Current
  <2>2. ButForHeld(v.fresh, v.copy, a.doc)
    BY <1>4, ButForBoth
  <2> QED
    BY <1>4, <2>2 DEF ButForHeld
<1>10. CASE v2 = Adopted(v, a.doc, a.revision)
  <2>1. v2 = Adopted(v, log[a.revision].doc, a.revision)
    BY <1>3, <1>10
  <2>2. Owes(w, v2, NoWire, t)
    BY <1>2, <1>3, <1>4, <2>1, AdoptedOwes
  <2> QED
    BY <1>1, <1>8, <2>2, CalmOwes
<1>11. CASE v2 # Adopted(v, a.doc, a.revision)
  <2>1. v2 = [moved EXCEPT !.doc = a.doc]
        \/ v2 = [moved EXCEPT !.doc = v.sent, !.unsaved = v.fresh # {}, !.kept = a.revision]
    BY <1>7, <1>11
  <2>2. /\ v2.copy = v.copy /\ v2.kept \in {v.kept, a.revision} /\ v2.mixed = v.mixed /\ v2.revision = a.revision
        /\ v2.call = "none" /\ v2.seen = v.seen /\ v2.left = 0 /\ v2.over = FALSE
        /\ v2.fresh = {} /\ v2.status = "saved"
    BY <1>6, <2>1 DEF IsWindow
  <2>3. v2.kept <= v2.revision /\ 0 \in 0..MaxQuiet
    BY <1>3, <1>4, <2>2, MaxQuietAssumption
  <2>4. Owes(w, v2, NoWire, t)
    BY <1>4, <1>9, <2>2, <2>3 DEF Owes, NoWire
  <2> QED
    BY <1>1, <1>8, <2>4, CalmOwes
<1> QED
  BY <1>10, <1>11

LEMMA AnswerStaleOwes ==
    ASSUME WInv, OwesInv, NEW w \in Clients, AnswerStale(w)
    PROVE  OwesInv'
<1>1. PICK v, a, t : v = win[w] /\ a = wire[w] /\ t = touched[w]
  OBVIOUS
<1>2. Linked(v, a) /\ Owes(w, v, a, t) /\ v.call = "save" /\ a.kind = "stale"
  BY <1>1 DEF WInv, OwesInv, AnswerStale
<1>3. PICK v2 : v2 = [v EXCEPT !.call = "quiet", !.seen = a.revision, !.left = MaxQuiet]
  OBVIOUS
<1>4. PICK m2 : m2 = [kind |-> "merge", from |-> log[v.revision].doc,
                      mine |-> WhatToSend(v, v.sent), base |-> v.revision, quiet |-> TRUE,
                      choose |-> <<>>]
  OBVIOUS
<1>5. Put(w, v2) /\ Send(w, m2) /\ touched' = touched /\ Calm
  BY <1>1, <1>3, <1>4 DEF AnswerStale
<1>6. /\ v2.copy = v.copy /\ v2.kept = v.kept /\ v2.mixed = v.mixed /\ v2.revision = v.revision /\ v2.call = "quiet"
      /\ v2.seen = a.revision /\ v2.left = MaxQuiet /\ v2.over = v.over
      /\ v2.fresh = v.fresh /\ v2.sent = v.sent /\ v2.status = v.status
  BY <1>2, <1>3 DEF Linked, IsWindow
<1>7. m2.kind = "merge" /\ m2.base = v.revision /\ m2 # NoWire
  BY <1>4 DEF NoWire
<1>8. a.revision \in 0..Revision /\ MaxQuiet \in 0..MaxQuiet
  BY <1>2, MaxQuietAssumption DEF Linked
<1>9. Owes(w, v2, m2, t)
  BY <1>2, <1>6, <1>7, <1>8 DEF Owes
<1> QED
  BY <1>1, <1>5, <1>9, CalmOwes

LEMMA AnswerMergedOwes ==
    ASSUME WInv, OwesInv, NEW w \in Clients, AnswerMerged(w)
    PROVE  OwesInv'
<1>1. PICK v, a, t : v = win[w] /\ a = wire[w] /\ t = touched[w]
  OBVIOUS
<1>2. /\ Linked(v, a) /\ Owes(w, v, a, t) /\ LogOK /\ v.call = "quiet" /\ a.kind = "merged"
      /\ touched' = touched /\ Calm
  BY <1>1 DEF WInv, OwesInv, AnswerMerged
<1>3. /\ IsWindow(v) /\ a.revision \in 1..Revision /\ a.doc = log[a.revision].doc
      /\ NoneFrom(w, a.revision)
  BY <1>2 DEF Linked, Owes
<1>4. CASE /\ v.fresh = {}
           /\ Put(w, Adopted(v, a.doc, a.revision))
           /\ Send(w, NoWire)
  <2>1. PICK v2 : v2 = Adopted(v, log[a.revision].doc, a.revision)
    OBVIOUS
  <2>2. Owes(w, v2, NoWire, t)
    BY <1>2, <1>3, <2>1, AdoptedOwes
  <2>3. Put(w, v2) /\ Send(w, NoWire)
    BY <1>3, <1>4, <2>1
  <2> QED
    BY <1>1, <1>2, <2>2, <2>3, CalmOwes
<1>5. CASE /\ v.left > 0
           /\ Put(w, [v EXCEPT !.sent = v.copy, !.fresh = {}, !.left = @ - 1])
           /\ Send(w, [kind |-> "merge", from |-> v.sent, mine |-> v.copy,
                       base |-> v.revision, quiet |-> TRUE, choose |-> <<>>])
  <2>1. PICK v2, m2 : /\ v2 = [v EXCEPT !.sent = v.copy, !.fresh = {}, !.left = @ - 1]
                      /\ m2 = [kind |-> "merge", from |-> v.sent, mine |-> v.copy,
                               base |-> v.revision, quiet |-> TRUE, choose |-> <<>>]
    OBVIOUS
  <2>2. /\ v2.copy = v.copy /\ v2.kept = v.kept /\ v2.mixed = v.mixed /\ v2.revision = v.revision /\ v2.call = "quiet"
        /\ v2.seen = v.seen /\ v2.left = v.left - 1 /\ v2.over = v.over
        /\ v2.fresh = {} /\ v2.sent = v.copy /\ v2.status = v.status
    BY <1>2, <2>1 DEF Linked, IsWindow
  <2>3. m2.kind = "merge" /\ m2.base = v.revision /\ m2 # NoWire
    BY <2>1 DEF NoWire
  <2>4. v.left - 1 \in 0..MaxQuiet /\ ButFor({}, v.copy, v.copy)
    BY <1>2, <1>5, MaxQuietAssumption DEF Owes, ButFor
  <2>5. Owes(w, v2, m2, t)
    BY <1>2, <2>2, <2>3, <2>4 DEF Owes
  <2>6. Put(w, v2) /\ Send(w, m2)
    BY <1>5, <2>1
  <2> QED
    BY <1>1, <1>2, <2>5, <2>6, CalmOwes
<1>6. CASE /\ Put(w, InConflict(v))
           /\ Send(w, NoWire)
  <2>1. PICK v2 : v2 = InConflict(v)
    OBVIOUS
  <2>2. Owes(w, v2, NoWire, t)
    BY <1>2, <2>1, ConflictOwes
  <2>3. Put(w, v2) /\ Send(w, NoWire)
    BY <1>6, <2>1
  <2> QED
    BY <1>1, <1>2, <2>2, <2>3, CalmOwes
<1> QED
  BY <1>1, <1>4, <1>5, <1>6 DEF AnswerMerged, Adopts

LEMMA AnswerClashOwes ==
    ASSUME WInv, OwesInv, NEW w \in Clients, AnswerClash(w)
    PROVE  OwesInv'
<1>1. PICK v, m, t, v2 : v = win[w] /\ m = wire[w] /\ t = touched[w] /\ v2 = InConflict(v)
  OBVIOUS
<1>2. Linked(v, m) /\ Owes(w, v, m, t) /\ v.call = "quiet"
  BY <1>1 DEF WInv, OwesInv, AnswerClash
<1>3. Owes(w, v2, NoWire, t)
  BY <1>1, <1>2, ConflictOwes
<1>4. Put(w, v2) /\ Send(w, NoWire) /\ touched' = touched /\ Calm
  BY <1>1 DEF AnswerClash
<1> QED
  BY <1>1, <1>3, <1>4, CalmOwes

LEMMA NoAnswerOwes ==
    ASSUME WInv, OwesInv, NEW w \in Clients, NoAnswer(w)
    PROVE  OwesInv'
<1>1. PICK v, m, t : v = win[w] /\ m = wire[w] /\ t = touched[w]
  OBVIOUS
<1>2. Linked(v, m) /\ Owes(w, v, m, t) /\ v.call # "none"
  BY <1>1 DEF WInv, OwesInv, NoAnswer
<1>3. PICK v2 : v2 = IF v.call = "save" THEN [Rest(v) EXCEPT !.status = "failed"]
                     ELSE InConflict(v)
  OBVIOUS
<1>4. Put(w, v2) /\ Send(w, NoWire) /\ touched' = touched /\ Calm
  BY <1>1, <1>3 DEF NoAnswer
<1>5. Owes(w, v2, NoWire, t)
  <2>1. CASE v.call = "save"
    <3>1. /\ v2.copy = v.copy /\ v2.kept = v.kept /\ v2.mixed = v.mixed /\ v2.revision = v.revision
          /\ v2.call = "none" /\ v2.seen = v.seen /\ v2.left = 0 /\ v2.over = v.over
          /\ v2.fresh = {} /\ v2.status = "failed"
      BY <1>2, <1>3, <2>1 DEF Rest, Linked, IsWindow
    <3>2. 0 \in 0..MaxQuiet
      BY MaxQuietAssumption
    <3> QED
      BY <1>2, <3>1, <3>2 DEF Owes, NoWire
  <2>2. CASE v.call # "save"
    <3>1. v2 = InConflict(v) /\ v.call \in {"quiet", "choose"}
      BY <1>2, <1>3, <2>2 DEF Linked
    <3> QED
      BY <1>2, <3>1, ConflictOwes
  <2> QED
    BY <2>1, <2>2
<1> QED
  BY <1>1, <1>4, <1>5, CalmOwes

LEMMA MergeMineOwes ==
    ASSUME WInv, OwesInv, NEW w \in Clients, NEW choose, MergeMine(w, choose)
    PROVE  OwesInv'
<1>1. PICK v, m, t : v = win[w] /\ m = wire[w] /\ t = touched[w]
  OBVIOUS
<1>2. Linked(v, m) /\ Owes(w, v, m, t) /\ v.status = "conflict"
  BY <1>1 DEF WInv, OwesInv, MergeMine, Asked
<1>3. PICK v2 : v2 = [v EXCEPT !.call = "choose", !.sent = v.copy, !.fresh = {}]
  OBVIOUS
<1>4. PICK m2 : m2 = [kind |-> "merge", from |-> log[v.revision].doc,
                      mine |-> WhatToSend(v, v.copy), base |-> v.revision, quiet |-> FALSE,
                      choose |-> choose]
  OBVIOUS
<1>5. Put(w, v2) /\ Send(w, m2) /\ touched' = touched /\ Calm
  BY <1>1, <1>3, <1>4 DEF MergeMine
<1>6. /\ v2.copy = v.copy /\ v2.kept = v.kept /\ v2.mixed = v.mixed /\ v2.revision = v.revision /\ v2.call = "choose"
      /\ v2.seen = v.seen /\ v2.left = v.left /\ v2.over = v.over
      /\ v2.fresh = {} /\ v2.sent = v.copy /\ v2.status = v.status
  BY <1>2, <1>3 DEF Linked, IsWindow
<1>7. m2.kind = "merge" /\ m2.base = v.revision /\ m2 # NoWire
  BY <1>4 DEF NoWire
<1>8. ButFor({}, v.copy, v.copy)
  BY DEF ButFor
<1>9. Owes(w, v2, m2, t)
  BY <1>2, <1>6, <1>7, <1>8 DEF Owes
<1> QED
  BY <1>1, <1>5, <1>9, CalmOwes

LEMMA AnswerChosenOwes ==
    ASSUME WInv, OwesInv, NEW w \in Clients, AnswerChosen(w)
    PROVE  OwesInv'
<1>1. PICK v, a, t : v = win[w] /\ a = wire[w] /\ t = touched[w]
  OBVIOUS
<1>2. /\ Linked(v, a) /\ Owes(w, v, a, t) /\ LogOK /\ v.call = "choose" /\ a.kind = "merged"
  BY <1>1 DEF WInv, OwesInv, AnswerChosen
<1>3. /\ IsWindow(v) /\ a.revision \in 1..Revision /\ a.doc = log[a.revision].doc
      /\ NoneFrom(w, a.revision)
  BY <1>2 DEF Linked, Owes
<1>4. PICK v2 : v2 = IF v.fresh = {} THEN Adopted(v, a.doc, a.revision) ELSE InConflict(v)
  OBVIOUS
<1>5. Put(w, v2) /\ Send(w, NoWire) /\ touched' = touched /\ Calm
  BY <1>1, <1>4 DEF AnswerChosen, Adopts
<1>6. Owes(w, v2, NoWire, t)
  <2>1. CASE v.fresh = {}
    <3>1. v2 = Adopted(v, log[a.revision].doc, a.revision)
      BY <1>3, <1>4, <2>1
    <3> QED
      BY <3>1, <1>2, <1>3, AdoptedOwes
  <2>2. CASE v.fresh # {}
    BY <2>2, <1>2, <1>4, ConflictOwes
  <2> QED
    BY <2>1, <2>2
<1> QED
  BY <1>1, <1>5, <1>6, CalmOwes

LEMMA OpenLatestOwes ==
    ASSUME WInv, OwesInv, NEW w \in Clients, OpenLatest(w)
    PROVE  OwesInv'
<1>1. PICK v, m : v = win[w] /\ m = wire[w]
  OBVIOUS
<1>2. Linked(v, m) /\ Owes(w, v, m, touched[w]) /\ LogOK /\ v.call = "none"
  BY <1>1 DEF WInv, OwesInv, OpenLatest
<1>3. PICK v2 : v2 = Adopted(v, log[Revision].doc, Revision)
  OBVIOUS
<1>4. Owes(w, v2, NoWire, {})
  <2>1. Revision \in 1..Revision
    BY <1>2 DEF LogOK, Revision
  <2>2. IsWindow(v)
    BY <1>2 DEF Linked
  <2> QED
    BY <1>2, <1>3, <2>1, <2>2, AdoptedOwes
<1>5. m = NoWire
  BY <1>2 DEF Owes
<1>6. Put(w, v2) /\ wire' = wire /\ touched' = [touched EXCEPT ![w] = {}] /\ Calm
  BY <1>1, <1>3 DEF OpenLatest, Adopts, Current
<1> QED
  BY <1>1, <1>4, <1>5, <1>6, CalmOwes

LEMMA ReloadOwes ==
    ASSUME WInv, StorageOK, OwesInv, NEW w \in Clients, Reload(w)
    PROVE  OwesInv'
<1>1. PICK v, m, t, s : v = win[w] /\ m = wire[w] /\ t = touched[w] /\ s = Kept(w)
  OBVIOUS
<1>2. Linked(v, m) /\ Owes(w, v, m, t) /\ LogOK
  BY <1>1 DEF WInv, OwesInv
<1>3. PICK v2 : v2 = Restored(v, s)
  OBVIOUS
<1>4. Put(w, v2) /\ Send(w, NoWire) /\ touched' = touched /\ Calm
  BY <1>1, <1>3 DEF Reload
<1>5. /\ v2.copy = s.copy /\ v2.kept = s.revision /\ v2.revision = s.revision /\ v2.call = "none"
      /\ v2.seen = 0 /\ v2.left = 0 /\ v2.over = (v.over /\ s.revision = v.revision)
      /\ v2.fresh = {} /\ v2.status \in {"pending", "saved"}
      /\ v2.mixed \in BOOLEAN /\ (~v2.mixed => ~v.mixed /\ s = ItsOwn(v))
  BY <1>2, <1>3 DEF Restored, Rest, Linked, IsWindow
<1>6. /\ v.kept \in 1..Revision /\ v.revision \in 1..Revision /\ v.kept <= v.revision
      /\ s.revision \in 1..Revision
  BY <1>1, <1>2 DEF Linked, Owes, StorageOK, IsKept, Kept, Browsers
<1>7. ~v2.mixed /\ ~v2.over /\ OnlyFrom(w, v2.revision) => ButForHeld(t, v2.copy, Current)
  <2> SUFFICES ASSUME ~v2.mixed, ~v2.over, OnlyFrom(w, v2.revision)
               PROVE  ButForHeld(t, v2.copy, Current)
    OBVIOUS
  <2>1. ~v.mixed /\ s.copy = v.copy /\ s.revision = v.kept
    BY <1>5 DEF ItsOwn
  <2>2. OnlyFrom(w, v.kept)
    BY <1>5, <2>1
  <2>3. OnlyFrom(w, v.revision)
    BY <1>6, <2>2, OnlyFromLater
  <2>4. ~v.over
    BY <1>2, <1>5, <2>1, <2>2 DEF Owes
  <2> QED
    BY <1>2, <1>5, <2>1, <2>3, <2>4 DEF Owes
<1>8. 0 \in 0..MaxQuiet /\ 0 \in 0..Revision /\ s.revision <= s.revision
  BY <1>2, <1>6, MaxQuietAssumption DEF LogOK, Revision
<1>9. Owes(w, v2, NoWire, t)
  BY <1>5, <1>7, <1>8 DEF Owes, NoWire
<1> QED
  BY <1>1, <1>4, <1>9, CalmOwes
-----------------------------------------------------------------------------
(* The server's steps.                                                      *)

\* An answer is put on the wire of the window that asked.
LEMMA ServedOwes ==
    ASSUME WInv, OwesInv, NEW w \in Clients, NEW m, NEW t, Owes(w, win[w], m, t)', GrownFor(w),
           win' = win, Send(w, m), touched' = [touched EXCEPT ![w] = t],
           UNCHANGED <<approval, deciding, cut>>
    PROVE  OwesInv'
<1>1. win' = [win EXCEPT ![w] = win[w]] /\ win'[w] = win[w]
  BY DEF WInv
<1>2. PICK v : v = win[w]
  OBVIOUS
<1>3. Owes(w, v, m, t)'
  BY <1>1, <1>2
<1> QED
  BY <1>1, <1>2, <1>3, OneOwes DEF Send

\* A window whose own save was not the only one has not the only one later.
LEMMA NotOnlyStays ==
    ASSUME LogOK, NEW w, NEW c, GrownFor(c), NEW r \in 1..Revision, OnlyFrom(w, r)'
    PROVE  OnlyFrom(w, r)
BY DEF OnlyFrom, GrownFor, LogOK, Revision

\* What is saved of a document is the document, but for what is held.
LEMMA SavedButHeld ==
    ASSUME LogOK, NEW d, IsDoc(d), NEW w \in Clients, Store(d, UserOf[w], w, "saved")
    PROVE  ButForHeld({}, d, log'[Len(log')].doc)
<1> DEFINE text == IF approval THEN WithoutMaster(Current, d) ELSE d
<1>1. log' = IF text = Current THEN log ELSE Append(log, Entry(text, UserOf[w], w))
  BY DEF Store
<1>2. IsDoc(text)
  BY MadeDocs
<1>3. \A k : At(d, k) # At(text, k) => approval /\ IsMaster(k)
  BY WithoutMasterRecord
<1> HIDE DEF text
<1>4. log'[Len(log')].doc = text
  <2>1. CASE text = Current
    BY <1>1, <2>1 DEF Current, Revision
  <2>2. CASE text # Current
    <3>1. PICK u : u = UserOf[w] /\ u \in Users
      BY UserOfAssumption
    <3>2. log' = Append(log, Entry(text, u, w))
      BY <1>1, <2>2, <3>1
    <3>3. log'[Len(log')] = Entry(text, u, w)
      BY <1>2, <3>1, <3>2, Appended
    <3> QED
      BY <3>3 DEF Entry
  <2> QED
    BY <2>1, <2>2
<1> QED
  BY <1>3, <1>4 DEF ButForHeld

LEMMA ServeSaveOwes ==
    ASSUME WInv, OwesInv, NEW w \in Clients, ServeSave(w)
    PROVE  OwesInv'
<1>1. PICK v, q, t : v = win[w] /\ q = wire[w] /\ t = touched[w]
  OBVIOUS
<1>2. Linked(v, q) /\ Owes(w, v, q, t) /\ LogOK /\ q.kind = "save"
  BY <1>1 DEF WInv, OwesInv, ServeSave
<1>3. /\ v.call = "save" /\ q.doc = v.sent /\ IsDoc(q.doc)
      /\ v.revision \in 1..Revision /\ v.kept \in 1..Revision
  BY <1>2 DEF Linked
<1>4. PICK d : d = q.doc
  OBVIOUS
<1>5. Store(d, UserOf[w], w, "saved") /\ UNCHANGED <<approval, deciding, cut>>
  BY <1>1, <1>4 DEF ServeSave, Save
<1>6. GrownFor(w)
  BY <1>2, <1>3, <1>4, <1>5, StoreGrowsFor
<1>7. PICK after : after = log'[Len(log')].doc
  OBVIOUS
<1>8. ButForHeld({}, d, after)
  BY <1>2, <1>3, <1>4, <1>5, <1>7, SavedButHeld
<1>9. PICK m : m = [kind |-> "saved", doc |-> log'[Len(log')].doc, revision |-> Len(log'),
                    held |-> requests' # requests]
  OBVIOUS
<1>10. m.kind = "saved" /\ m.doc = after /\ m.revision = Len(log') /\ m # NoWire
  BY <1>7, <1>9 DEF NoWire
<1>11. /\ Len(log) \in Nat /\ Len(log') \in Nat /\ Len(log') >= Len(log)
  BY <1>2, <1>6 DEF LogOK, GrownFor, Revision
<1>12. Owes(w, v, m, v.fresh)'
  <2>1. /\ v.status \in {"saved", "pending", "saving", "failed", "conflict"}
        /\ v.seen \in 0..Len(log') /\ v.left \in 0..MaxQuiet /\ v.kept <= v.revision
    BY <1>2, <1>11 DEF Owes, Revision
  <2>2. /\ v.status = "conflict" => v.seen >= v.revision /\ ~OnlyFrom(w, v.revision)'
        /\ v.over /\ v.kept # v.revision => ~OnlyFrom(w, v.kept)'
    BY <1>2, <1>3, <1>6, NotOnlyStays DEF Owes
  <2>3. ButFor(v.fresh, v.copy, v.sent)
    BY <1>2, <1>3 DEF Owes
  <2>4. ButForHeld({}, v.sent, after)' /\ ButForHeld(v.fresh, v.copy, after)'
    <3>1. ButForHeld(v.fresh, v.copy, after)
      BY <1>3, <1>4, <1>8, <2>3, ButForBoth
    <3> QED
      BY <1>3, <1>4, <1>5, <1>8, <3>1 DEF ButForHeld
  <2>5. Current' = after
    BY <1>7 DEF Current, Revision
  <2>6. PICK r : r = Len(log') /\ NoneFrom(w, r)'
    <3>1. PICK r : r = Len(log')
      OBVIOUS
    <3> QED
      BY <1>11, <3>1 DEF NoneFrom, Revision
  <2>7. ButForHeld(v.fresh, v.copy, Current)'
    BY <2>4, <2>5
  <2>8. NoneFrom(w, m.revision)' /\ m.revision >= v.revision
    BY <1>3, <1>10, <1>11, <2>6 DEF Revision
  <2> QED
    BY <1>3, <1>10, <2>1, <2>2, <2>3, <2>4, <2>7, <2>8 DEF Owes, Revision, ButFor
<1>13. win' = win /\ Send(w, m) /\ touched' = [touched EXCEPT ![w] = v.fresh]
  BY <1>1, <1>9 DEF ServeSave
<1>14. Owes(w, win[w], m, v.fresh)'
  BY <1>1, <1>12, <1>13
<1> QED
  BY <1>5, <1>6, <1>13, <1>14, ServedOwes

LEMMA ServeMergeOwes ==
    ASSUME WInv, OwesInv, NEW w \in Clients, ServeMerge(w)
    PROVE  OwesInv'
<1>1. PICK v, q, t : v = win[w] /\ q = wire[w] /\ t = touched[w]
  OBVIOUS
<1>2. Linked(v, q) /\ Owes(w, v, q, t) /\ LogOK /\ q.kind = "merge"
  BY <1>1 DEF WInv, OwesInv, ServeMerge
<1>3. v.call \in {"quiet", "choose"} /\ v.revision \in 1..Revision /\ v.kept \in 1..Revision
  BY <1>2 DEF Linked, Owes
<1>4. PICK d : IsDoc(d) /\ Store(d, UserOf[w], w, "merged")
  <2>1. PICK only : Store(Merge(q.from, q.mine, Current, q.choose, only), UserOf[w], w, "merged")
    BY <1>1 DEF ServeMerge, MergeFrom
  <2> QED
    BY <2>1, MadeDocs
<1>5. UNCHANGED <<approval, deciding, cut>>
  BY DEF ServeMerge, MergeFrom
<1>6. GrownFor(w)
  BY <1>2, <1>4, StoreGrowsFor
<1>7. PICK m : m = [kind |-> "merged", doc |-> log'[Len(log')].doc, revision |-> Len(log')]
  OBVIOUS
<1>8. m.kind = "merged" /\ m.revision = Len(log') /\ m # NoWire
  BY <1>7 DEF NoWire
<1>9. /\ Len(log) \in Nat /\ Len(log') \in Nat /\ Len(log') >= Len(log)
  BY <1>2, <1>6 DEF LogOK, GrownFor, Revision
<1>10. Owes(w, v, m, v.fresh)'
  <2>1. /\ v.status \in {"saved", "pending", "saving", "failed", "conflict"}
        /\ v.seen \in 0..Len(log') /\ v.left \in 0..MaxQuiet /\ v.kept <= v.revision
        /\ v.seen >= v.revision
    BY <1>2, <1>3, <1>9 DEF Owes, Revision
  <2>2. /\ ~OnlyFrom(w, v.revision)'
        /\ v.over /\ v.kept # v.revision => ~OnlyFrom(w, v.kept)'
    BY <1>2, <1>3, <1>6, NotOnlyStays DEF Owes
  <2>3. ButFor(v.fresh, v.copy, v.sent)
    BY <1>2, <1>3 DEF Owes
  <2>4. PICK r : r = Len(log') /\ NoneFrom(w, r)'
    <3>1. PICK r : r = Len(log')
      OBVIOUS
    <3> QED
      BY <1>9, <3>1 DEF NoneFrom, Revision
  <2>5. NoneFrom(w, m.revision)' /\ m.revision >= v.revision
    BY <1>3, <1>8, <1>9, <2>4 DEF Revision
  <2> QED
    BY <1>3, <1>8, <2>1, <2>2, <2>3, <2>5 DEF Owes, Revision, ButFor
<1>11. win' = win /\ Send(w, m) /\ touched' = [touched EXCEPT ![w] = v.fresh]
  BY <1>1, <1>7 DEF ServeMerge
<1>12. Owes(w, win[w], m, v.fresh)'
  BY <1>1, <1>10, <1>11
<1> QED
  BY <1>5, <1>6, <1>11, <1>12, ServedOwes

LEMMA RefusedOwes ==
    ASSUME WInv, OwesInv, NEW w \in Clients, RefuseSave(w) \/ RefuseMerge(w)
    PROVE  OwesInv'
<1>1. PICK v, q, t : v = win[w] /\ q = wire[w] /\ t = touched[w]
  OBVIOUS
<1>2. Linked(v, q) /\ Owes(w, v, q, t) /\ LogOK
  BY <1>1 DEF WInv, OwesInv
<1>3. Put(w, v) /\ Calm /\ touched' = touched
  BY <1>1 DEF RefuseSave, RefuseMerge, Put, WInv
<1>4. CASE RefuseSave(w)
  <2>1. PICK m : m = [kind |-> "stale", revision |-> Revision]
    OBVIOUS
  <2>2. Send(w, m) /\ q.kind = "save" /\ ~Accepted(q.base, UserOf[w], w)
    BY <1>1, <1>4, <2>1 DEF RefuseSave
  <2>3. m.kind = "stale" /\ m.revision = Revision /\ m # NoWire
    BY <2>1 DEF NoWire
  <2>4. v.call = "save" /\ q.base = v.revision /\ v.revision \in 1..Revision
    BY <1>2, <2>2 DEF Linked, Owes
  <2>5. ~OnlyFrom(w, v.revision)
    <3>1. PICK b : b = v.revision /\ b \in 1..Revision /\ ~Accepted(b, UserOf[w], w)
      BY <2>2, <2>4
    <3>2. b # Revision /\ 0 < b /\ b < Revision
      BY <1>2, <3>1 DEF Accepted, LogOK, Revision
    <3>3. ~Own(b, UserOf[w], w) /\ w # NoClient
      BY <3>1, <3>2, ClientAssumption DEF Accepted
    <3> QED
      BY <3>1, <3>3 DEF Own, OnlyFrom
  <2>6. Revision >= v.revision
    BY <1>2, <2>4 DEF LogOK, Revision
  <2>7. Owes(w, v, m, t)
    BY <1>2, <2>3, <2>4, <2>5, <2>6 DEF Owes
  <2> QED
    BY <1>1, <1>3, <2>2, <2>7, CalmOwes
<1>5. CASE RefuseMerge(w)
  <2>1. PICK m : m = [kind |-> "clash"]
    OBVIOUS
  <2>2. Send(w, m) /\ q.kind = "merge"
    BY <1>1, <1>5, <2>1 DEF RefuseMerge
  <2>3. m.kind = "clash" /\ m # NoWire
    BY <2>1 DEF NoWire
  <2>4. v.call \in {"quiet", "choose"}
    BY <1>2, <2>2 DEF Owes
  <2>5. Owes(w, v, m, t)
    BY <1>2, <2>3, <2>4 DEF Owes
  <2> QED
    BY <1>1, <1>3, <2>2, <2>5, CalmOwes
<1> QED
  BY <1>4, <1>5
-----------------------------------------------------------------------------
LEMMA WInitOwes == WInit => OwesInv
<1> SUFFICES ASSUME WInit PROVE OwesInv
  OBVIOUS
<1>1. Revision = 1 /\ approval \in BOOLEAN /\ deciding = 0 /\ cut = {}
  BY DEF WInit, Init, Revision
<1>2. PICK d, v : d = Current /\ v = Opened(d)
  OBVIOUS
<1>3. /\ v.copy = d /\ v.kept = 1 /\ v.mixed = FALSE /\ v.revision = 1 /\ v.call = "none" /\ v.seen = 0
      /\ v.left = 0 /\ v.over = FALSE /\ v.fresh = {} /\ v.status = "saved"
  BY <1>2 DEF Opened
<1>4. ButForHeld({}, d, d)
  BY DEF ButForHeld
<1>5. 0 \in 0..MaxQuiet /\ 0 \in 0..1 /\ 1 <= 1
  BY MaxQuietAssumption
<1>6. \A w : Owes(w, v, NoWire, {})
  BY <1>1, <1>2, <1>3, <1>4, <1>5 DEF Owes, NoWire
<1>7. \A w \in Clients : win[w] = v /\ wire[w] = NoWire /\ touched[w] = {}
  BY <1>2 DEF WInit
<1>8. touched = [w \in Clients |-> touched[w]]
  BY DEF WInit
<1> QED
  BY <1>1, <1>6, <1>7, <1>8 DEF OwesInv

LEMMA WNextOwes == WInv /\ StorageOK /\ OwesInv /\ [WNext]_allVars => OwesInv'
<1> SUFFICES ASSUME WInv, StorageOK, OwesInv, [WNext]_allVars PROVE OwesInv'
  OBVIOUS
<1>1. CASE UNCHANGED allVars
  BY <1>1 DEF allVars, vars, windowVars, OwesInv, Owes, OnlyFrom, NoneFrom, ButForHeld, Current, Revision
<1>2. ASSUME NEW w \in Clients,
             EditSetting(w) \/ TakeOrder(w) \/ EditOrder(w)
      PROVE  OwesInv'
  BY <1>2, CommitOwes DEF EditSetting, TakeOrder, EditOrder
<1>3. ASSUME NEW w \in Clients, SaveServed(w) \/ MergeServed(w)
      PROVE  OwesInv'
  BY <1>3, ServeSaveOwes, ServeMergeOwes, RefusedOwes DEF SaveServed, MergeServed
<1>4. ASSUME NEW w \in Clients, SaveAnswered(w) \/ MergeAnswered(w)
      PROVE  OwesInv'
  BY <1>4, AnswerSavedOwes, AnswerStaleOwes, AnswerMergedOwes, AnswerClashOwes,
     AnswerChosenOwes DEF SaveAnswered, MergeAnswered
<1>5. ASSUME NEW w \in Clients,
             SaveNow(w) \/ NoAnswer(w) \/ KeepMine(w) \/ OpenLatest(w) \/ Reload(w)
      PROVE  OwesInv'
  BY <1>5, SaveNowOwes, NoAnswerOwes, KeepMineOwes, OpenLatestOwes, ReloadOwes
<1>6. ASSUME NEW w \in Clients, NEW choose \in Choices, MergeMine(w, choose)
      PROVE  OwesInv'
  BY <1>6, MergeMineOwes
<1> QED
  BY <1>1, <1>2, <1>3, <1>4, <1>5, <1>6 DEF WNext, WStep

LEMMA WindowsOwe == WSpec => [](Held /\ OwesInv)
<1>1. Held => WInv /\ StorageOK
  BY DEF Held
<1> QED
  BY <1>1, AlwaysHeld, WInitOwes, WNextOwes, PTL DEF WSpec

\* Type correctness of the windows: in particular a base, a revision and a
\* conflict are of revisions there are, and a window waits exactly when
\* something of its own is on the way (store.ts saveNow, mergeQuietly).
THEOREM WindowsType == WSpec => []WTypeOK
<1>1. Held /\ OwesInv => WTypeOK
  <2> SUFFICES ASSUME Held, OwesInv PROVE WTypeOK
    OBVIOUS
  <2>1. TypeOK
    BY DEF Held, WInv, OwesInv, LogOK, RequestsOK, TypeOK
  <2>2. \A w \in Clients : Linked(win[w], wire[w]) /\ Owes(w, win[w], wire[w], touched[w])
    BY DEF Held, WInv, OwesInv
  <2>3. \A w \in Clients : Kept(w).based \in 1..Revision /\ Kept(w).revision \in 1..Revision
    BY DEF Held, StorageOK, IsKept, Kept, Browsers
  <2> QED
    BY <2>1, <2>2, <2>3 DEF WTypeOK, Linked, Owes
<1> QED
  BY <1>1, WindowsOwe, PTL

\* A save of a window is taken on an earlier revision: it changes a record.
LEMMA CarriesStep ==
    ASSUME WInv, OwesInv, [WNext]_allVars, NEW x \in Clients,
           log' # log, last'.action = "saved", last'.client = x, last'.base < Revision,
           ~win[x].over, ~win[x].mixed, NEW k, At(After, k) # At(Current, k)
    PROVE  k \in touched[x]
<1>1. PICK w \in Clients : ServeSave(w)
  <2>1. ASSUME Calm PROVE FALSE
    BY <2>1 DEF Calm, serverVars
  <2>2. ASSUME NEW w \in Clients, ServeMerge(w) PROVE FALSE
    BY <2>2 DEF ServeMerge, MergeFrom, Serves
  <2>3. ASSUME NEW w \in Clients, ServeSave(w) PROVE \E y \in Clients : ServeSave(y)
    BY <2>3
  <2>4. ASSUME NEW w \in Clients, SaveServed(w) \/ MergeServed(w)
        PROVE  \E y \in Clients : ServeSave(y)
    BY <2>1, <2>2, <2>3, <2>4 DEF SaveServed, MergeServed, RefuseSave, RefuseMerge
  <2>5. ASSUME NEW w \in Clients,
               EditSetting(w) \/ TakeOrder(w) \/ EditOrder(w) \/ SaveNow(w) \/ NoAnswer(w)
        PROVE  FALSE
    BY <2>1, <2>5 DEF EditSetting, TakeOrder, EditOrder, Commit, SaveNow, NoAnswer
  <2>6. ASSUME NEW w \in Clients, SaveAnswered(w) \/ MergeAnswered(w)
        PROVE  FALSE
    BY <2>1, <2>6 DEF SaveAnswered, MergeAnswered, AnswerSaved, AnswerStale, AnswerMerged,
       AnswerClash, AnswerChosen
  <2>7. ASSUME NEW w \in Clients,
               KeepMine(w) \/ OpenLatest(w) \/ Reload(w)
               \/ \E choose \in Choices : MergeMine(w, choose)
        PROVE  FALSE
    BY <2>1, <2>7 DEF KeepMine, OpenLatest, Reload, MergeMine
  <2>8. WNext
    BY DEF allVars, vars
  <2> QED
    BY <2>4, <2>5, <2>6, <2>7, <2>8 DEF WNext, WStep
<1>2. PICK v, q, t : v = win[w] /\ q = wire[w] /\ t = touched[w]
  OBVIOUS
<1>3. Linked(v, q) /\ Owes(w, v, q, t) /\ LogOK
  BY <1>2 DEF WInv, OwesInv
<1>4. /\ q.kind = "save" /\ Accepted(q.base, UserOf[w], w)
      /\ Store(q.doc, UserOf[w], w, "saved") /\ last'.client = w /\ last'.base = q.base
  BY <1>1, <1>2 DEF ServeSave, Save, Serves
<1>5. /\ x = w /\ ~v.over /\ ~v.mixed /\ q.base = v.revision /\ q.doc = v.sent /\ IsDoc(q.doc)
      /\ v.call # "none" /\ v.fresh \subseteq t /\ ButFor(v.fresh, v.copy, v.sent)
  BY <1>2, <1>3, <1>4 DEF Linked, Owes
<1>6. OnlyFrom(w, v.revision)
  <2>1. PICK b : b = q.base
    OBVIOUS
  <2>2. b < Revision /\ Accepted(b, UserOf[w], w)
    BY <1>4, <2>1
  <2>3. Own(b, UserOf[w], w)
    BY <1>3, <2>2 DEF Accepted, LogOK, Revision
  <2> QED
    BY <1>5, <2>1, <2>3 DEF Own, OnlyFrom
<1>7. ButForHeld(t, v.copy, Current)
  BY <1>3, <1>5, <1>6 DEF Owes
<1>8. PICK d, u : d = q.doc /\ u = UserOf[w] /\ u \in Users
  BY UserOfAssumption
<1>9. Store(d, u, w, "saved") /\ IsDoc(d) /\ d = v.sent
  BY <1>4, <1>5, <1>8
<1>10. At(After, k) = At(d, k)
  BY <1>3, <1>8, <1>9, StoredRecord
<1>11. ~(approval /\ IsMaster(k))
  <2> SUFFICES ASSUME approval, IsMaster(k) PROVE FALSE
    OBVIOUS
  <2>1. log' # log => After = WithoutMaster(Current, d)
    BY <1>3, <1>8, <1>9, Stored
  <2>2. At(After, k) = At(Current, k)
    BY <2>1, WithoutMasterRecord
  <2> QED
    BY <2>2
<1>12. CASE At(v.copy, k) = At(v.sent, k)
  <2>1. At(v.copy, k) # At(Current, k)
    BY <1>9, <1>10, <1>12
  <2> QED
    BY <1>2, <1>5, <1>7, <1>11, <2>1, ButForHeldAt
<1>13. CASE At(v.copy, k) # At(v.sent, k)
  BY <1>2, <1>5, <1>13, ButForAt
<1> QED
  BY <1>12, <1>13

\* A save taken on an earlier revision, because only the window's own saves came
\* after it, undoes nothing those saves brought but what was edited since
\* (companies/store.py _own); other windows of its browser or not, as long as no
\* reload has given it what one of those put there.
THEOREM CarriesOwn == WSpec => CarriesItsOwn
<1>1. Held /\ OwesInv /\ [WNext]_allVars =>
        [\A w \in Clients :
          /\ log' # log /\ last'.action = "saved" /\ last'.client = w
          /\ last'.base < Revision /\ ~win[w].over /\ ~win[w].mixed
          => \A k \in DOMAIN Current \cup DOMAIN After :
                At(After, k) # At(Current, k) => k \in touched[w]]_allVars
  BY CarriesStep DEF Held
<1> QED
  BY <1>1, WindowsOwe, PTL DEF WSpec, CarriesItsOwn

-----------------------------------------------------------------------------
(* Where a content comes from. E holds, per window, the edits made in it: the  *)
(* record an edit was of, and the content it gave. An order's content may come  *)
(* to stand under another number by a merge, but only under a greater one.      *)

Edited(k) == k[1] \in {"setting", "order"}

HasAs(d, k, content) == k \in DOMAIN d /\ d[k] = content

\* Orders are numbered, and a content of one says who took and who last edited it.
Orderly(d) ==
    /\ IsDoc(d) /\ IsFiniteSet(DOMAIN d)
    /\ \A k \in DOMAIN d : k[1] = "order" =>
          /\ k[2] \in Nat /\ k = <<"order", k[2]>>
          /\ d[k] \in [taken : {d[k].taken}, text : {d[k].text}]

\* What bears a window's token was edited in it.
Known(E, d) ==
    \A w \in Clients, k \in DOMAIN d : Edited(k) /\ Mark(k, d[k]) \in Tokens(w) =>
        \E e \in E[w] : e.key[1] = k[1] /\ e.content = d[k]

\* No order has a content under a smaller number than it was edited under.
Upwards(E, d) ==
    \A w \in Clients : \A e \in E[w], k \in DOMAIN d :
        e.key[1] = "order" /\ k[1] = "order" /\ d[k] = e.content => e.key[2] <= k[2]

WellTold(E, d) == Orderly(d) /\ Known(E, d) /\ Upwards(E, d)

\* The edits of the window w, of which so many were made.
EditsOf(E, w, made) ==
    \A e \in E[w] :
        /\ Edited(e.key) /\ (e.key[1] = "order" => e.key[2] \in Nat)
        /\ \E i \in 1..made : Mark(e.key, e.content) = <<w, i>>

\* An edit of the record k that gave it this content, in a window of w's person.
HersIs(E, w, k, content) ==
    \E x \in Clients : /\ UserOf[x] = UserOf[w]
                       /\ \E e \in E[x] : e.key = k /\ e.content = content

\* What the window w has of a record is the company's as it was up to r, or an
\* edit of its person.
Seen(E, w, d, r) ==
    \A k \in DOMAIN d : \/ HersIs(E, w, k, d[k])
                        \/ \E n \in 1..r : HasAs(log[n].doc, k, d[k])

\* ... with what other windows put in its browser, whatever it says it is based on.
UpTo(v, r) == IF v.mixed THEN Revision ELSE r

\* What is edited in a window is brought to the company by its person.
Brought(E) ==
    \A w \in Clients : \A e \in E[w], n \in 1..Revision :
        HasAs(log[n].doc, e.key, e.content) =>
            \E j \in 1..n : log[j].user = UserOf[w] /\ HasAs(log[j].doc, e.key, e.content)

LogStory(E) == \A n \in 1..Revision : WellTold(E, log[n].doc)

\* What lies in the browsers.
KeptStory(E) ==
    \A w \in Clients : WellTold(E, Kept(w).copy) /\ Seen(E, w, Kept(w).copy, Revision)

\* The window w as v, with m on its wire.
WinStory(E, w, v, m) ==
    /\ v.made \in 0..MaxEdits[w] /\ EditsOf(E, w, v.made)
    /\ WellTold(E, v.copy) /\ Seen(E, w, v.copy, UpTo(v, v.kept))
    /\ v.call # "none" => WellTold(E, v.sent) /\ Seen(E, w, v.sent, UpTo(v, v.revision))
    /\ m.kind = "merge" => /\ m.mine = v.sent /\ v.call # "none"
                           /\ WellTold(E, m.from) /\ Seen(E, w, m.from, UpTo(v, v.revision))

Story(E) ==
    /\ E = [w \in Clients |-> E[w]]
    /\ LogStory(E) /\ Brought(E) /\ KeptStory(E)
    /\ \A w \in Clients : WinStory(E, w, win[w], wire[w])

StoryInv == \E E : Story(E)

LEMMA SeenLater ==
    ASSUME NEW E, NEW w, NEW d, NEW r \in Nat, NEW s \in Nat, r <= s, Seen(E, w, d, r)
    PROVE  Seen(E, w, d, s)
<1>1. 1..r \subseteq 1..s
  OBVIOUS
<1> QED
  BY <1>1 DEF Seen

\* A revision of the company, as a window has it.
LEMMA RevisionSeen ==
    ASSUME NEW E, NEW w, NEW n \in Nat, n > 0
    PROVE  Seen(E, w, log[n].doc, n)
<1>1. n \in 1..n
  OBVIOUS
<1> QED
  BY <1>1 DEF Seen, HasAs

LEMMA SeenUpTo ==
    ASSUME NEW E, NEW w, NEW d, NEW v, Revision \in Nat, NEW r \in 0..Revision, Seen(E, w, d, r)
    PROVE  Seen(E, w, d, UpTo(v, r))
<1>1. Seen(E, w, d, Revision)
  <2>1. PICK n \in Nat : n = Revision
    OBVIOUS
  <2>2. r \in Nat /\ r <= n
    BY <2>1
  <2>3. Seen(E, w, d, n)
    BY <2>1, <2>2, SeenLater
  <2> QED
    BY <2>1, <2>3
<1> QED
  BY <1>1 DEF UpTo

\* The windows of a browser are one person's.
LEMMA SeenBeside ==
    ASSUME NEW E, NEW w \in Clients, NEW x \in Clients, BrowserOf[x] = BrowserOf[w], NEW d, NEW r,
           Seen(E, w, d, r)
    PROVE  Seen(E, x, d, r)
<1>1. UserOf[x] = UserOf[w]
  BY BrowserOfAssumption
<1>2. \A k, content : HersIs(E, w, k, content) => HersIs(E, x, k, content)
  BY <1>1 DEF HersIs
<1> QED
  BY <1>2 DEF Seen

-----------------------------------------------------------------------------
(* A step of one window.                                                       *)

\* The log of before is kept.
LEMMA StorySeen ==
    ASSUME NEW E, NEW w, NEW d, NEW r, r \in 0..Revision, Seen(E, w, d, r), Grown
    PROVE  Seen(E, w, d, r)'
<1>1. \A n \in 1..r : n \in 1..Revision
  BY DEF Revision
<1>2. \A n \in 1..r : log'[n] = log[n]
  BY <1>1 DEF Grown
<1> QED
  BY <1>2 DEF Seen, HasAs, HersIs

LEMMA StorySeenUpTo ==
    ASSUME NEW E, NEW w, NEW d, NEW v, NEW r, r \in 0..Revision, Seen(E, w, d, UpTo(v, r)), Grown,
           Revision \in Nat
    PROVE  Seen(E, w, d, UpTo(v, r))'
<1>1. CASE ~v.mixed
  <2>1. Seen(E, w, d, r)'
    BY <1>1, StorySeen DEF UpTo
  <2> QED
    BY <1>1, <2>1 DEF UpTo
<1>2. CASE v.mixed
  <2>1. PICK n : n = Revision
    OBVIOUS
  <2>2. Seen(E, w, d, n) /\ n \in 0..Revision
    BY <1>2, <2>1 DEF UpTo
  <2>3. Seen(E, w, d, n)'
    BY <2>2, StorySeen
  <2>4. 1..n \subseteq 1..Len(log')
    BY <2>1 DEF Grown
  <2>5. Seen(E, w, d, Revision)'
    BY <2>3, <2>4 DEF Seen, Revision
  <2> QED
    BY <1>2, <2>5 DEF UpTo
<1> QED
  BY <1>1, <1>2

\* What a step puts in the browser for a copy is the window's, if it puts one.
PutsItsOwn(w, v) ==
    \/ storage' = storage
    \/ \E s : Stash(w, s) /\ s.copy \in {Kept(w).copy, v.copy}

LEMMA KeptStays ==
    ASSUME NEW E, LogOK, StorageOK, Grown, KeptStory(E), NEW w \in Clients, NEW v,
           WellTold(E, v.copy), NEW r \in 0..Revision, Seen(E, w, v.copy, UpTo(v, r)), PutsItsOwn(w, v)
    PROVE  KeptStory(E)'
<1>1. Revision \in Nat /\ Revision \in 0..Revision
  BY DEF LogOK, Revision
<1>2. \A d : WellTold(E, d)' <=> WellTold(E, d)
  BY DEF WellTold, Orderly, Known, Upwards
<1>3. \A x, d : Seen(E, x, d, Revision) => Seen(E, x, d, Revision)'
  <2> TAKE x, d
  <2> HAVE Seen(E, x, d, Revision)
  <2>1. PICK v1 : v1 = [mixed |-> TRUE]
    OBVIOUS
  <2>2. UpTo(v1, Revision) = Revision /\ UpTo(v1, Revision)' = Revision'
    BY <2>1 DEF UpTo
  <2>3. PICK n : n = Revision /\ n \in 0..Revision
    BY <1>1
  <2>4. Seen(E, x, d, UpTo(v1, n))
    BY <2>1 DEF UpTo
  <2>5. Seen(E, x, d, UpTo(v1, n))'
    BY <1>1, <2>3, <2>4, StorySeenUpTo
  <2> QED
    BY <2>1, <2>5 DEF UpTo
<1>4. PICK c : c = v.copy /\ WellTold(E, c) /\ Seen(E, w, c, Revision)
  <2>1. PICK c : c = v.copy
    OBVIOUS
  <2>2. CASE v.mixed
    BY <2>1, <2>2 DEF UpTo
  <2>3. CASE ~v.mixed
    <3>1. PICK n \in Nat : n = Revision
      BY <1>1
    <3>2. r \in Nat /\ r <= n /\ Seen(E, w, c, r)
      BY <2>1, <2>3, <3>1 DEF UpTo
    <3>3. Seen(E, w, c, n)
      BY <3>2, SeenLater
    <3> QED
      BY <2>1, <3>1, <3>3
  <2> QED
    BY <2>1, <2>2, <2>3
<1>5. ASSUME NEW x \in Clients
      PROVE  \E d : d = Kept(x)'.copy /\ WellTold(E, d) /\ Seen(E, x, d, Revision)
  <2>1. WellTold(E, Kept(x).copy) /\ Seen(E, x, Kept(x).copy, Revision)
    BY DEF KeptStory
  <2>2. CASE storage' = storage
    BY <2>1, <2>2 DEF Kept
  <2>3. ASSUME NEW s, Stash(w, s), s.copy \in {Kept(w).copy, v.copy}
        PROVE  \E d : d = Kept(x)'.copy /\ WellTold(E, d) /\ Seen(E, x, d, Revision)
    <3>1. CASE BrowserOf[x] # BrowserOf[w]
      BY <2>1, <2>3, <3>1 DEF Kept, Stash, StorageOK, Browsers
    <3>2. CASE BrowserOf[x] = BrowserOf[w]
      <4>1. Kept(x)' = s /\ Kept(x) = Kept(w)
        BY <2>3, <3>2 DEF Kept, Stash, StorageOK, Browsers
      <4>2. Seen(E, x, c, Revision)
        BY <1>4, <3>2, SeenBeside
      <4> QED
        BY <1>4, <2>1, <2>3, <4>1, <4>2
    <3> QED
      BY <3>1, <3>2
  <2> QED
    BY <2>2, <2>3 DEF PutsItsOwn
<1> QED
  BY <1>2, <1>3, <1>5 DEF KeptStory, Kept

LEMMA StoryStays ==
    ASSUME NEW E, NEW w, NEW v, NEW m, WinStory(E, w, v, m), Linked(v, m), Grown, Len(log) \in Nat
    PROVE  WinStory(E, w, v, m)'
<1>1. v.kept \in 0..Revision /\ v.revision \in 0..Revision /\ Revision \in Nat
  BY DEF Linked, Revision
<1>2. Seen(E, w, v.copy, UpTo(v, v.kept))'
  BY <1>1, StorySeenUpTo DEF WinStory
<1>3. v.call # "none" => Seen(E, w, v.sent, UpTo(v, v.revision))'
  BY <1>1, StorySeenUpTo DEF WinStory
<1>4. m.kind = "merge" => Seen(E, w, m.from, UpTo(v, v.revision))'
  BY <1>1, StorySeenUpTo DEF WinStory
<1>5. \A d : WellTold(E, d)' <=> WellTold(E, d)
  BY DEF WellTold, Orderly, Known, Upwards
<1>6. EditsOf(E, w, v.made)' <=> EditsOf(E, w, v.made)
  BY DEF EditsOf
<1> QED
  BY <1>2, <1>3, <1>4, <1>5, <1>6 DEF WinStory

LEMMA OneStory ==
    ASSUME NEW E, WInv, Story(E), NEW w \in Clients, NEW v, NEW m, Grown,
           WinStory(E, w, v, m)', LogStory(E)', Brought(E)', KeptStory(E)',
           win' = [win EXCEPT ![w] = v], wire' = [wire EXCEPT ![w] = m]
    PROVE  Story(E)'
<1>1. Len(log) \in Nat
  BY DEF WInv, LogOK
<1>2. \A x \in Clients : x # w => WinStory(E, x, win[x], wire[x])'
  <2> TAKE x \in Clients
  <2> HAVE x # w
  <2>1. PICK a, b : a = win[x] /\ b = wire[x]
    OBVIOUS
  <2>2. WinStory(E, x, a, b) /\ Linked(a, b)
    BY <2>1 DEF Story, WInv
  <2>3. WinStory(E, x, a, b)'
    BY <1>1, <2>2, StoryStays
  <2>4. win'[x] = a /\ wire'[x] = b
    BY <2>1 DEF WInv
  <2> QED
    BY <2>3, <2>4
<1>3. win'[w] = v /\ wire'[w] = m
  BY DEF WInv
<1>4. WinStory(E, w, win[w], wire[w])'
  BY <1>3
<1>5. E = [x \in Clients |-> E[x]]
  BY DEF Story
<1> QED
  BY <1>2, <1>4, <1>5 DEF Story

\* A step that leaves the server alone.
LEMMA CalmStory ==
    ASSUME NEW E, WInv, StorageOK, Story(E), NEW w \in Clients, NEW v, NEW m, WinStory(E, w, v, m),
           v.kept \in 1..Revision, Put(w, v), PutsItsOwn(w, v),
           Send(w, m) \/ (wire' = wire /\ m = wire[w]), Calm
    PROVE  Story(E)'
<1>1. log' = log /\ requests' = requests
  BY DEF Calm, serverVars
<1>2. Grown
  BY <1>1 DEF Grown, WInv, LogOK, RequestsOK, Revision
<1>3. \A d : WellTold(E, d)' <=> WellTold(E, d)
  BY DEF WellTold, Orderly, Known, Upwards
<1>4. \A d, r : Seen(E, w, d, r)' <=> Seen(E, w, d, r)
  BY <1>1 DEF Seen, HasAs, HersIs
<1>5. EditsOf(E, w, v.made)' <=> EditsOf(E, w, v.made)
  BY DEF EditsOf
<1>6. WinStory(E, w, v, m)'
  <2>1. \A a, r : UpTo(a, r)' = UpTo(a, r)
    BY <1>1 DEF UpTo, Revision
  <2> QED
    BY <1>3, <1>4, <1>5, <2>1 DEF WinStory
<1>7. LogStory(E)'
  BY <1>1, <1>3 DEF LogStory, Story, Revision
<1>8. Brought(E)'
  BY <1>1 DEF Brought, Story, Revision, HasAs
<1>9. wire' = [wire EXCEPT ![w] = m]
  BY DEF Send, WInv
<1>10. KeptStory(E)'
  <2>1. PICK r : r = v.kept /\ r \in 0..Revision /\ Seen(E, w, v.copy, UpTo(v, r))
    BY DEF WinStory
  <2>2. LogOK /\ KeptStory(E) /\ WellTold(E, v.copy)
    BY DEF WInv, Story, WinStory
  <2> QED
    BY <1>2, <2>1, <2>2, KeptStays
<1> QED
  BY <1>2, <1>6, <1>7, <1>8, <1>9, <1>10, OneStory DEF Put

-----------------------------------------------------------------------------
(* An edit is made.                                                            *)

\* Nothing bears the next token of a window yet.
LEMMA NotThereYet ==
    ASSUME NEW E, NEW w \in Clients, NEW made \in Nat, made < MaxEdits[w], EditsOf(E, w, made),
           NEW d, Known(E, d), NEW k, Edited(k), NEW content, Mark(k, content) = <<w, made + 1>>,
           NEW j \in DOMAIN d, j[1] = k[1]
    PROVE  d[j] # content
<1> SUFFICES ASSUME d[j] = content PROVE FALSE
  OBVIOUS
<1>1. Edited(j) /\ Mark(j, d[j]) = <<w, made + 1>>
  BY DEF Edited, Mark
<1>2. <<w, made + 1>> \in Tokens(w)
  <2>1. made + 1 \in 1..MaxEdits[w]
    BY MaxEditsAssumption
  <2> QED
    BY <2>1 DEF Tokens
<1>3. PICK e \in E[w] : e.key[1] = j[1] /\ e.content = d[j]
  BY <1>1, <1>2 DEF Known
<1>4. PICK i \in 1..made : Mark(e.key, e.content) = <<w, i>>
  BY DEF EditsOf
<1>5. Mark(e.key, e.content) = Mark(j, d[j])
  BY <1>3 DEF Mark
<1>6. <<w, i>> = <<w, made + 1>>
  BY <1>1, <1>4, <1>5
<1>7. i = made + 1
  BY <1>6
<1> QED
  BY <1>7

\* The edits with another one.
Plus(E, w, e) == [E EXCEPT ![w] = @ \cup {e}]

LEMMA PlusIs ==
    ASSUME NEW E, E = [x \in Clients |-> E[x]], NEW w \in Clients, NEW e
    PROVE  /\ Plus(E, w, e) = [x \in Clients |-> Plus(E, w, e)[x]]
           /\ Plus(E, w, e)[w] = E[w] \cup {e}
           /\ \A x \in Clients : E[x] \subseteq Plus(E, w, e)[x]
           /\ \A x \in Clients : x # w => Plus(E, w, e)[x] = E[x]
BY DEF Plus

\* An edit with a token of its own: nothing there was is part of it.
NewEdit(E, w, e, made) ==
    /\ E = [x \in Clients |-> E[x]]
    /\ made \in Nat /\ made < MaxEdits[w] /\ EditsOf(E, w, made)
    /\ Edited(e.key) /\ Mark(e.key, e.content) = <<w, made + 1>>
    /\ e.key[1] = "order" => e.key[2] \in Nat

LEMMA StillWellTold ==
    ASSUME NEW E, NEW w \in Clients, NEW e, NEW made, NewEdit(E, w, e, made),
           NEW d, WellTold(E, d)
    PROVE  WellTold(Plus(E, w, e), d)
<1>1. PICK F : F = Plus(E, w, e)
  OBVIOUS
<1>2. /\ F[w] = E[w] \cup {e}
      /\ \A x \in Clients : E[x] \subseteq F[x]
      /\ \A x \in Clients : x # w => F[x] = E[x]
  BY <1>1, PlusIs DEF NewEdit
<1>3. Known(F, d)
  BY <1>2 DEF Known, WellTold
<1>4. \A k \in DOMAIN d : k[1] = e.key[1] => d[k] # e.content
  BY NotThereYet DEF WellTold, NewEdit
<1>5. Upwards(F, d)
  BY <1>2, <1>4 DEF Upwards, WellTold
<1> QED
  BY <1>1, <1>3, <1>5 DEF WellTold

LEMMA StillSeen ==
    ASSUME NEW E, E = [x \in Clients |-> E[x]], NEW w \in Clients, NEW e, NEW x \in Clients, NEW d, NEW r,
           Seen(E, x, d, r)
    PROVE  Seen(Plus(E, w, e), x, d, r)
<1>1. \A y \in Clients : E[y] \subseteq Plus(E, w, e)[y]
  BY PlusIs
<1> QED
  BY <1>1 DEF Seen, HersIs

\* What the other windows tell stays, and what the company does.
LEMMA StillWinStory ==
    ASSUME NEW E, NEW w \in Clients, NEW e, NEW made, NewEdit(E, w, e, made),
           NEW x \in Clients, x # w, NEW v, NEW m, WinStory(E, x, v, m)
    PROVE  WinStory(Plus(E, w, e), x, v, m)
<1>1. PICK F : F = Plus(E, w, e)
  OBVIOUS
<1>2. F[x] = E[x]
  BY <1>1, PlusIs DEF NewEdit
<1>3. EditsOf(F, x, v.made)
  BY <1>2 DEF EditsOf, WinStory
<1>4. E = [y \in Clients |-> E[y]]
  BY DEF NewEdit
<1>5. \A d : WellTold(E, d) => WellTold(F, d)
  BY <1>1, StillWellTold
<1>6. \A d, r : Seen(E, x, d, r) => Seen(F, x, d, r)
  BY <1>1, <1>4, StillSeen
<1> QED
  BY <1>1, <1>3, <1>5, <1>6 DEF WinStory

LEMMA StillLogStory ==
    ASSUME NEW E, NEW w \in Clients, NEW e, NEW made, NewEdit(E, w, e, made), LogStory(E)
    PROVE  LogStory(Plus(E, w, e))
BY StillWellTold DEF LogStory

LEMMA StillBrought ==
    ASSUME NEW E, NEW w \in Clients, NEW e, NEW made, NewEdit(E, w, e, made), LogStory(E), Brought(E)
    PROVE  Brought(Plus(E, w, e))
<1>1. PICK F : F = Plus(E, w, e)
  OBVIOUS
<1>2. /\ F[w] = E[w] \cup {e}
      /\ \A x \in Clients : x # w => F[x] = E[x]
  BY <1>1, PlusIs DEF NewEdit
<1>3. \A n \in 1..Revision : ~HasAs(log[n].doc, e.key, e.content)
  <2> TAKE n \in 1..Revision
  <2>1. PICK d : d = log[n].doc
    OBVIOUS
  <2>2. Known(E, d)
    BY <2>1 DEF LogStory, WellTold
  <2>3. \A k \in DOMAIN d : k[1] = e.key[1] => d[k] # e.content
    BY <2>2, NotThereYet DEF NewEdit
  <2> QED
    BY <2>1, <2>3 DEF HasAs
<1>4. Brought(F)
  BY <1>2, <1>3 DEF Brought
<1> QED
  BY <1>1, <1>4

\* The working copy with the edit in it.
LEMMA WithWellTold ==
    ASSUME NEW E, NEW w \in Clients, NEW e, NEW made, NewEdit(E, w, e, made),
           NEW d, WellTold(E, d), \A x \in Clients : \E n \in Nat : EditsOf(E, x, n),
           e.key[1] = "order" => /\ e.key = <<"order", e.key[2]>>
                                 /\ e.content \in [taken : {e.content.taken}, text : {e.content.text}]
    PROVE  WellTold(Plus(E, w, e), With(d, e.key, e.content))
<1>1. PICK F, t : F = Plus(E, w, e) /\ t = With(d, e.key, e.content)
  OBVIOUS
<1>2. /\ F[w] = E[w] \cup {e}
      /\ \A x \in Clients : E[x] \subseteq F[x]
      /\ \A x \in Clients : x # w => F[x] = E[x]
  BY <1>1, PlusIs DEF NewEdit
<1>3. /\ IsDoc(t) /\ DOMAIN t = DOMAIN d \cup {e.key} /\ t[e.key] = e.content
      /\ \A k \in DOMAIN d : k # e.key => t[k] = d[k]
  BY <1>1 DEF With, IsDoc
<1>4. IsFiniteSet(DOMAIN t)
  BY <1>3, FS_AddElement DEF WellTold, Orderly
<1>5. Orderly(t)
  <2> SUFFICES ASSUME NEW k \in DOMAIN t, k[1] = "order"
               PROVE  /\ k[2] \in Nat /\ k = <<"order", k[2]>>
                      /\ t[k] \in [taken : {t[k].taken}, text : {t[k].text}]
    BY <1>3, <1>4 DEF Orderly
  <2>1. CASE k = e.key
    BY <1>3, <2>1 DEF NewEdit
  <2>2. CASE k # e.key
    <3>1. k \in DOMAIN d /\ t[k] = d[k]
      BY <1>3, <2>2
    <3> QED
      BY <3>1 DEF WellTold, Orderly
  <2> QED
    BY <2>1, <2>2
<1>6. Known(F, t)
  <2> SUFFICES ASSUME NEW x \in Clients, NEW k \in DOMAIN t, Edited(k), Mark(k, t[k]) \in Tokens(x)
               PROVE  \E f \in F[x] : f.key[1] = k[1] /\ f.content = t[k]
    BY DEF Known
  <2>1. CASE k = e.key
    <3>1. <<w, made + 1>> \in Tokens(x)
      BY <1>3, <2>1 DEF NewEdit
    <3>2. PICK i \in 1..MaxEdits[x] : <<w, made + 1>> = <<x, i>>
      BY <3>1 DEF Tokens
    <3>3. x = w
      BY <3>2
    <3> QED
      BY <1>2, <1>3, <2>1, <3>3
  <2>2. CASE k # e.key
    <3>1. k \in DOMAIN d /\ t[k] = d[k]
      BY <1>3, <2>2
    <3>2. PICK f \in E[x] : f.key[1] = k[1] /\ f.content = d[k]
      BY <3>1 DEF WellTold, Known
    <3> QED
      BY <1>2, <3>1, <3>2
  <2> QED
    BY <2>1, <2>2
<1>7. Upwards(F, t)
  <2> SUFFICES ASSUME NEW x \in Clients, NEW f \in F[x], NEW k \in DOMAIN t,
                      f.key[1] = "order", k[1] = "order", t[k] = f.content
               PROVE  f.key[2] <= k[2]
    BY DEF Upwards
  <2>1. CASE f \in E[x] /\ k # e.key
    <3>1. k \in DOMAIN d /\ t[k] = d[k]
      BY <1>3, <2>1
    <3> QED
      BY <2>1, <3>1 DEF WellTold, Upwards
  <2>2. CASE f \in E[x] /\ k = e.key
    <3>1. PICK n \in Nat : EditsOf(E, x, n) /\ (x = w => n = made)
      BY DEF NewEdit
    <3>2. PICK i \in 1..n : Mark(f.key, f.content) = <<x, i>>
      BY <2>2, <3>1 DEF EditsOf
    <3>3. Mark(f.key, f.content) = Mark(e.key, e.content)
      BY <1>3, <2>2 DEF Mark
    <3>4. <<x, i>> = <<w, made + 1>>
      BY <3>2, <3>3 DEF NewEdit
    <3>5. x = w /\ i = made + 1 /\ made \in Nat
      BY <3>4 DEF NewEdit
    <3> QED
      BY <3>1, <3>2, <3>5
  <2>3. CASE f \notin E[x]
    <3>1. x = w /\ f = e
      BY <1>2, <2>3
    <3>2. CASE k = e.key
      BY <3>1, <3>2 DEF NewEdit
    <3>3. CASE k # e.key
      <4>1. k \in DOMAIN d /\ d[k] = e.content
        BY <1>3, <3>1, <3>3
      <4>2. d[k] # e.content
        BY <4>1, <3>1, NotThereYet DEF NewEdit, WellTold
      <4> QED
        BY <4>1, <4>2
    <3> QED
      BY <3>2, <3>3
  <2> QED
    BY <2>1, <2>2, <2>3
<1> QED
  BY <1>1, <1>5, <1>6, <1>7 DEF WellTold

\* A step of a window that makes an edit.
LEMMA EditStory ==
    ASSUME NEW E, WInv, StorageOK, OwesInv, Story(E), NEW w \in Clients, NEW k, NEW content, Commit(w, k, content),
           Edited(k), Mark(k, content) = Token(w),
           k[1] = "order" => /\ k[2] \in Nat /\ k = <<"order", k[2]>>
                             /\ content \in [taken : {content.taken}, text : {content.text}]
    PROVE  StoryInv'
<1>1. PICK v, m : v = win[w] /\ m = wire[w]
  OBVIOUS
<1>2. Linked(v, m) /\ Owes(w, v, m, touched[w]) /\ WinStory(E, w, v, m)
  BY <1>1 DEF WInv, OwesInv, Story
<1>3. PICK v2 : v2 = [v EXCEPT !.copy = With(@, k, content), !.unsaved = TRUE, !.made = @ + 1,
                               !.kept = v.revision,
                               !.fresh = IF v.call = "none" THEN {} ELSE @ \cup {k},
                               !.status = IF @ \in {"conflict", "saving"} THEN @ ELSE "pending"]
  OBVIOUS
<1>4. Put(w, v2) /\ wire' = wire /\ Calm /\ v.made < MaxEdits[w]
  BY <1>1, <1>3 DEF Commit
<1>5. /\ v2.copy = With(v.copy, k, content) /\ v2.made = v.made + 1 /\ v2.kept = v.revision
      /\ v2.revision = v.revision /\ v2.call = v.call /\ v2.sent = v.sent /\ v2.mixed = v.mixed
  BY <1>2, <1>3 DEF Linked, IsWindow
<1>6. PICK e : e = [key |-> k, content |-> content]
  OBVIOUS
<1>7. PICK made : made = v.made /\ made \in Nat
  BY <1>2, MaxEditsAssumption DEF WinStory
<1>8. NewEdit(E, w, e, made)
  BY <1>1, <1>2, <1>4, <1>6, <1>7 DEF NewEdit, Story, WinStory, Token
<1>9. PICK F : F = Plus(E, w, e)
  OBVIOUS
<1>10. /\ F = [x \in Clients |-> F[x]] /\ F[w] = E[w] \cup {e}
       /\ \A x \in Clients : E[x] \subseteq F[x]
  BY <1>9, PlusIs DEF Story
<1>11. \A x \in Clients : \E n \in Nat : EditsOf(E, x, n)
  BY MaxEditsAssumption DEF Story, WinStory
<1>12. WellTold(F, With(v.copy, k, content))
  <2>1. PICK d : d = v.copy
    OBVIOUS
  <2>2. WellTold(E, d) /\ e.key = k /\ e.content = content
    BY <1>2, <1>6, <2>1 DEF WinStory
  <2>3. WellTold(F, With(d, e.key, e.content))
    BY <1>8, <1>9, <1>11, <2>2, WithWellTold
  <2> QED
    BY <2>1, <2>2, <2>3
<1>13. EditsOf(F, w, v.made + 1)
  <2>1. 1..v.made \subseteq 1..(v.made + 1) /\ v.made + 1 \in 1..(v.made + 1)
    BY <1>7
  <2>2. \A f \in E[w] :
           /\ Edited(f.key) /\ (f.key[1] = "order" => f.key[2] \in Nat)
           /\ \E i \in 1..(v.made + 1) : Mark(f.key, f.content) = <<w, i>>
    BY <1>2, <2>1 DEF WinStory, EditsOf
  <2>3. /\ Edited(e.key) /\ (e.key[1] = "order" => e.key[2] \in Nat)
        /\ Mark(e.key, e.content) = <<w, v.made + 1>>
    BY <1>7, <1>8 DEF NewEdit
  <2> QED
    BY <1>10, <2>1, <2>2, <2>3 DEF EditsOf
<1>14. Seen(F, w, With(v.copy, k, content), UpTo(v, v.revision))
  <2>1. PICK d, r : d = v.copy /\ r = UpTo(v, v.revision)
    OBVIOUS
  <2>2. Seen(E, w, d, UpTo(v, v.kept)) /\ v.kept \in Nat /\ v.revision \in Nat /\ v.kept <= v.revision
    BY <1>2, <2>1 DEF WinStory, Linked, Owes
  <2>3. Seen(E, w, d, r)
    BY <2>1, <2>2, SeenLater DEF UpTo
  <2>4. /\ DOMAIN With(d, k, content) = DOMAIN d \cup {k} /\ With(d, k, content)[k] = content
        /\ \A j \in DOMAIN d : j # k => With(d, k, content)[j] = d[j]
    BY DEF With
  <2>5. Seen(F, w, d, r)
    BY <1>9, <2>3, StillSeen DEF Story
  <2>6. HersIs(F, w, k, content)
    BY <1>6, <1>10 DEF HersIs
  <2>7. Seen(F, w, With(d, k, content), r)
    BY <2>4, <2>5, <2>6 DEF Seen
  <2> QED
    BY <2>1, <2>7
<1>15. \A d : WellTold(E, d) => WellTold(F, d)
  BY <1>8, <1>9, StillWellTold
<1>16. \A d, r : Seen(E, w, d, r) => Seen(F, w, d, r)
  BY <1>9, StillSeen DEF Story
<1>17. WinStory(F, w, v2, m)
  <2>1. v2.made \in 0..MaxEdits[w]
    BY <1>4, <1>5, <1>7, MaxEditsAssumption
  <2>2. \A r : UpTo(v2, r) = UpTo(v, r)
    BY <1>5 DEF UpTo
  <2> QED
    BY <1>2, <1>5, <1>12, <1>13, <1>14, <1>15, <1>16, <2>1, <2>2 DEF WinStory
<1>18. LogStory(F) /\ Brought(F)
  BY <1>8, <1>9, StillLogStory, StillBrought DEF Story
<1>19. \A x \in Clients : WinStory(F, x, win'[x], wire[x])
  <2> TAKE x \in Clients
  <2>1. CASE x = w
    BY <1>1, <1>4, <1>17, <2>1 DEF Put, WInv
  <2>2. CASE x # w
    <3>1. PICK a, b : a = win[x] /\ b = wire[x]
      OBVIOUS
    <3>2. WinStory(F, x, a, b)
      BY <1>8, <1>9, <2>2, <3>1, StillWinStory DEF Story
    <3>3. win'[x] = a
      BY <1>4, <2>2, <3>1 DEF Put, WInv
    <3> QED
      BY <3>1, <3>2, <3>3
  <2> QED
    BY <2>1, <2>2
<1>20. KeptStory(F)
  <2>1. ASSUME NEW x \in Clients PROVE WellTold(F, Kept(x).copy) /\ Seen(F, x, Kept(x).copy, Revision)
    <3>1. PICK d : d = Kept(x).copy /\ WellTold(E, d) /\ Seen(E, x, d, Revision)
      BY DEF Story, KeptStory
    <3>2. Seen(F, x, d, Revision)
      BY <1>9, <3>1, StillSeen DEF Story
    <3> QED
      BY <1>15, <3>1, <3>2
  <2> QED
    BY <2>1 DEF KeptStory
<1>21. PICK s : Stash(w, s) /\ s.copy = v2.copy
  <2>1. PICK t : t = Kept(w)
    OBVIOUS
  <2>2. IsKept(t)
    BY <2>1 DEF StorageOK, Kept, Browsers
  <2>3. PICK s : s = [t EXCEPT !.copy = With(v.copy, k, content), !.revision = v.revision,
                               !.dirty = TRUE]
    OBVIOUS
  <2>4. s.copy = With(v.copy, k, content)
    BY <2>2, <2>3 DEF IsKept
  <2>5. Stash(w, s)
    BY <1>1, <2>1, <2>3 DEF Commit
  <2> QED
    BY <1>5, <2>4, <2>5
<1>22. KeptStory(F)'
  <2>1. Grown
    BY <1>4, CalmGrows
  <2>2. PICK r : r = v2.kept /\ r \in 0..Revision /\ Seen(F, w, v2.copy, UpTo(v2, r))
    BY <1>2, <1>5, <1>17 DEF WinStory, Linked
  <2>3. LogOK /\ WellTold(F, v2.copy) /\ PutsItsOwn(w, v2)
    BY <1>17, <1>21 DEF WInv, WinStory, PutsItsOwn
  <2> QED
    BY <1>20, <2>1, <2>2, <2>3, KeptStays
<1>23. Story(F)'
  <2>1. log' = log
    BY <1>4 DEF Calm, serverVars
  <2>2. \A x \in Clients : \A a, b : WinStory(F, x, a, b)' <=> WinStory(F, x, a, b)
    BY <2>1 DEF WinStory, EditsOf, WellTold, Orderly, Known, Upwards, Seen, HasAs, HersIs, UpTo, Revision
  <2>3. LogStory(F)' /\ Brought(F)'
    BY <1>18, <2>1 DEF LogStory, Brought, WellTold, Orderly, Known, Upwards, HasAs, Revision
  <2>4. \A x \in Clients : WinStory(F, x, win[x], wire[x])'
    <3> TAKE x \in Clients
    <3>1. PICK a, b : a = win'[x] /\ b = wire[x]
      OBVIOUS
    <3>2. WinStory(F, x, a, b)'
      BY <1>19, <2>2, <3>1
    <3> QED
      BY <1>4, <3>1, <3>2
  <2> QED
    BY <1>10, <1>22, <2>3, <2>4 DEF Story
<1> QED
  BY <1>23 DEF StoryInv

LEMMA EditSettingStory ==
    ASSUME WInv, StorageOK, OwesInv, StoryInv, NEW w \in Clients, EditSetting(w)
    PROVE  StoryInv'
<1>1. PICK E : Story(E)
  BY DEF StoryInv
<1>2. PICK k, content : k[1] = "setting" /\ content = Token(w) /\ Commit(w, k, content)
  BY DEF EditSetting, OfKind
<1>3. Edited(k) /\ Mark(k, content) = Token(w)
  BY <1>2 DEF Edited, Mark
<1> QED
  BY <1>1, <1>2, <1>3, EditStory

\* The numbers of a document are finitely many.
LEMMA OrderlyNumbers ==
    ASSUME NEW d, Orderly(d)
    PROVE  IsFiniteSet(Numbers(d)) /\ Numbers(d) \subseteq Nat
<1>1. PICK K : K = OfKind(d, "order")
  OBVIOUS
<1>2. K \in SUBSET DOMAIN d /\ IsFiniteSet(DOMAIN d)
  BY <1>1 DEF OfKind, Orderly
<1>3. IsFiniteSet(K)
  BY <1>2, FS_Subset
<1>4. PICK f : f = [k \in K |-> k[2]]
  OBVIOUS
<1>5. Numbers(d) = {f[k] : k \in K}
  BY <1>1, <1>4 DEF Numbers
<1>6. IsFiniteSet({f[k] : k \in K})
  BY <1>3, ImageFinite
<1>7. \A k \in K : k[2] \in Nat
  BY <1>1 DEF OfKind, Orderly
<1> QED
  BY <1>1, <1>5, <1>6, <1>7 DEF Numbers

LEMMA TakeOrderStory ==
    ASSUME WInv, StorageOK, OwesInv, StoryInv, NEW w \in Clients, TakeOrder(w)
    PROVE  StoryInv'
<1>1. PICK E : Story(E)
  BY DEF StoryInv
<1>2. PICK d, S, t : d = win[w].copy /\ S = Numbers(d) /\ t = Token(w)
  OBVIOUS
<1>3. IsFiniteSet(S) /\ S \subseteq Nat
  <2>1. Orderly(d)
    BY <1>1, <1>2 DEF Story, WinStory, WellTold
  <2> QED
    BY <1>2, <2>1, OrderlyNumbers
<1>4. PICK n \in Nat : n = (IF S = {} THEN 1 ELSE Greatest(S) + 1)
  <2>1. S # {} => Greatest(S) \in Nat
    BY <1>3, GreatestIs
  <2> QED
    BY <2>1
<1>5. PICK k, content : k = <<"order", n>> /\ content = [taken |-> t, text |-> t]
  OBVIOUS
<1>6. Commit(w, k, content)
  BY <1>2, <1>4, <1>5 DEF TakeOrder
<1>7. /\ k[1] = "order" /\ k[2] = n /\ k = <<"order", k[2]>>
      /\ content \in [taken : {content.taken}, text : {content.text}]
  BY <1>5
<1>8. Edited(k) /\ Mark(k, content) = Token(w)
  BY <1>2, <1>5, <1>7 DEF Edited, Mark
<1> QED
  BY <1>1, <1>4, <1>6, <1>7, <1>8, EditStory

LEMMA EditOrderStory ==
    ASSUME WInv, StorageOK, OwesInv, StoryInv, NEW w \in Clients, EditOrder(w)
    PROVE  StoryInv'
<1>1. PICK E : Story(E)
  BY DEF StoryInv
<1>2. PICK d : d = win[w].copy
  OBVIOUS
<1>3. PICK k, content : /\ k \in DOMAIN d /\ k[1] = "order" /\ Commit(w, k, content)
                        /\ content = [d[k] EXCEPT !.text = Token(w)]
  BY <1>2 DEF EditOrder, OfKind
<1>4. /\ k[2] \in Nat /\ k = <<"order", k[2]>>
      /\ d[k] \in [taken : {d[k].taken}, text : {d[k].text}]
  BY <1>1, <1>2, <1>3 DEF Story, WinStory, WellTold, Orderly
<1>5. content.text = Token(w) /\ content \in [taken : {content.taken}, text : {content.text}]
  BY <1>3, <1>4
<1>6. Edited(k) /\ Mark(k, content) = Token(w)
  BY <1>3, <1>5 DEF Edited, Mark
<1> QED
  BY <1>1, <1>3, <1>4, <1>5, <1>6, EditStory

-----------------------------------------------------------------------------
(* The other steps of a window: each copy it has and each request it makes is  *)
(* of what it had.                                                             *)

\* What is known of a window before its step.
LEMMA StoryOf ==
    ASSUME NEW E, WInv, OwesInv, Story(E), NEW w \in Clients, NEW v, NEW m, v = win[w], m = wire[w]
    PROVE  /\ LogOK /\ Linked(v, m) /\ Owes(w, v, m, touched[w]) /\ WinStory(E, w, v, m) /\ LogStory(E)
           /\ v.revision \in 1..Revision /\ v.kept \in 1..Revision /\ v.kept <= v.revision
           /\ IsWindow(v) /\ Revision \in Nat
<1>1. LogOK /\ Linked(win[w], wire[w]) /\ Owes(w, win[w], wire[w], touched[w])
  BY DEF WInv, OwesInv
<1>2. WinStory(E, w, win[w], wire[w]) /\ LogStory(E)
  BY DEF Story
<1>3. Linked(v, m) /\ Owes(w, v, m, touched[w]) /\ WinStory(E, w, v, m)
  BY <1>1, <1>2
<1>4. Revision \in Nat
  BY <1>1 DEF LogOK, Revision
<1>5. v.revision \in 1..Revision /\ v.kept \in 1..Revision /\ IsWindow(v)
  BY <1>3 DEF Linked
<1>6. v.kept <= v.revision
  BY <1>3 DEF Owes
<1> QED
  BY <1>1, <1>2, <1>3, <1>4, <1>5, <1>6

LEMMA CopySeen ==
    ASSUME NEW E, NEW w, NEW v, NEW m, WinStory(E, w, v, m), v.kept \in Nat,
           NEW r \in Nat, v.kept <= r
    PROVE  Seen(E, w, v.copy, UpTo(v, r))
<1>1. PICK d, k : d = v.copy /\ k = v.kept /\ k \in Nat
  OBVIOUS
<1>2. Seen(E, w, d, UpTo(v, k))
  BY <1>1 DEF WinStory
<1>3. Seen(E, w, d, UpTo(v, r))
  BY <1>1, <1>2, SeenLater DEF UpTo
<1> QED
  BY <1>1, <1>3

\* A window that has the same copy from before puts nothing else in its browser.
LEMMA NothingPut ==
    ASSUME NEW w, NEW v, storage' = storage
    PROVE  PutsItsOwn(w, v)
BY DEF PutsItsOwn

\* A save is sent.
LEMMA SavingStory ==
    ASSUME NEW E, NEW w, NEW v, IsWindow(v), NEW m, WinStory(E, w, v, m),
           v.kept \in Nat, v.revision \in Nat, v.kept <= v.revision
    PROVE  WinStory(E, w, Saving(v), SaveRequest(v))
<1>1. PICK v2, m2 : v2 = Saving(v) /\ m2 = SaveRequest(v)
  OBVIOUS
<1>2. /\ v2.copy = v.copy /\ v2.kept = v.kept /\ v2.mixed = v.mixed /\ v2.revision = v.revision /\ v2.sent = v.copy
      /\ v2.made = v.made /\ v2.call = "save"
  BY <1>1 DEF Saving, IsWindow
<1>3. m2.kind = "save"
  BY <1>1 DEF SaveRequest
<1>4. Seen(E, w, v.copy, UpTo(v, v.revision))
  BY CopySeen
<1>5. WinStory(E, w, v2, m2)
  BY <1>2, <1>3, <1>4 DEF WinStory, UpTo
<1> QED
  BY <1>1, <1>5

LEMMA SaveNowStory ==
    ASSUME WInv, StorageOK, OwesInv, StoryInv, NEW w \in Clients, SaveNow(w)
    PROVE  StoryInv'
<1>1. PICK E : Story(E)
  BY DEF StoryInv
<1>2. PICK v, m : v = win[w] /\ m = wire[w]
  OBVIOUS
<1>3. /\ WinStory(E, w, v, m) /\ IsWindow(v)
      /\ v.kept \in Nat /\ v.revision \in Nat /\ v.kept <= v.revision
  BY <1>1, <1>2, StoryOf
<1>4. PICK v2, m2 : v2 = Saving(v) /\ m2 = SaveRequest(v)
  OBVIOUS
<1>5. WinStory(E, w, v2, m2)
  BY <1>3, <1>4, SavingStory
<1>6. Put(w, v2) /\ Send(w, m2) /\ Calm /\ PutsItsOwn(w, v2)
  BY <1>2, <1>4, NothingPut DEF SaveNow
<1>7. v2.kept = v.kept /\ v.kept \in 1..Revision
  BY <1>1, <1>2, <1>3, <1>4, StoryOf DEF Saving, IsWindow
<1>8. Story(E)'
  BY <1>1, <1>5, <1>6, <1>7, CalmStory
<1> QED
  BY <1>8 DEF StoryInv

LEMMA KeepMineStory ==
    ASSUME WInv, StorageOK, OwesInv, StoryInv, NEW w \in Clients, KeepMine(w)
    PROVE  StoryInv'
<1>1. PICK E : Story(E)
  BY DEF StoryInv
<1>2. PICK u, m : u = win[w] /\ m = wire[w]
  OBVIOUS
<1>3. /\ WinStory(E, w, u, m) /\ IsWindow(u) /\ Owes(w, u, m, touched[w]) /\ Linked(u, m)
      /\ u.kept \in Nat /\ u.revision \in Nat /\ u.kept <= u.revision
  BY <1>1, <1>2, StoryOf
<1>4. u.status = "conflict" /\ u.call = "none"
  BY <1>2 DEF KeepMine, Asked
<1>5. u.seen \in Nat /\ u.seen >= u.revision
  BY <1>3, <1>4 DEF Owes, Linked
<1>6. PICK v : v = [u EXCEPT !.revision = u.seen, !.over = TRUE, !.seen = 0]
  OBVIOUS
<1>7. IsWindow(v) /\ v.copy = u.copy /\ v.kept = u.kept /\ v.mixed = u.mixed /\ v.revision = u.seen /\ v.call = "none"
      /\ v.made = u.made
  BY <1>3, <1>4, <1>6 DEF IsWindow
<1>8. WinStory(E, w, v, NoWire)
  BY <1>3, <1>7 DEF WinStory, UpTo, NoWire
<1>9. PICK v2, m2 : v2 = Saving(v) /\ m2 = SaveRequest(v)
  OBVIOUS
<1>10. WinStory(E, w, v2, m2)
  <2>1. v.kept \in Nat /\ v.revision \in Nat /\ v.kept <= v.revision
    BY <1>3, <1>5, <1>7
  <2> QED
    BY <1>7, <1>8, <1>9, <2>1, SavingStory
<1>11. Put(w, v2) /\ Send(w, m2) /\ Calm /\ PutsItsOwn(w, v2)
  BY <1>2, <1>6, <1>9, NothingPut DEF KeepMine
<1>12. v2.kept = u.kept /\ u.kept \in 1..Revision
  BY <1>3, <1>7, <1>9 DEF Saving, IsWindow, Linked
<1>13. Story(E)'
  BY <1>1, <1>10, <1>11, <1>12, CalmStory
<1> QED
  BY <1>13 DEF StoryInv

\* A revision of the company taken as the copy.
LEMMA AdoptedStory ==
    ASSUME NEW E, NEW w \in Clients, NEW v, IsWindow(v), NEW m, WinStory(E, w, v, m), LogStory(E),
           LogOK, NEW r \in 1..Revision, NEW m2, m2.kind # "merge"
    PROVE  WinStory(E, w, Adopted(v, log[r].doc, r), m2)
<1>1. PICK v2, d : d = log[r].doc /\ v2 = Adopted(v, d, r)
  OBVIOUS
<1>2. v2.copy = d /\ v2.kept = r /\ v2.mixed = FALSE /\ v2.revision = r /\ v2.call = "none" /\ v2.made = v.made
  BY <1>1 DEF Adopted, Rest, IsWindow
<1>3. Seen(E, w, d, r)
  <2>1. r \in Nat /\ r > 0
    BY DEF LogOK, Revision
  <2> QED
    BY <1>1, <2>1, RevisionSeen
<1>4. WellTold(E, d)
  BY <1>1 DEF LogStory
<1>5. WinStory(E, w, v2, m2)
  BY <1>2, <1>3, <1>4 DEF WinStory, UpTo
<1> QED
  BY <1>1, <1>5

\* ... is what is put in the browser.
LEMMA AdoptedPut ==
    ASSUME NEW w, NEW v, IsWindow(v), NEW doc, NEW r, Stash(w, Unedited(doc, r))
    PROVE  PutsItsOwn(w, Adopted(v, doc, r)) /\ Adopted(v, doc, r).kept = r
<1>1. PICK v2, s : v2 = Adopted(v, doc, r) /\ s = Unedited(doc, r)
  OBVIOUS
<1>2. v2.copy = doc /\ v2.kept = r /\ s.copy = doc
  BY <1>1 DEF Adopted, Rest, IsWindow, Unedited
<1>3. PutsItsOwn(w, v2)
  BY <1>1, <1>2 DEF PutsItsOwn
<1> QED
  BY <1>1, <1>2, <1>3

LEMMA ConflictStory ==
    ASSUME NEW E, NEW w, NEW v, IsWindow(v), NEW m, WinStory(E, w, v, m)
    PROVE  WinStory(E, w, InConflict(v), NoWire) /\ InConflict(v).kept = v.kept
<1>1. PICK v2 : v2 = InConflict(v)
  OBVIOUS
<1>2. v2.copy = v.copy /\ v2.kept = v.kept /\ v2.mixed = v.mixed /\ v2.call = "none" /\ v2.made = v.made
  BY <1>1 DEF InConflict, Rest, IsWindow
<1>3. WinStory(E, w, v2, NoWire)
  BY <1>2 DEF WinStory, UpTo, NoWire
<1> QED
  BY <1>1, <1>2, <1>3

LEMMA AnswerSavedStory ==
    ASSUME WInv, StorageOK, OwesInv, StoryInv, NEW w \in Clients, AnswerSaved(w)
    PROVE  StoryInv'
<1>1. PICK E : Story(E)
  BY DEF StoryInv
<1>2. PICK v, a : v = win[w] /\ a = wire[w]
  OBVIOUS
<1>3. /\ WinStory(E, w, v, a) /\ LogStory(E) /\ LogOK /\ IsWindow(v) /\ Linked(v, a)
      /\ Owes(w, v, a, touched[w])
      /\ v.kept \in Nat /\ v.revision \in Nat /\ v.kept <= v.revision
  BY <1>1, <1>2, StoryOf
<1>4. v.call = "save" /\ a.kind = "saved"
  BY <1>2 DEF AnswerSaved
<1>5. /\ a.revision \in 1..Revision /\ a.doc = log[a.revision].doc
      /\ a.revision \in Nat /\ v.kept <= a.revision
  BY <1>3, <1>4 DEF Linked, Owes
<1>6. PICK moved : moved = [Rest(v) EXCEPT !.based = a.revision, !.revision = a.revision,
                                           !.status = "saved", !.over = FALSE]
  OBVIOUS
<1>7. IsWindow(moved) /\ moved.copy = v.copy /\ moved.kept = v.kept /\ moved.mixed = v.mixed /\ moved.call = "none"
      /\ moved.made = v.made
  BY <1>3, <1>6 DEF Rest, IsWindow
<1>8. PICK v2 : /\ Put(w, v2)
                /\ \/ /\ v2 = Adopted(v, log[a.revision].doc, a.revision)
                      /\ Stash(w, Unedited(log[a.revision].doc, a.revision))
                   \/ /\ v2 = [moved EXCEPT !.doc = a.doc]
                      /\ Stash(w, [Kept(w) EXCEPT !.doc = a.doc, !.based = a.revision])
                   \/ /\ v2 = [moved EXCEPT !.doc = v.sent, !.unsaved = v.fresh # {},
                                            !.kept = a.revision]
                      /\ Stash(w, [Kept(w) EXCEPT !.doc = v.sent, !.based = a.revision,
                                                 !.revision = a.revision, !.dirty = v.fresh # {}])
  BY <1>2, <1>5, <1>6 DEF AnswerSaved, Adopts
<1>9. Send(w, NoWire) /\ Calm
  BY DEF AnswerSaved
<1>10. NoWire.kind # "merge"
  BY DEF NoWire
<1>11. WinStory(E, w, v2, NoWire) /\ PutsItsOwn(w, v2) /\ v2.kept \in 1..Revision
  <2>1. CASE /\ v2 = Adopted(v, log[a.revision].doc, a.revision)
             /\ Stash(w, Unedited(log[a.revision].doc, a.revision))
    <3>1. PICK r, d : r = a.revision /\ d = log[a.revision].doc
      OBVIOUS
    <3>2. PutsItsOwn(w, v2) /\ v2.kept = r
      BY <1>3, <2>1, <3>1, AdoptedPut
    <3> QED
      BY <1>3, <1>5, <1>10, <2>1, <3>1, <3>2, AdoptedStory
  <2>2. ASSUME NEW s, Stash(w, s), s.copy = Kept(w).copy,
               \/ v2 = [moved EXCEPT !.doc = a.doc]
               \/ v2 = [moved EXCEPT !.doc = v.sent, !.unsaved = v.fresh # {}, !.kept = a.revision]
        PROVE  WinStory(E, w, v2, NoWire) /\ PutsItsOwn(w, v2) /\ v2.kept \in 1..Revision
    <3>1. /\ v2.copy = v.copy /\ v2.kept \in {v.kept, a.revision} /\ v2.mixed = v.mixed
          /\ v2.call = "none" /\ v2.made = v.made
      BY <1>7, <2>2 DEF IsWindow
    <3>2. Seen(E, w, v.copy, UpTo(v, v.kept)) /\ Seen(E, w, v.copy, UpTo(v, a.revision))
      BY <1>3, <1>5, CopySeen DEF WinStory
    <3>3. PutsItsOwn(w, v2)
      BY <2>2 DEF PutsItsOwn
    <3>4. v2.kept \in 1..Revision
      BY <1>3, <1>5, <3>1 DEF Linked
    <3> QED
      BY <1>3, <1>10, <3>1, <3>2, <3>3, <3>4 DEF WinStory, UpTo
  <2>3. PICK t, new : t = Kept(w) /\ new = (v.fresh # {})
    OBVIOUS
  <2>4. IsKept(t)
    BY <2>3 DEF StorageOK, Kept, Browsers
  <2>5. /\ [t EXCEPT !.doc = a.doc, !.based = a.revision].copy = t.copy
        /\ [t EXCEPT !.doc = v.sent, !.based = a.revision, !.revision = a.revision, !.dirty = new].copy
             = t.copy
    BY <2>4 DEF IsKept
  <2> QED
    BY <1>8, <2>1, <2>2, <2>3, <2>5
<1>12. Story(E)'
  BY <1>1, <1>8, <1>9, <1>11, CalmStory
<1> QED
  BY <1>12 DEF StoryInv

LEMMA AnswerStaleStory ==
    ASSUME WInv, StorageOK, OwesInv, StoryInv, NEW w \in Clients, AnswerStale(w)
    PROVE  StoryInv'
<1>1. PICK E : Story(E)
  BY DEF StoryInv
<1>2. PICK v, a : v = win[w] /\ a = wire[w]
  OBVIOUS
<1>3. /\ WinStory(E, w, v, a) /\ LogStory(E) /\ LogOK /\ IsWindow(v) /\ Linked(v, a)
      /\ v.revision \in 1..Revision /\ Revision \in Nat
  BY <1>1, <1>2, StoryOf
<1>4. v.call = "save" /\ a.kind = "stale"
  BY <1>2 DEF AnswerStale
<1>5. PICK d, s : d = log[v.revision].doc /\ s = v.sent
  OBVIOUS
<1>6. WhatToSend(v, s) = s
  <2>1. IsDoc(s)
    BY <1>3, <1>4, <1>5 DEF WinStory, WellTold, Orderly
  <2>2. v.doc = log[v.based].doc
    BY <1>3 DEF Linked
  <2> QED
    BY <2>1, <2>2, CopyIsSent
<1>7. PICK v2 : v2 = [v EXCEPT !.call = "quiet", !.seen = a.revision, !.left = MaxQuiet]
  OBVIOUS
<1>8. PICK m2 : m2 = [kind |-> "merge", from |-> log[v.revision].doc,
                      mine |-> WhatToSend(v, v.sent), base |-> v.revision, quiet |-> TRUE,
                      choose |-> <<>>]
  OBVIOUS
<1>9. Put(w, v2) /\ Send(w, m2) /\ Calm /\ PutsItsOwn(w, v2)
  BY <1>2, <1>7, <1>8, NothingPut DEF AnswerStale
<1>10. v2.copy = v.copy /\ v2.kept = v.kept /\ v2.mixed = v.mixed /\ v2.revision = v.revision /\ v2.call = "quiet"
       /\ v2.sent = v.sent /\ v2.made = v.made
  BY <1>3, <1>7 DEF IsWindow
<1>11. m2.from = d /\ m2.mine = v.sent
  BY <1>5, <1>6, <1>8
<1>12. WellTold(E, d) /\ Seen(E, w, d, UpTo(v, v.revision))
  <2>1. PICK r : r = v.revision /\ r \in 1..Revision
    BY <1>3
  <2>2. r \in Nat /\ r > 0 /\ r \in 0..Revision
    BY <1>3, <2>1
  <2>3. Seen(E, w, log[r].doc, r)
    BY <2>2, RevisionSeen
  <2>4. Seen(E, w, log[r].doc, UpTo(v, r))
    BY <1>3, <2>2, <2>3, SeenUpTo
  <2> QED
    BY <1>3, <1>5, <2>1, <2>4 DEF LogStory
<1>13. WinStory(E, w, v2, m2)
  BY <1>3, <1>4, <1>10, <1>11, <1>12 DEF WinStory, UpTo
<1>14. Story(E)'
  <2>1. v2.kept \in 1..Revision
    BY <1>3, <1>10 DEF Linked
  <2> QED
    BY <1>1, <1>9, <1>13, <2>1, CalmStory
<1> QED
  BY <1>14 DEF StoryInv

LEMMA AnswerMergedStory ==
    ASSUME WInv, StorageOK, OwesInv, StoryInv, NEW w \in Clients, AnswerMerged(w)
    PROVE  StoryInv'
<1>1. PICK E : Story(E)
  BY DEF StoryInv
<1>2. PICK v, a : v = win[w] /\ a = wire[w]
  OBVIOUS
<1>3. /\ WinStory(E, w, v, a) /\ LogStory(E) /\ LogOK /\ IsWindow(v) /\ Linked(v, a)
      /\ v.kept \in Nat /\ v.revision \in Nat /\ v.kept <= v.revision
  BY <1>1, <1>2, StoryOf
<1>4. v.call = "quiet" /\ a.kind = "merged" /\ Calm
  BY <1>2 DEF AnswerMerged
<1>5. a.revision \in 1..Revision /\ a.doc = log[a.revision].doc
  BY <1>3, <1>4 DEF Linked
<1>6. NoWire.kind # "merge"
  BY DEF NoWire
<1>7. PICK v2, m2 : /\ Put(w, v2) /\ Send(w, m2) /\ WinStory(E, w, v2, m2)
                    /\ PutsItsOwn(w, v2) /\ v2.kept \in 1..Revision
  <2>1. CASE /\ Adopts(w, a.doc, a.revision)
             /\ Send(w, NoWire)
    <3>1. PICK r, d, v2 : r = a.revision /\ d = log[r].doc /\ v2 = Adopted(v, d, r)
      OBVIOUS
    <3>2. WinStory(E, w, v2, NoWire)
      BY <1>3, <1>5, <1>6, <3>1, AdoptedStory
    <3>3. Put(w, v2) /\ Stash(w, Unedited(d, r))
      BY <1>2, <1>5, <2>1, <3>1 DEF Adopts
    <3>4. PutsItsOwn(w, v2) /\ v2.kept = r
      BY <1>3, <3>1, <3>3, AdoptedPut
    <3> QED
      BY <1>5, <2>1, <3>1, <3>2, <3>3, <3>4
  <2>2. CASE /\ UNCHANGED storage
             /\ Put(w, [v EXCEPT !.sent = v.copy, !.fresh = {}, !.left = @ - 1])
             /\ Send(w, [kind |-> "merge", from |-> v.sent, mine |-> v.copy,
                         base |-> v.revision, quiet |-> TRUE, choose |-> <<>>])
    <3>1. PICK v2, m2 : /\ v2 = [v EXCEPT !.sent = v.copy, !.fresh = {}, !.left = @ - 1]
                        /\ m2 = [kind |-> "merge", from |-> v.sent, mine |-> v.copy,
                                 base |-> v.revision, quiet |-> TRUE, choose |-> <<>>]
      OBVIOUS
    <3>2. v2.copy = v.copy /\ v2.kept = v.kept /\ v2.mixed = v.mixed /\ v2.revision = v.revision
          /\ v2.call = "quiet" /\ v2.sent = v.copy /\ v2.made = v.made
      BY <1>3, <1>4, <3>1 DEF IsWindow
    <3>3. m2.kind = "merge" /\ m2.from = v.sent /\ m2.mine = v.copy
      BY <3>1
    <3>4. Seen(E, w, v.copy, UpTo(v, v.revision))
      BY <1>3, CopySeen
    <3>5. WinStory(E, w, v2, m2)
      BY <1>3, <1>4, <3>2, <3>3, <3>4 DEF WinStory, UpTo
    <3>6. PutsItsOwn(w, v2) /\ v2.kept \in 1..Revision
      BY <1>3, <2>2, <3>2, NothingPut DEF Linked
    <3> QED
      BY <2>2, <3>1, <3>5, <3>6
  <2>3. CASE /\ UNCHANGED storage
             /\ Put(w, InConflict(v))
             /\ Send(w, NoWire)
    <3>1. PICK v2 : v2 = InConflict(v)
      OBVIOUS
    <3>2. WinStory(E, w, v2, NoWire) /\ v2.kept \in 1..Revision
      BY <1>3, <3>1, ConflictStory DEF Linked
    <3>3. PutsItsOwn(w, v2)
      BY <2>3, NothingPut
    <3> QED
      BY <2>3, <3>1, <3>2, <3>3
  <2> QED
    BY <1>2, <2>1, <2>2, <2>3 DEF AnswerMerged
<1>8. Story(E)'
  BY <1>1, <1>4, <1>7, CalmStory
<1> QED
  BY <1>8 DEF StoryInv

LEMMA AnswerClashStory ==
    ASSUME WInv, StorageOK, OwesInv, StoryInv, NEW w \in Clients, AnswerClash(w)
    PROVE  StoryInv'
<1>1. PICK E : Story(E)
  BY DEF StoryInv
<1>2. PICK v, m, v2 : v = win[w] /\ m = wire[w] /\ v2 = InConflict(v)
  OBVIOUS
<1>3. WinStory(E, w, v, m) /\ IsWindow(v) /\ v.kept \in 1..Revision
  BY <1>1, <1>2, StoryOf
<1>4. WinStory(E, w, v2, NoWire) /\ v2.kept \in 1..Revision
  BY <1>2, <1>3, ConflictStory
<1>5. Put(w, v2) /\ Send(w, NoWire) /\ Calm /\ PutsItsOwn(w, v2)
  BY <1>2, NothingPut DEF AnswerClash
<1>6. Story(E)'
  BY <1>1, <1>4, <1>5, CalmStory
<1> QED
  BY <1>6 DEF StoryInv

LEMMA NoAnswerStory ==
    ASSUME WInv, StorageOK, OwesInv, StoryInv, NEW w \in Clients, NoAnswer(w)
    PROVE  StoryInv'
<1>1. PICK E : Story(E)
  BY DEF StoryInv
<1>2. PICK v, m : v = win[w] /\ m = wire[w]
  OBVIOUS
<1>3. WinStory(E, w, v, m) /\ IsWindow(v) /\ v.kept \in 1..Revision
  BY <1>1, <1>2, StoryOf
<1>4. PICK v2 : v2 = IF v.call = "save" THEN [Rest(v) EXCEPT !.status = "failed"]
                     ELSE InConflict(v)
  OBVIOUS
<1>5. Put(w, v2) /\ Send(w, NoWire) /\ Calm /\ PutsItsOwn(w, v2)
  BY <1>2, <1>4, NothingPut DEF NoAnswer
<1>6. v2.copy = v.copy /\ v2.kept = v.kept /\ v2.mixed = v.mixed /\ v2.call = "none" /\ v2.made = v.made
  BY <1>3, <1>4 DEF InConflict, Rest, IsWindow
<1>7. WinStory(E, w, v2, NoWire) /\ v2.kept \in 1..Revision
  BY <1>3, <1>6 DEF WinStory, UpTo, NoWire
<1>8. Story(E)'
  BY <1>1, <1>5, <1>7, CalmStory
<1> QED
  BY <1>8 DEF StoryInv

LEMMA MergeMineStory ==
    ASSUME WInv, StorageOK, OwesInv, StoryInv, NEW w \in Clients, NEW choose, MergeMine(w, choose)
    PROVE  StoryInv'
<1>1. PICK E : Story(E)
  BY DEF StoryInv
<1>2. PICK v, m : v = win[w] /\ m = wire[w]
  OBVIOUS
<1>3. /\ WinStory(E, w, v, m) /\ LogStory(E) /\ LogOK /\ IsWindow(v) /\ Linked(v, m)
      /\ v.revision \in 1..Revision /\ Revision \in Nat
      /\ v.kept \in Nat /\ v.revision \in Nat /\ v.kept <= v.revision
  BY <1>1, <1>2, StoryOf
<1>4. PICK d, s : d = log[v.revision].doc /\ s = v.copy
  OBVIOUS
<1>5. WhatToSend(v, s) = s
  <2>1. IsDoc(s) /\ v.doc = log[v.based].doc
    BY <1>3, <1>4 DEF Linked
  <2> QED
    BY <2>1, CopyIsSent
<1>6. PICK v2 : v2 = [v EXCEPT !.call = "choose", !.sent = v.copy, !.fresh = {}]
  OBVIOUS
<1>7. PICK m2 : m2 = [kind |-> "merge", from |-> log[v.revision].doc,
                      mine |-> WhatToSend(v, v.copy), base |-> v.revision, quiet |-> FALSE,
                      choose |-> choose]
  OBVIOUS
<1>8. Put(w, v2) /\ Send(w, m2) /\ Calm /\ PutsItsOwn(w, v2)
  BY <1>2, <1>6, <1>7, NothingPut DEF MergeMine
<1>9. v2.copy = v.copy /\ v2.kept = v.kept /\ v2.mixed = v.mixed /\ v2.revision = v.revision /\ v2.call = "choose"
      /\ v2.sent = v.copy /\ v2.made = v.made
  BY <1>3, <1>6 DEF IsWindow
<1>10. m2.from = d /\ m2.mine = v.copy
  BY <1>4, <1>5, <1>7
<1>11. WellTold(E, d) /\ Seen(E, w, d, UpTo(v, v.revision))
  <2>1. PICK r : r = v.revision /\ r \in 1..Revision
    BY <1>3
  <2>2. r \in Nat /\ r > 0 /\ r \in 0..Revision
    BY <1>3, <2>1
  <2>3. Seen(E, w, log[r].doc, r)
    BY <2>2, RevisionSeen
  <2>4. Seen(E, w, log[r].doc, UpTo(v, r))
    BY <1>3, <2>2, <2>3, SeenUpTo
  <2> QED
    BY <1>3, <1>4, <2>1, <2>4 DEF LogStory
<1>12. Seen(E, w, v.copy, UpTo(v, v.revision))
  BY <1>3, CopySeen
<1>13. WinStory(E, w, v2, m2)
  BY <1>3, <1>9, <1>10, <1>11, <1>12 DEF WinStory, UpTo
<1>14. Story(E)'
  <2>1. v2.kept \in 1..Revision
    BY <1>3, <1>9 DEF Linked
  <2> QED
    BY <1>1, <1>8, <1>13, <2>1, CalmStory
<1> QED
  BY <1>14 DEF StoryInv

LEMMA AnswerChosenStory ==
    ASSUME WInv, StorageOK, OwesInv, StoryInv, NEW w \in Clients, AnswerChosen(w)
    PROVE  StoryInv'
<1>1. PICK E : Story(E)
  BY DEF StoryInv
<1>2. PICK v, a : v = win[w] /\ a = wire[w]
  OBVIOUS
<1>3. /\ WinStory(E, w, v, a) /\ LogStory(E) /\ LogOK /\ IsWindow(v) /\ Linked(v, a)
  BY <1>1, <1>2, StoryOf
<1>4. v.call = "choose" /\ a.kind = "merged"
  BY <1>2 DEF AnswerChosen
<1>5. a.revision \in 1..Revision /\ a.doc = log[a.revision].doc
  BY <1>3, <1>4 DEF Linked
<1>6. PICK r, d : r = a.revision /\ d = log[r].doc
  OBVIOUS
<1>7. PICK v2 : /\ Put(w, v2) /\ Send(w, NoWire) /\ Calm
                /\ \/ v2 = Adopted(v, d, r) /\ Stash(w, Unedited(d, r))
                   \/ v2 = InConflict(v) /\ storage' = storage
  BY <1>2, <1>5, <1>6 DEF AnswerChosen, Adopts
<1>8. NoWire.kind # "merge"
  BY DEF NoWire
<1>9. WinStory(E, w, v2, NoWire) /\ PutsItsOwn(w, v2) /\ v2.kept \in 1..Revision
  <2>1. CASE v2 = Adopted(v, d, r) /\ Stash(w, Unedited(d, r))
    <3>1. PutsItsOwn(w, v2) /\ v2.kept = r
      BY <1>3, <2>1, AdoptedPut
    <3> QED
      BY <1>3, <1>5, <1>6, <1>8, <2>1, <3>1, AdoptedStory
  <2>2. CASE v2 = InConflict(v) /\ storage' = storage
    BY <1>3, <2>2, ConflictStory, NothingPut DEF Linked
  <2> QED
    BY <1>7, <2>1, <2>2
<1>10. Story(E)'
  BY <1>1, <1>7, <1>9, CalmStory
<1> QED
  BY <1>10 DEF StoryInv

LEMMA OpenLatestStory ==
    ASSUME WInv, StorageOK, OwesInv, StoryInv, NEW w \in Clients, OpenLatest(w)
    PROVE  StoryInv'
<1>1. PICK E : Story(E)
  BY DEF StoryInv
<1>2. PICK v, m : v = win[w] /\ m = wire[w]
  OBVIOUS
<1>3. WinStory(E, w, v, m) /\ LogStory(E) /\ LogOK /\ IsWindow(v) /\ Owes(w, v, m, touched[w])
  BY <1>1, <1>2, StoryOf
<1>4. PICK r : r = Revision /\ r \in 1..Revision
  BY <1>3 DEF LogOK, Revision
<1>5. m.kind # "merge"
  BY <1>2, <1>3 DEF OpenLatest, Owes, NoWire
<1>6. PICK v2 : v2 = Adopted(v, log[r].doc, r)
  OBVIOUS
<1>7. WinStory(E, w, v2, m)
  BY <1>3, <1>4, <1>5, <1>6, AdoptedStory
<1>8. Put(w, v2) /\ wire' = wire /\ Calm /\ Stash(w, Unedited(log[r].doc, r))
  BY <1>2, <1>4, <1>6 DEF OpenLatest, Adopts, Current
<1>9. Story(E)'
  <2>1. PICK d : d = log[r].doc
    OBVIOUS
  <2>2. PutsItsOwn(w, v2) /\ v2.kept = r
    BY <1>3, <1>6, <1>8, <2>1, AdoptedPut
  <2> QED
    BY <1>1, <1>2, <1>4, <1>7, <1>8, <2>2, CalmStory
<1> QED
  BY <1>9 DEF StoryInv

LEMMA ReloadStory ==
    ASSUME WInv, StorageOK, OwesInv, StoryInv, NEW w \in Clients, Reload(w)
    PROVE  StoryInv'
<1>1. PICK E : Story(E)
  BY DEF StoryInv
<1>2. PICK v, m, s : v = win[w] /\ m = wire[w] /\ s = Kept(w)
  OBVIOUS
<1>3. WinStory(E, w, v, m) /\ IsWindow(v)
  BY <1>1, <1>2, StoryOf
<1>4. s.revision \in 1..Revision /\ WellTold(E, s.copy) /\ Seen(E, w, s.copy, Revision)
  BY <1>1, <1>2 DEF StorageOK, IsKept, Kept, Browsers, Story, KeptStory
<1>5. PICK v2 : v2 = Restored(v, s)
  OBVIOUS
<1>6. Put(w, v2) /\ Send(w, NoWire) /\ Calm /\ PutsItsOwn(w, v2)
  BY <1>2, <1>5, NothingPut DEF Reload
<1>7. /\ v2.copy = s.copy /\ v2.kept = s.revision /\ v2.call = "none" /\ v2.made = v.made
      /\ v2.mixed \in BOOLEAN /\ (~v2.mixed => ~v.mixed /\ s = ItsOwn(v))
  BY <1>3, <1>5 DEF Restored, Rest, IsWindow
<1>8. Seen(E, w, v2.copy, UpTo(v2, v2.kept))
  <2>1. CASE v2.mixed
    BY <1>4, <1>7, <2>1 DEF UpTo
  <2>2. CASE ~v2.mixed
    <3>1. ~v.mixed /\ s.copy = v.copy /\ s.revision = v.kept
      BY <1>7, <2>2 DEF ItsOwn
    <3> QED
      BY <1>3, <1>7, <2>2, <3>1 DEF WinStory, UpTo
  <2> QED
    BY <2>1, <2>2
<1>9. WinStory(E, w, v2, NoWire)
  BY <1>3, <1>4, <1>7, <1>8 DEF WinStory, NoWire
<1>10. Story(E)'
  BY <1>1, <1>4, <1>6, <1>7, <1>9, CalmStory
<1> QED
  BY <1>10 DEF StoryInv

-----------------------------------------------------------------------------
(* What the server makes of two documents.                                     *)

\* What t has of an edit, c has or m has, or m has it under a smaller number.
DrawnFrom(t, c, m) ==
    /\ IsDoc(t) /\ IsFiniteSet(DOMAIN t)
    /\ \A k \in DOMAIN t : Edited(k) =>
          \/ HasAs(c, k, t[k])
          \/ HasAs(m, k, t[k])
          \/ \E p, q \in Nat : p < q /\ k = <<"order", q>> /\ HasAs(m, <<"order", p>>, t[k])

\* Renumbering moves an order to a greater number, and its content stays.
LEMMA RenumberedDrawn ==
    ASSUME NEW b, NEW m, Orderly(m), NEW c, Orderly(c)
    PROVE  DrawnFrom(Renumbered(b, m, c), c, m)
<1>1. PICK r : r = Renumbered(b, m, c)
  OBVIOUS
<1>2. PICK S, M : S = Numbers(m) \cup Numbers(c) /\ M = MovedOrders(b, m, c)
  OBVIOUS
<1>3. PlacedApart(S, M)
  <2>1. IsFiniteSet(Numbers(m)) /\ IsFiniteSet(Numbers(c)) /\ S \subseteq Nat
    BY <1>2, OrderlyNumbers
  <2>2. IsFiniteSet(S)
    BY <1>2, <2>1, FS_Union
  <2>3. M \subseteq S
    BY <1>2 DEF MovedOrders
  <2> QED
    BY <2>1, <2>2, <2>3, PlacesApart
<1>4. \A n : NewNumber(n, b, m, c) = Placed(n, S, M)
  BY <1>2 DEF NewNumber, Placed
<1>5. PICK f : f = [j \in DOMAIN m |-> NewKey(j, b, m, c)]
  OBVIOUS
<1>6. DOMAIN r = {f[j] : j \in DOMAIN m}
  BY <1>1, <1>5 DEF Renumbered
<1>7. IsFiniteSet(DOMAIN r)
  BY <1>6, ImageFinite DEF Orderly
<1>8. IsDoc(r)
  BY <1>1 DEF IsDoc, Renumbered
<1>9. ASSUME NEW k \in DOMAIN r, Edited(k)
      PROVE  \/ HasAs(c, k, r[k])
             \/ HasAs(m, k, r[k])
             \/ \E p, q \in Nat : p < q /\ k = <<"order", q>> /\ HasAs(m, <<"order", p>>, r[k])
  <2>1. PICK j : j = CHOOSE i \in DOMAIN m : NewKey(i, b, m, c) = k
    OBVIOUS
  <2>2. r[k] = Follow(j, m[j], b, m, c)
    BY <1>1, <2>1 DEF Renumbered
  <2>3. j \in DOMAIN m /\ NewKey(j, b, m, c) = k
    BY <1>1, <2>1 DEF Renumbered
  <2>4. k[1] = j[1]
    BY <2>3 DEF NewKey
  <2>5. r[k] = m[j]
    BY <1>9, <2>2, <2>4 DEF Follow, Edited
  <2>6. CASE j[1] # "order"
    <3>1. k = j
      BY <1>9, <2>3, <2>4, <2>6, OtherGoes DEF Edited
    <3> QED
      BY <2>3, <2>5, <3>1 DEF HasAs
  <2>7. CASE j[1] = "order"
    <3>1. PICK n \in Nat : n = j[2] /\ j = <<"order", n>>
      BY <2>3, <2>7 DEF Orderly
    <3>2. PICK q : q = Placed(n, S, M)
      OBVIOUS
    <3>3. k = <<"order", q>>
      BY <1>4, <2>3, <3>1, <3>2, OrderGoes
    <3>4. n \in S
      BY <1>2, <2>3, <2>7, <3>1 DEF Numbers, OfKind
    <3>5. q \in Nat /\ (q = n \/ n < q)
      BY <1>3, <3>2, <3>4 DEF PlacedApart
    <3> QED
      BY <2>3, <2>5, <3>1, <3>3, <3>5 DEF HasAs
  <2> QED
    BY <2>6, <2>7
<1> QED
  BY <1>1, <1>7, <1>8, <1>9 DEF DrawnFrom

LEMMA MergeDrawn ==
    ASSUME NEW b, NEW m, Orderly(m), NEW c, Orderly(c), NEW x, NEW p
    PROVE  DrawnFrom(Merge(b, m, c, x, p), c, m)
<1>1. PICK r, t : r = Renumbered(b, m, c) /\ t = Merge(b, m, c, x, p)
  OBVIOUS
<1>2. DrawnFrom(r, c, m)
  BY <1>1, RenumberedDrawn
<1>3. IsDoc(t)
  BY <1>1, MadeDocs
<1>4. DOMAIN t \in SUBSET (DOMAIN r \cup DOMAIN c)
  BY <1>1 DEF Merge
<1>5. IsFiniteSet(DOMAIN r \cup DOMAIN c)
  BY <1>2, FS_Union DEF DrawnFrom, Orderly
<1>6. IsFiniteSet(DOMAIN t)
  BY <1>4, <1>5, FS_Subset
<1>7. ASSUME NEW k \in DOMAIN t PROVE HasAs(r, k, t[k]) \/ HasAs(c, k, t[k])
  <2>1. At(t, k) = t[k]
    BY DEF At
  <2>2. At(t, k) = Picked(k, b, r, c, x, p)
    BY <1>1, MergedAt
  <2>3. Picked(k, b, r, c, x, p) \in {At(r, k), At(c, k)}
    BY PickedIs
  <2>4. Picked(k, b, r, c, x, p) # Absent
    BY <1>1 DEF Merge
  <2> QED
    BY <2>1, <2>2, <2>3, <2>4 DEF At, HasAs
<1>8. ASSUME NEW k \in DOMAIN t, Edited(k)
      PROVE  \/ HasAs(c, k, t[k])
             \/ HasAs(m, k, t[k])
             \/ \E i, j \in Nat : i < j /\ k = <<"order", j>> /\ HasAs(m, <<"order", i>>, t[k])
  BY <1>2, <1>7, <1>8 DEF HasAs, DrawnFrom
<1> QED
  BY <1>1, <1>3, <1>6, <1>8 DEF DrawnFrom

LEMMA WithoutMasterDrawn ==
    ASSUME NEW t, NEW c, NEW m, DrawnFrom(t, c, m), IsFiniteSet(DOMAIN c)
    PROVE  DrawnFrom(WithoutMaster(c, t), c, m)
<1>1. PICK s : s = WithoutMaster(c, t)
  OBVIOUS
<1>2. IsDoc(s)
  BY <1>1, MadeDocs
<1>3. DOMAIN s \in SUBSET (DOMAIN t \cup DOMAIN c)
  BY <1>1 DEF WithoutMaster
<1>4. IsFiniteSet(DOMAIN t \cup DOMAIN c)
  BY FS_Union DEF DrawnFrom
<1>5. IsFiniteSet(DOMAIN s)
  BY <1>3, <1>4, FS_Subset
<1>6. \A k \in DOMAIN s : HasAs(t, k, s[k]) \/ HasAs(c, k, s[k])
  BY <1>1 DEF WithoutMaster, HasAs
<1>7. ASSUME NEW k \in DOMAIN s, Edited(k)
      PROVE  \/ HasAs(c, k, s[k])
             \/ HasAs(m, k, s[k])
             \/ \E i, j \in Nat : i < j /\ k = <<"order", j>> /\ HasAs(m, <<"order", i>>, s[k])
  BY <1>6, <1>7 DEF HasAs, DrawnFrom
<1> QED
  BY <1>1, <1>2, <1>5, <1>7 DEF DrawnFrom

\* What is drawn from what is well told is.
LEMMA DrawnWellTold ==
    ASSUME NEW E, \A x \in Clients : \E n \in Nat : EditsOf(E, x, n),
           NEW t, NEW c, NEW m, DrawnFrom(t, c, m), WellTold(E, c), WellTold(E, m)
    PROVE  WellTold(E, t)
<1>1. Orderly(t)
  <2> SUFFICES ASSUME NEW k \in DOMAIN t, k[1] = "order"
               PROVE  /\ k[2] \in Nat /\ k = <<"order", k[2]>>
                      /\ t[k] \in [taken : {t[k].taken}, text : {t[k].text}]
    BY DEF Orderly, DrawnFrom
  <2>1. ASSUME HasAs(c, k, t[k]) \/ HasAs(m, k, t[k])
        PROVE  /\ k[2] \in Nat /\ k = <<"order", k[2]>>
               /\ t[k] \in [taken : {t[k].taken}, text : {t[k].text}]
    BY <2>1 DEF HasAs, WellTold, Orderly
  <2>2. ASSUME NEW p \in Nat, NEW q \in Nat, k = <<"order", q>>, HasAs(m, <<"order", p>>, t[k])
        PROVE  /\ k[2] \in Nat /\ k = <<"order", k[2]>>
               /\ t[k] \in [taken : {t[k].taken}, text : {t[k].text}]
    <3>1. PICK j : j = <<"order", p>> /\ j[1] = "order" /\ j \in DOMAIN m /\ m[j] = t[k]
      BY <2>2 DEF HasAs
    <3>2. m[j] \in [taken : {m[j].taken}, text : {m[j].text}]
      BY <3>1 DEF WellTold, Orderly
    <3> QED
      BY <2>2, <3>1, <3>2
  <2>3. Edited(k)
    BY DEF Edited
  <2> QED
    BY <2>1, <2>2, <2>3 DEF DrawnFrom
<1>2. Known(E, t)
  <2> SUFFICES ASSUME NEW x \in Clients, NEW k \in DOMAIN t, Edited(k), Mark(k, t[k]) \in Tokens(x)
               PROVE  \E f \in E[x] : f.key[1] = k[1] /\ f.content = t[k]
    BY DEF Known
  <2>1. ASSUME HasAs(c, k, t[k]) \/ HasAs(m, k, t[k])
        PROVE  \E f \in E[x] : f.key[1] = k[1] /\ f.content = t[k]
    BY <2>1 DEF HasAs, WellTold, Known
  <2>2. ASSUME NEW p \in Nat, NEW q \in Nat, k = <<"order", q>>, HasAs(m, <<"order", p>>, t[k])
        PROVE  \E f \in E[x] : f.key[1] = k[1] /\ f.content = t[k]
    <3>1. PICK j : j = <<"order", p>> /\ j[1] = "order" /\ j \in DOMAIN m /\ m[j] = t[k]
      BY <2>2 DEF HasAs
    <3>2. k[1] = "order"
      BY <2>2
    <3>3. Edited(j) /\ Mark(j, m[j]) \in Tokens(x)
      BY <3>1, <3>2 DEF Edited, Mark
    <3> QED
      BY <3>1, <3>2, <3>3 DEF WellTold, Known
  <2> QED
    BY <2>1, <2>2 DEF DrawnFrom
<1>3. Upwards(E, t)
  <2> SUFFICES ASSUME NEW x \in Clients, NEW f \in E[x], NEW k \in DOMAIN t,
                      f.key[1] = "order", k[1] = "order", t[k] = f.content
               PROVE  f.key[2] <= k[2]
    BY DEF Upwards
  <2>1. CASE HasAs(c, k, t[k]) \/ HasAs(m, k, t[k])
    BY <2>1 DEF HasAs, WellTold, Upwards
  <2>2. ASSUME NEW p \in Nat, NEW q \in Nat, p < q, k = <<"order", q>>, HasAs(m, <<"order", p>>, t[k])
        PROVE  f.key[2] <= k[2]
    <3>1. PICK j : j = <<"order", p>> /\ j[1] = "order" /\ j[2] = p /\ j \in DOMAIN m /\ m[j] = t[k]
      BY <2>2 DEF HasAs
    <3>2. f.key[2] <= p
      BY <3>1 DEF WellTold, Upwards
    <3>3. f.key[2] \in Nat /\ k[2] = q
      BY <2>2 DEF EditsOf
    <3> QED
      BY <2>2, <3>2, <3>3
  <2>3. Edited(k)
    BY DEF Edited
  <2> QED
    BY <2>1, <2>2, <2>3 DEF DrawnFrom
<1> QED
  BY <1>1, <1>2, <1>3 DEF WellTold

\* A window's document is drawn from itself.
LEMMA OwnDrawn ==
    ASSUME NEW m, Orderly(m), NEW c
    PROVE  DrawnFrom(m, c, m)
BY DEF Orderly, DrawnFrom, HasAs

\* What the server stores for a window is told as the rest is.
LEMMA StoredStory ==
    ASSUME NEW E, WInv, Story(E), NEW w \in Clients, win[w].call # "none",
           NEW d, DrawnFrom(d, Current, win[w].sent), NEW action, Store(d, UserOf[w], w, action)
    PROVE  Grown /\ LogStory(E)' /\ Brought(E)'
<1>1. PICK c, m, u : c = Current /\ m = win[w].sent /\ u = UserOf[w] /\ u \in Users
  BY UserOfAssumption
<1>2. LogOK /\ RequestsOK /\ LogStory(E) /\ Brought(E)
  BY DEF WInv, Story
<1>3. Revision \in Nat /\ Revision \in 1..Revision
  BY <1>2 DEF LogOK, Revision
<1>4. WellTold(E, c) /\ WellTold(E, m)
  BY <1>1, <1>2, <1>3 DEF Story, WinStory, LogStory, Current
<1>5. \A x \in Clients : \E n \in Nat : EditsOf(E, x, n)
  BY MaxEditsAssumption DEF Story, WinStory
<1>6. PICK r : r \in 1..Revision /\ Seen(E, w, m, r)
  <2>1. PICK v : v = win[w] /\ v.revision \in 1..Revision
    BY DEF WInv, Linked
  <2>2. UpTo(v, v.revision) \in 1..Revision
    BY <1>3, <2>1 DEF UpTo
  <2> QED
    BY <1>1, <2>1, <2>2 DEF Story, WinStory
<1>7. Grown
  BY <1>1, <1>2, StoreGrows DEF DrawnFrom
<1>8. PICK t : t = IF approval /\ action # "approved" THEN WithoutMaster(c, d) ELSE d
  OBVIOUS
<1>9. log' = log \/ log' = Append(log, Entry(t, u, w))
  BY <1>1, <1>8 DEF Store
<1>10. DrawnFrom(t, c, m)
  BY <1>1, <1>4, <1>8, WithoutMasterDrawn DEF WellTold, Orderly
<1>11. WellTold(E, t)
  BY <1>4, <1>5, <1>10, DrawnWellTold
<1>12. \A f : WellTold(E, f)' <=> WellTold(E, f)
  BY DEF WellTold, Orderly, Known, Upwards
<1>13. CASE log' = log
  <2>1. LogStory(E)' /\ Brought(E)'
    BY <1>2, <1>12, <1>13 DEF LogStory, Brought, Revision
  <2> QED
    BY <1>7, <2>1
<1>14. CASE log' = Append(log, Entry(t, u, w))
  <2>1. /\ Len(log') = Revision + 1
        /\ log'[Revision + 1] = Entry(t, u, w)
        /\ \A n \in 1..Revision : log'[n] = log[n]
    BY <1>1, <1>2, <1>10, <1>14, Appended DEF DrawnFrom
  <2>2. PICK new : new = Revision + 1 /\ new \in Nat
    BY <1>3
  <2>3. log'[new].doc = t /\ log'[new].user = u
    BY <2>1, <2>2 DEF Entry
  <2>4. \A n \in 1..new : n = new \/ n \in 1..Revision
    BY <1>3, <2>2
  <2>5. Revision' = new
    BY <2>1, <2>2 DEF Revision
  <2>6. LogStory(E)'
    <3> SUFFICES ASSUME NEW n \in 1..new
                 PROVE  WellTold(E, log'[n].doc)
      BY <1>12, <2>5 DEF LogStory
    <3>1. CASE n = new
      BY <1>1, <1>11, <2>3, <3>1
    <3>2. CASE n \in 1..Revision
      BY <1>2, <2>1, <3>2 DEF LogStory
    <3> QED
      BY <2>4, <3>1, <3>2
  <2>7. ASSUME NEW x \in Clients, NEW e \in E[x], HasAs(t, e.key, e.content)
        PROVE  \E j \in 1..new : log'[j].user = UserOf[x] /\ HasAs(log'[j].doc, e.key, e.content)
    <3>1. CASE UserOf[x] = u
      <4>1. new \in 1..new
        BY <1>3, <2>2
      <4> QED
        BY <2>3, <2>7, <3>1, <4>1
    <3>2. CASE UserOf[x] # u
      <4>1. ASSUME NEW n \in 1..Revision, HasAs(log[n].doc, e.key, e.content)
            PROVE  \E j \in 1..new : log'[j].user = UserOf[x] /\ HasAs(log'[j].doc, e.key, e.content)
        <5>1. PICK j \in 1..n : log[j].user = UserOf[x] /\ HasAs(log[j].doc, e.key, e.content)
          BY <1>2, <4>1 DEF Brought
        <5>2. j \in 1..Revision /\ j \in 1..new
          BY <1>3, <2>2, <4>1, <5>1
        <5> QED
          BY <2>1, <5>1, <5>2
      <4>2. PICK k : k = e.key /\ k \in DOMAIN t /\ t[k] = e.content /\ Edited(k)
        BY <1>5, <2>7 DEF HasAs, EditsOf
      <4>3. CASE HasAs(c, k, t[k])
        BY <1>1, <1>3, <4>1, <4>2, <4>3 DEF Current
      <4>4. CASE HasAs(m, k, t[k])
        <5>1. CASE \E n \in 1..r : HasAs(log[n].doc, k, m[k])
          <6>1. PICK n \in 1..r : HasAs(log[n].doc, k, m[k])
            BY <5>1
          <6>2. n \in 1..Revision /\ HasAs(log[n].doc, e.key, e.content)
            BY <1>3, <1>6, <4>2, <4>4, <6>1 DEF HasAs
          <6> QED
            BY <4>1, <6>2
        <5>2. CASE HersIs(E, w, k, m[k])
          <6>5. PICK y \in Clients : UserOf[y] = u /\ \E f \in E[y] : f.key = e.key /\ f.content = e.content
            BY <1>1, <4>2, <4>4, <5>2 DEF HasAs, HersIs
          <6>1. PICK f \in E[y] : f.key = e.key /\ f.content = e.content
            BY <6>5
          <6>2. PICK i : Mark(f.key, f.content) = <<y, i>>
            BY <1>5 DEF EditsOf
          <6>3. PICK j : Mark(e.key, e.content) = <<x, j>>
            BY <1>5 DEF EditsOf
          <6>4. <<y, i>> = <<x, j>>
            BY <6>1, <6>2, <6>3
          <6> QED
            BY <3>2, <6>4, <6>5
        <5> QED
          BY <1>6, <4>4, <5>1, <5>2 DEF HasAs, Seen
      <4>5. ASSUME NEW p \in Nat, NEW q \in Nat, p < q, k = <<"order", q>>, HasAs(m, <<"order", p>>, t[k])
            PROVE  FALSE
        <5>1. PICK j : j = <<"order", p>> /\ j[1] = "order" /\ j[2] = p /\ j \in DOMAIN m /\ m[j] = e.content
          BY <4>2, <4>5 DEF HasAs
        <5>2. e.key[1] = "order" /\ e.key[2] = q
          BY <4>2, <4>5
        <5>3. e.key[2] <= p
          BY <1>4, <5>1, <5>2 DEF WellTold, Upwards
        <5> QED
          BY <4>5, <5>2, <5>3
      <4> QED
        BY <1>10, <4>2, <4>3, <4>4, <4>5 DEF DrawnFrom
    <3> QED
      BY <3>1, <3>2
  <2>8. Brought(E)'
    <3> SUFFICES ASSUME NEW x \in Clients, NEW e \in E[x], NEW n \in 1..new,
                        HasAs(log'[n].doc, e.key, e.content)
                 PROVE  \E j \in 1..n : log'[j].user = UserOf[x] /\ HasAs(log'[j].doc, e.key, e.content)
      BY <2>5 DEF Brought, HasAs
    <3>1. CASE n = new
      BY <2>3, <2>7, <3>1
    <3>2. CASE n \in 1..Revision
      <4>1. PICK j \in 1..n : log[j].user = UserOf[x] /\ HasAs(log[j].doc, e.key, e.content)
        BY <1>2, <2>1, <3>2 DEF Brought
      <4>2. j \in 1..Revision
        BY <1>3, <3>2, <4>1
      <4> QED
        BY <2>1, <4>1, <4>2
    <3> QED
      BY <2>4, <3>1, <3>2
  <2> QED
    BY <1>7, <2>6, <2>8
<1> QED
  BY <1>9, <1>13, <1>14

\* An answer on the wire of the window that asked.
LEMMA ServedStory ==
    ASSUME NEW E, WInv, StorageOK, Story(E), NEW w \in Clients, NEW m, m.kind # "merge",
           Grown, LogStory(E)', Brought(E)', win' = win, storage' = storage, Send(w, m)
    PROVE  StoryInv'
<1>1. PICK v : v = win[w]
  OBVIOUS
<1>2. Linked(v, wire[w]) /\ Len(log) \in Nat
  BY <1>1 DEF WInv, LogOK
<1>3. PICK q : q = wire[w]
  OBVIOUS
<1>4. WinStory(E, w, v, q)
  BY <1>1, <1>3 DEF Story
<1>5. WinStory(E, w, v, q)'
  BY <1>2, <1>3, <1>4, StoryStays
<1>6. WinStory(E, w, v, m)'
  BY <1>5 DEF WinStory
<1>7. win' = [win EXCEPT ![w] = v] /\ wire' = [wire EXCEPT ![w] = m]
  BY <1>1 DEF WInv, Send
<1>8. KeptStory(E)'
  <2>1. PICK r : r = v.kept /\ r \in 0..Revision /\ Seen(E, w, v.copy, UpTo(v, r))
    BY <1>2, <1>4 DEF WinStory, Linked
  <2>2. LogOK /\ KeptStory(E) /\ WellTold(E, v.copy) /\ PutsItsOwn(w, v)
    BY <1>4, NothingPut DEF WInv, Story, WinStory
  <2> QED
    BY <2>1, <2>2, KeptStays
<1>9. Story(E)'
  BY <1>6, <1>7, <1>8, OneStory
<1> QED
  BY <1>9 DEF StoryInv

LEMMA ServeSaveStory ==
    ASSUME WInv, StorageOK, OwesInv, StoryInv, NEW w \in Clients, ServeSave(w)
    PROVE  StoryInv'
<1>1. PICK E : Story(E)
  BY DEF StoryInv
<1>2. PICK v, q : v = win[w] /\ q = wire[w]
  OBVIOUS
<1>3. WinStory(E, w, v, q) /\ Linked(v, q)
  BY <1>1, <1>2, StoryOf
<1>4. q.kind = "save"
  BY <1>2 DEF ServeSave
<1>5. v.call = "save" /\ q.doc = v.sent
  BY <1>3, <1>4 DEF Linked
<1>6. PICK d, c : d = q.doc /\ c = Current
  OBVIOUS
<1>7. Orderly(d)
  BY <1>3, <1>5, <1>6 DEF WinStory, WellTold
<1>8. DrawnFrom(d, c, d)
  BY <1>7, OwnDrawn
<1>9. DrawnFrom(d, Current, win[w].sent)
  BY <1>2, <1>5, <1>6, <1>8
<1>10. Store(d, UserOf[w], w, "saved")
  BY <1>2, <1>6 DEF ServeSave, Save
<1>11. Grown /\ LogStory(E)' /\ Brought(E)'
  BY <1>1, <1>2, <1>5, <1>9, <1>10, StoredStory
<1>12. PICK m : m = [kind |-> "saved", doc |-> log'[Len(log')].doc, revision |-> Len(log'),
                     held |-> requests' # requests]
  OBVIOUS
<1>13. win' = win /\ storage' = storage /\ Send(w, m) /\ m.kind # "merge"
  BY <1>12 DEF ServeSave
<1> QED
  BY <1>1, <1>11, <1>13, ServedStory

LEMMA ServeMergeStory ==
    ASSUME WInv, StorageOK, OwesInv, StoryInv, NEW w \in Clients, ServeMerge(w)
    PROVE  StoryInv'
<1>1. PICK E : Story(E)
  BY DEF StoryInv
<1>2. PICK v, q : v = win[w] /\ q = wire[w]
  OBVIOUS
<1>3. WinStory(E, w, v, q) /\ LogStory(E) /\ LogOK
  BY <1>1, <1>2, StoryOf
<1>4. q.kind = "merge"
  BY <1>2 DEF ServeMerge
<1>5. v.call # "none" /\ q.mine = v.sent /\ Orderly(q.mine)
  BY <1>3, <1>4 DEF WinStory, WellTold
<1>6. PICK b, y, c : b = q.from /\ y = q.mine /\ c = Current
  OBVIOUS
<1>7. Orderly(c)
  BY <1>3, <1>6 DEF LogStory, WellTold, Current, Revision, LogOK
<1>8. PICK only : Store(Merge(b, y, c, q.choose, only), UserOf[w], w, "merged")
  BY <1>2, <1>6 DEF ServeMerge, MergeFrom
<1>9. PICK d : d = Merge(b, y, c, q.choose, only)
  OBVIOUS
<1>10. DrawnFrom(d, c, y)
  BY <1>5, <1>6, <1>7, <1>9, MergeDrawn
<1>11. DrawnFrom(d, Current, win[w].sent)
  BY <1>2, <1>5, <1>6, <1>10
<1>12. Grown /\ LogStory(E)' /\ Brought(E)'
  BY <1>1, <1>2, <1>5, <1>8, <1>9, <1>11, StoredStory
<1>13. PICK m : m = [kind |-> "merged", doc |-> log'[Len(log')].doc, revision |-> Len(log')]
  OBVIOUS
<1>14. win' = win /\ storage' = storage /\ Send(w, m) /\ m.kind # "merge"
  BY <1>13 DEF ServeMerge
<1> QED
  BY <1>1, <1>12, <1>14, ServedStory

LEMMA RefusedStory ==
    ASSUME WInv, StorageOK, OwesInv, StoryInv, NEW w \in Clients, RefuseSave(w) \/ RefuseMerge(w)
    PROVE  StoryInv'
<1>1. PICK E : Story(E)
  BY DEF StoryInv
<1>2. PICK v, q : v = win[w] /\ q = wire[w]
  OBVIOUS
<1>3. WinStory(E, w, v, q) /\ v.kept \in 1..Revision
  BY <1>1, <1>2, StoryOf
<1>4. Put(w, v) /\ Calm /\ PutsItsOwn(w, v)
  BY <1>2, NothingPut DEF RefuseSave, RefuseMerge, Put, WInv
<1>5. PICK m : Send(w, m) /\ m.kind # "merge"
  <2>1. CASE RefuseSave(w)
    BY <2>1 DEF RefuseSave
  <2>2. CASE RefuseMerge(w)
    BY <2>2 DEF RefuseMerge
  <2> QED
    BY <2>1, <2>2
<1>6. WinStory(E, w, v, m)
  BY <1>3, <1>5 DEF WinStory
<1>7. Story(E)'
  BY <1>1, <1>3, <1>4, <1>5, <1>6, CalmStory
<1> QED
  BY <1>7 DEF StoryInv

-----------------------------------------------------------------------------
\* Nothing is edited yet when a company has just been created.
LEMMA WInitStory == WInit => StoryInv
<1> SUFFICES ASSUME WInit PROVE StoryInv
  OBVIOUS
<1>1. PICK d \in Docs, u \in Users : log = <<Entry(d, u, NoClient)>>
  BY DEF WInit, Init
<1>2. Revision = 1 /\ log[1].doc = d /\ Current = d
  BY <1>1 DEF Revision, Entry, Current
<1>3. PICK E : E = [w \in Clients |-> {}]
  OBVIOUS
<1>4. WellTold(E, d)
  <2>1. IsDoc(d)
    BY DocsAssumption DEF IsDoc
  <2>2. IsFiniteSet(DOMAIN d)
    BY CreatedAssumption
  <2>3. \A k \in DOMAIN d : k[1] = "order" => /\ k[2] \in Nat /\ k = <<"order", k[2]>>
                                              /\ d[k] \in [taken : {d[k].taken}, text : {d[k].text}]
    BY CreatedAssumption DEF OfKind
  <2>4. \A w \in Clients, k \in DOMAIN d : Edited(k) => Mark(k, d[k]) \notin Tokens(w)
    BY CreatedAssumption DEF OfKind, Edited
  <2>5. Known(E, d)
    BY <2>4 DEF Known
  <2>6. Upwards(E, d)
    BY <1>3 DEF Upwards
  <2> QED
    BY <2>1, <2>2, <2>3, <2>5, <2>6 DEF WellTold, Orderly
<1>5. LogStory(E)
  BY <1>2, <1>4 DEF LogStory
<1>6. Brought(E)
  BY <1>3 DEF Brought
<1>7. PICK v : v = Opened(d)
  OBVIOUS
<1>8. v.copy = d /\ v.kept = 1 /\ v.mixed = FALSE /\ v.call = "none" /\ v.made = 0
  BY <1>7 DEF Opened
<1>9. \A w \in Clients : Seen(E, w, d, 1)
  <2>1. 1 \in 1..1
    OBVIOUS
  <2> QED
    BY <1>2, <2>1 DEF Seen, HasAs
<1>10. \A w \in Clients : WinStory(E, w, v, NoWire)
  <2> TAKE w \in Clients
  <2>1. EditsOf(E, w, 0)
    BY <1>3 DEF EditsOf
  <2>2. 0 \in 0..MaxEdits[w]
    BY MaxEditsAssumption
  <2> QED
    BY <1>4, <1>8, <1>9, <2>1, <2>2 DEF WinStory, UpTo, NoWire
<1>11. \A w \in Clients : win[w] = v /\ wire[w] = NoWire
  BY <1>2, <1>7 DEF WInit
<1>12. KeptStory(E)
  <2>1. \A w \in Clients : Kept(w) = Unedited(d, 1)
    BY <1>2 DEF WInit, Kept, Browsers
  <2>2. Unedited(d, 1).copy = d
    BY DEF Unedited
  <2> QED
    BY <1>2, <1>4, <1>9, <2>1, <2>2 DEF KeptStory
<1>13. Story(E)
  BY <1>3, <1>5, <1>6, <1>10, <1>11, <1>12 DEF Story
<1> QED
  BY <1>13 DEF StoryInv

LEMMA WNextStory == WInv /\ StorageOK /\ OwesInv /\ StoryInv /\ [WNext]_allVars => StoryInv'
<1> SUFFICES ASSUME WInv, StorageOK, OwesInv, StoryInv, [WNext]_allVars PROVE StoryInv'
  OBVIOUS
<1>1. CASE UNCHANGED allVars
  <2>1. log' = log /\ win' = win /\ wire' = wire /\ storage' = storage
    BY <1>1 DEF allVars, vars, windowVars
  <2>2. PICK E : Story(E)
    BY DEF StoryInv
  <2>3. Story(E)'
    BY <2>1, <2>2 DEF Story, LogStory, Brought, WinStory, EditsOf, WellTold, Orderly, Known, Upwards,
       Seen, HasAs, HersIs, UpTo, KeptStory, Kept, Revision
  <2> QED
    BY <2>3 DEF StoryInv
<1>2. ASSUME NEW w \in Clients,
             EditSetting(w) \/ TakeOrder(w) \/ EditOrder(w)
      PROVE  StoryInv'
  BY <1>2, EditSettingStory, TakeOrderStory, EditOrderStory
<1>3. ASSUME NEW w \in Clients, SaveServed(w) \/ MergeServed(w)
      PROVE  StoryInv'
  BY <1>3, ServeSaveStory, ServeMergeStory, RefusedStory DEF SaveServed, MergeServed
<1>4. ASSUME NEW w \in Clients, SaveAnswered(w) \/ MergeAnswered(w)
      PROVE  StoryInv'
  BY <1>4, AnswerSavedStory, AnswerStaleStory, AnswerMergedStory, AnswerClashStory,
     AnswerChosenStory DEF SaveAnswered, MergeAnswered
<1>5. ASSUME NEW w \in Clients,
             SaveNow(w) \/ NoAnswer(w) \/ KeepMine(w) \/ OpenLatest(w) \/ Reload(w)
      PROVE  StoryInv'
  BY <1>5, SaveNowStory, NoAnswerStory, KeepMineStory, OpenLatestStory, ReloadStory
<1>6. ASSUME NEW w \in Clients, NEW choose \in Choices, MergeMine(w, choose)
      PROVE  StoryInv'
  BY <1>6, MergeMineStory
<1> QED
  BY <1>1, <1>2, <1>3, <1>4, <1>5, <1>6 DEF WNext, WStep

LEMMA StoryAlways == WSpec => [](WInv /\ OwesInv /\ StoryInv)
<1>1. Held => WInv /\ StorageOK
  BY DEF Held
<1> QED
  BY <1>1, WindowsOwe, WInitStory, WNextStory, PTL DEF WSpec

\* What a colleague was the first to bring, after what the window is based on,
\* is still there after its save or its quiet merge.
LEMMA UndoneStep ==
    ASSUME WInv, OwesInv, StoryInv, [WNext]_allVars, NEW w \in Clients,
           log' # log, last'.client = w, last'.quiet, ~win[w].mixed,
           NEW n \in (win[w].revision + 1)..Revision, NEW k,
           log[n].user # UserOf[w], At(Current, k) # Absent, At(log[n].doc, k) = At(Current, k),
           \A j \in 1..(n - 1) : At(log[j].doc, k) # At(Current, k)
    PROVE  At(After, k) = At(Current, k)
<1> SUFFICES ASSUME At(After, k) # At(Current, k) PROVE FALSE
  OBVIOUS
<1>1. PICK E : Story(E)
  BY DEF StoryInv
<1>2. PICK x \in Clients : ServeSave(x) \/ ServeMerge(x)
  <2>1. ASSUME Calm PROVE FALSE
    BY <2>1 DEF Calm, serverVars
  <2>2. ASSUME NEW x \in Clients, SaveServed(x) \/ MergeServed(x)
        PROVE  \E y \in Clients : ServeSave(y) \/ ServeMerge(y)
    BY <2>1, <2>2 DEF SaveServed, MergeServed, RefuseSave, RefuseMerge
  <2>3. ASSUME NEW x \in Clients,
               EditSetting(x) \/ TakeOrder(x) \/ EditOrder(x) \/ SaveNow(x) \/ NoAnswer(x)
        PROVE  FALSE
    BY <2>1, <2>3 DEF EditSetting, TakeOrder, EditOrder, Commit, SaveNow, NoAnswer
  <2>4. ASSUME NEW x \in Clients, SaveAnswered(x) \/ MergeAnswered(x)
        PROVE  FALSE
    BY <2>1, <2>4 DEF SaveAnswered, MergeAnswered, AnswerSaved, AnswerStale, AnswerMerged,
       AnswerClash, AnswerChosen
  <2>5. ASSUME NEW x \in Clients,
               KeepMine(x) \/ OpenLatest(x) \/ Reload(x)
               \/ \E choose \in Choices : MergeMine(x, choose)
        PROVE  FALSE
    BY <2>1, <2>5 DEF KeepMine, OpenLatest, Reload, MergeMine
  <2>6. WNext
    BY DEF allVars, vars
  <2> QED
    BY <2>2, <2>3, <2>4, <2>5, <2>6 DEF WNext, WStep
<1>3. x = w
  BY <1>2 DEF ServeSave, ServeMerge, Save, MergeFrom, Serves
<1>4. PICK v, q : v = win[w] /\ q = wire[w]
  OBVIOUS
<1>5. /\ WinStory(E, w, v, q) /\ LogStory(E) /\ LogOK /\ Linked(v, q) /\ Owes(w, v, q, touched[w])
      /\ v.revision \in 1..Revision /\ Revision \in Nat
  BY <1>1, <1>4, StoryOf
<1>6. PICK r : r = v.revision /\ r \in 1..Revision /\ n \in (r + 1)..Revision
  BY <1>4, <1>5
<1>7. CASE ServeSave(w)
  <2>1. q.kind = "save" /\ Accepted(q.base, UserOf[w], w)
    BY <1>4, <1>7 DEF ServeSave, Save
  <2>2. q.base = r
    BY <1>5, <1>6, <2>1 DEF Owes
  <2>3. Accepted(r, UserOf[w], w) /\ r # Revision
    BY <1>5, <1>6, <2>1, <2>2
  <2> QED
    BY <1>6, <2>3 DEF Accepted, Own
<1>8. CASE ServeMerge(w)
  <2>1. PICK b, y, c, u : b = q.from /\ y = q.mine /\ c = Current /\ u = UserOf[w] /\ u \in Users
    BY UserOfAssumption
  <2>2. q.kind = "merge" /\ MergeFrom(u, w, b, y, q.base, q.quiet, q.choose)
    BY <1>4, <1>8, <2>1 DEF ServeMerge
  <2>3. q.base = r /\ q.quiet
    BY <1>5, <1>6, <2>2 DEF Owes, MergeFrom, Serves
  <2>4. PICK only : /\ only = MineOnly(r, u)
                    /\ only \/ Conflicts(b, y, c) = {}
                    /\ Store(Merge(b, y, c, q.choose, only), u, w, "merged")
    BY <2>1, <2>2, <2>3 DEF MergeFrom
  <2>5. ~only /\ only \in BOOLEAN
    BY <1>6, <2>1, <2>4 DEF MineOnly
  <2>6. PICK d : d = Merge(b, y, c, q.choose, only)
    OBVIOUS
  <2>7. IsDoc(d) /\ Store(d, u, w, "merged")
    BY <2>4, <2>6, MadeDocs
  <2>8. At(After, k) = At(d, k)
    BY <1>5, <2>1, <2>7, StoredRecord
  <2>9. At(c, k) = At(b, k)
    BY <2>1, <2>4, <2>5, <2>6, <2>8, MergeKeepsTheirs
  <2>10. k \in DOMAIN b /\ k \in DOMAIN c /\ b[k] = c[k] /\ At(c, k) = c[k]
    BY <2>1, <2>9 DEF At
  <2>11. Seen(E, w, b, r)
    BY <1>4, <1>5, <1>6, <2>1, <2>2 DEF WinStory, UpTo
  <2>12. ASSUME NEW j \in 1..Revision, HasAs(log[j].doc, k, c[k])
         PROVE  ~(j < n)
    <3>1. At(log[j].doc, k) = At(c, k)
      BY <2>10, <2>12 DEF At, HasAs
    <3>2. j < n => j \in 1..(n - 1)
      BY <1>5, <1>6
    <3> QED
      BY <2>1, <3>1, <3>2
  <2>13. CASE \E j \in 1..r : HasAs(log[j].doc, k, b[k])
    <3>1. PICK j \in 1..r : HasAs(log[j].doc, k, c[k])
      BY <2>10, <2>13
    <3>2. j \in 1..Revision /\ j < n
      BY <1>5, <1>6, <3>1
    <3> QED
      BY <2>12, <3>1, <3>2
  <2>14. CASE HersIs(E, w, k, b[k])
    <3>1. PICK z \in Clients : UserOf[z] = UserOf[w] /\ \E e \in E[z] : e.key = k /\ e.content = c[k]
      BY <2>10, <2>14 DEF HersIs
    <3>2. n \in 1..Revision /\ HasAs(log[n].doc, k, c[k])
      <4>1. PICK f : f = log[n].doc
        OBVIOUS
      <4>2. At(f, k) = c[k] /\ c[k] # Absent
        BY <2>1, <2>10, <4>1
      <4>3. HasAs(f, k, c[k])
        BY <4>2 DEF At, HasAs
      <4> QED
        BY <1>5, <1>6, <4>1, <4>3
    <3>3. PICK j \in 1..n : log[j].user = UserOf[w] /\ HasAs(log[j].doc, k, c[k])
      <4>1. PICK e \in E[z] : e.key = k /\ e.content = c[k]
        BY <3>1
      <4>2. Brought(E)
        BY <1>1 DEF Story
      <4> QED
        BY <3>1, <3>2, <4>1, <4>2 DEF Brought
    <3>4. j \in 1..Revision /\ (j = n \/ j < n)
      BY <1>5, <1>6, <3>2, <3>3
    <3>5. j = n
      BY <2>12, <3>3, <3>4
    <3> QED
      BY <3>3, <3>5
  <2> QED
    BY <2>10, <2>11, <2>13, <2>14 DEF Seen
<1> QED
  BY <1>2, <1>3, <1>7, <1>8

\* A content that another person was the first to bring to the company, after the
\* revision a window is based on, is not replaced by a save or a quiet merge of
\* that window (companies/store.py save, merge_save; store.ts mergeQuietly), as
\* long as no reload has given it what another window of its browser put there.
THEOREM NobodyUndone == WSpec => NoColleagueUndone
<1>1. WInv /\ OwesInv /\ StoryInv /\ [WNext]_allVars =>
        [\A w \in Clients :
          /\ log' # log /\ last'.client = w /\ last'.quiet /\ ~win[w].mixed
          => \A n \in (win[w].revision + 1)..Revision, k \in DOMAIN Current :
                /\ log[n].user # UserOf[w]
                /\ At(Current, k) # Absent /\ At(log[n].doc, k) = At(Current, k)
                /\ \A j \in 1..(n - 1) : At(log[j].doc, k) # At(Current, k)
                => At(After, k) = At(Current, k)]_allVars
  BY UndoneStep
<1> QED
  BY <1>1, StoryAlways, PTL DEF WSpec, NoColleagueUndone

=============================================================================
