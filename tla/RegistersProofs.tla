---------------------------- MODULE RegistersProofs ----------------------------
(* Theorems about the registers a company keeps beside its revisions: who       *)
(* belongs to it (Members), its mail (MailOutbox), what its other systems send  *)
(* it (Imports) and what its ERP is told of an order (ErpOrders), for any       *)
(* number of people, systems, clocks, changes, saves and messages under way.    *)
EXTENDS Members, MailOutbox, Imports, ErpOrders, FiniteSetTheorems, SequenceTheorems, TLAPS

-----------------------------------------------------------------------------
(* Who belongs to a company.                                                  *)

\* Whoever belongs to the company, is invited, or left, is an account of the right kind (store.py members, invites).
THEOREM MembersType == MembersSpec => []MembersTypeOK
<1>. USE DEF Roles, Accounts
<1>1. MembersInit => MembersTypeOK
  BY DEF MembersInit, MembersTypeOK
<1>2. MembersTypeOK /\ [MembersNext]_membersVars => MembersTypeOK'
  <2>. SUFFICES ASSUME MembersTypeOK, [MembersNext]_membersVars
                PROVE  MembersTypeOK'
    OBVIOUS
  <2>. USE DEF MembersTypeOK
  <2>1. ASSUME NEW u \in Persons, NEW p \in Persons, Invite(u, p)
        PROVE  MembersTypeOK'
    BY <2>1 DEF Invite
  <2>2. ASSUME NEW u \in Persons, NEW p \in Persons, Withdraw(u, p)
        PROVE  MembersTypeOK'
    BY <2>2 DEF Withdraw
  <2>3. ASSUME NEW u \in Persons, NEW m \in Accounts, SetMember(u, m)
        PROVE  MembersTypeOK'
    <3>1. PICK r \in Roles, limits \in {"as they were", "none", "some"} :
             /\ role' = [role EXCEPT ![m] = r]
             /\ limited' = IF r = "owner" \/ limits = "none" THEN limited \ {m}
                           ELSE IF limits = "some" THEN limited \cup {m} ELSE limited
      BY <2>3 DEF SetMember
    <3>2. limited' \subseteq Accounts
      BY <3>1
    <3>. QED  BY <2>3, <3>1, <3>2 DEF SetMember
  <2>4. ASSUME NEW u \in Persons, NEW m \in Accounts, Remove(u, m)
        PROVE  MembersTypeOK'
    BY <2>4 DEF Remove, Without
  <2>5. ASSUME NEW u \in Persons, NEW k \in Keys, CreateKey(u, k)
        PROVE  MembersTypeOK'
    BY <2>5 DEF CreateKey
  <2>6. ASSUME NEW u \in Persons, NEW k \in Keys, RevokeKey(u, k)
        PROVE  MembersTypeOK'
    BY <2>6 DEF RevokeKey, Without
  <2>7. ASSUME NEW u \in Persons, SetApproval(u) \/ Require(u) \/ DeleteCompany(u)
        PROVE  MembersTypeOK'
    <3>1. CASE SetApproval(u)
      BY <3>1 DEF SetApproval
    <3>2. CASE Require(u)
      BY <3>2 DEF Require
    <3>3. CASE DeleteCompany(u)
      BY <3>3 DEF DeleteCompany
    <3>. QED  BY <2>7, <3>1, <3>2, <3>3
  <2>8. ASSUME NEW p \in Persons, Accept(p)
        PROVE  MembersTypeOK'
    BY <2>8 DEF Accept
  <2>9. ASSUME NEW p \in Persons, TurnOn(p) \/ AskOff(p) \/ TurnOff(p)
        PROVE  MembersTypeOK'
    BY <2>9 DEF TurnOn, AskOff, TurnOff
  <2>10. ASSUME NEW p \in Persons, DeleteAccount(p)
         PROVE  MembersTypeOK'
    <3>1. role' \in [Accounts -> Roles \cup {"none"}] /\ alive' \in BOOLEAN
      BY <2>10 DEF DeleteAccount, Without
    <3>2. limited' \subseteq Accounts
      BY <2>10 DEF DeleteAccount, Without, Handed
    <3>. QED  BY <2>10, <3>1, <3>2 DEF DeleteAccount
  <2>11. CASE UNCHANGED membersVars
    BY <2>11 DEF membersVars
  <2>. QED
    BY <2>1, <2>2, <2>3, <2>4, <2>5, <2>6, <2>7, <2>8, <2>9, <2>10, <2>11
    DEF MembersNext, Managing, OwnAccount
<1>. QED  BY <1>1, <1>2, PTL DEF MembersSpec

\* The check before an owner stops being one, and the other of delete_account: there is somebody else.
LEMMA AnotherOwner ==
    ASSUME NEW m \in Owners, Cardinality(Owners) # 1
    PROVE  \E o \in Owners : o # m
<1>1. Owners # {m}
  BY FS_Singleton
<1>. QED  BY <1>1

\* However members are invited, changed, removed and leave, a company that is not deleted has an owner (set_member,
\* remove_member, delete_account).
THEOREM CompanyAlwaysOwned == MembersSpec => []AlwaysOwned
<1>. USE DEF Roles, Accounts
<1>1. MembersInit => AlwaysOwned
  BY DEF MembersInit, AlwaysOwned, Owners
<1>2. MembersTypeOK /\ AlwaysOwned /\ [MembersNext]_membersVars => AlwaysOwned'
  <2>. SUFFICES ASSUME MembersTypeOK, AlwaysOwned, [MembersNext]_membersVars, alive'
                PROVE  \E o \in Accounts : role'[o] = "owner"
    BY DEF AlwaysOwned, Owners
  <2>0. role \in [Accounts -> Roles \cup {"none"}] /\ invited \in [Persons -> Roles \cup {"none"}]
    BY DEF MembersTypeOK
  <2>1. CASE UNCHANGED role /\ alive
    BY <2>1 DEF AlwaysOwned, Owners
  <2>2. ASSUME NEW u \in Persons, NEW m \in Accounts, SetMember(u, m)
        PROVE  \E o \in Accounts : role'[o] = "owner"
    <3>1. PICK r \in Roles : StaysOwned(m, r) /\ role' = [role EXCEPT ![m] = r]
      BY <2>2 DEF SetMember
    <3>2. u \in Owners
      BY <2>2 DEF SetMember, MayManage, Owners
    <3>3. CASE r = "owner"
      BY <2>0, <3>1, <3>3
    <3>4. CASE r # "owner" /\ m \in Owners
      <4>1. Cardinality(Owners) # 1
        BY <3>1, <3>4 DEF StaysOwned, Owners
      <4>. QED  BY <2>0, <3>1, <3>4, <4>1, AnotherOwner DEF Owners
    <3>5. CASE m \notin Owners
      BY <2>0, <3>1, <3>2, <3>5 DEF Owners
    <3>. QED  BY <3>3, <3>4, <3>5
  <2>3. ASSUME NEW u \in Persons, NEW m \in Accounts, Remove(u, m)
        PROVE  \E o \in Accounts : role'[o] = "owner"
    <3>1. role' = [role EXCEPT ![m] = "none"] /\ StaysOwned(m, "none") /\ u \in Owners
      BY <2>3 DEF Remove, Without, MayManage, Owners
    <3>2. CASE m \in Owners
      <4>1. Cardinality(Owners) # 1
        BY <3>1, <3>2 DEF StaysOwned, Owners
      <4>. QED  BY <2>0, <3>1, <3>2, <4>1, AnotherOwner DEF Owners
    <3>. QED  BY <2>0, <3>1, <3>2 DEF Owners
  <2>4. ASSUME NEW u \in Persons, NEW k \in Keys, CreateKey(u, k) \/ RevokeKey(u, k)
        PROVE  \E o \in Accounts : role'[o] = "owner"
    \* Who makes or withdraws a key is an owner, and a person.
    <3>1. role[u] = "owner" /\ u # k
      BY <2>4, MembersAssumption DEF CreateKey, RevokeKey, MayManage
    <3>2. role'[u] = role[u]
      BY <2>0, <2>4, <3>1 DEF CreateKey, RevokeKey, Without
    <3>. QED  BY <3>1, <3>2
  <2>5. ASSUME NEW p \in Persons, Accept(p)
        PROVE  \E o \in Accounts : role'[o] = "owner"
    <3>1. PICK o \in Accounts : role[o] = "owner"
      BY <2>5 DEF Accept, AlwaysOwned, Owners
    <3>. QED  BY <2>0, <2>5, <3>1 DEF Accept
  <2>6. ASSUME NEW p \in Persons, DeleteAccount(p)
        PROVE  \E o \in Accounts : role'[o] = "owner"
    <3>1. alive
      BY <2>6 DEF DeleteAccount
    <3>2. CASE role[p] = "owner" /\ Cardinality(Owners) = 1
      BY <2>0, <2>6, <3>1, <3>2 DEF DeleteAccount
    <3>3. CASE role[p] = "owner" /\ Cardinality(Owners) # 1
      <4>1. PICK o \in Owners : o # p
        BY <3>3, AnotherOwner DEF Owners
      <4>. QED  BY <2>0, <2>6, <3>3, <4>1 DEF DeleteAccount, Without, Owners
    <3>4. CASE role[p] # "owner"
      BY <2>0, <2>6, <3>1, <3>4 DEF DeleteAccount, Without, AlwaysOwned, Owners
    <3>. QED  BY <3>2, <3>3, <3>4
  <2>7. ASSUME NEW u \in Persons, NEW p \in Persons, Invite(u, p) \/ Withdraw(u, p)
        PROVE  UNCHANGED role /\ alive
    BY <2>7 DEF Invite, Withdraw, MayManage
  <2>8. ASSUME NEW u \in Persons, SetApproval(u) \/ Require(u) \/ DeleteCompany(u)
        PROVE  UNCHANGED role /\ alive
    BY <2>8 DEF SetApproval, Require, DeleteCompany, MayManage
  <2>9. ASSUME NEW p \in Persons, TurnOn(p) \/ AskOff(p) \/ TurnOff(p)
        PROVE  UNCHANGED role /\ alive
    BY <2>9 DEF TurnOn, AskOff, TurnOff
  <2>10. CASE UNCHANGED membersVars
    BY <2>1, <2>10 DEF membersVars
  <2>. QED
    BY <2>1, <2>2, <2>3, <2>4, <2>5, <2>6, <2>7, <2>8, <2>9, <2>10 DEF MembersNext, Managing, OwnAccount
<1>. QED  BY <1>1, <1>2, MembersType, PTL DEF MembersSpec
-----------------------------------------------------------------------------
(* The company's mail.                                                        *)

\* What the mail server took, or somebody delivers.
Live == reached \cup DOMAIN threads

\* A reminder sent because its time had come.
Timed(i) == outbox[i].due # Never

\* What a reminder put in the outbox in this round is due at.
DueNow == IF remindAt <= today THEN remindAt ELSE Never

RoundType ==
    /\ reminding \in [on : BOOLEAN, left : SUBSET Senders, made : SUBSET DOMAIN outbox]
    /\ ~reminding.on => reminding = NoRound

LiveOnce ==
    \A i, j \in Live : Timed(i) /\ outbox[i].to = outbox[j].to /\ outbox[i].due = outbox[j].due => i = j

\* The time of the reminders has moved past those that are out.
MovedPast == \A i \in Live : Timed(i) => outbox[i].due < remindAt /\ outbox[i].due <= today

\* The round's own are not out yet, each to somebody else, and who is left has none.
RoundApart ==
    /\ \A i \in reminding.made : i \notin Live /\ outbox[i].due = DueNow /\ outbox[i].to \notin reminding.left
    /\ \A i, j \in reminding.made : outbox[i].to = outbox[j].to => i = j

RemindInv == MailTypeOK /\ RoundType /\ LiveOnce /\ MovedPast /\ RoundApart

\* However the server stops between putting reminders in the outbox and delivering them, the reminders of one time
\* reach nobody twice (remind, _deliver).
THEOREM ReminderReachesOnce == MailSpec => []RemindedOnce
<1>. USE MailAssumption
<1>1. MailInit => RemindInv
  BY DEF MailInit, RemindInv, MailTypeOK, RoundType, LiveOnce, MovedPast, RoundApart, NoRound, Live, Never
<1>2. RemindInv /\ [MailNext]_mailVars => RemindInv'
  <2>. SUFFICES ASSUME RemindInv, [MailNext]_mailVars
                PROVE  RemindInv'
    OBVIOUS
  <2>0. /\ outbox \in Seq(Mails) /\ today \in Nat /\ remindAt \in Nat /\ Never \in Nat /\ Never > today + 1
        /\ DOMAIN outbox = 1..Len(outbox) /\ Len(outbox) \in Nat
        /\ \A i \in DOMAIN outbox : outbox[i] \in Mails
        /\ Live \subseteq DOMAIN outbox
    BY DEF RemindInv, MailTypeOK, Never, Live
  \* What is out shrinks, or stays, and nothing else of the invariant moves.
  <2>a. ASSUME UNCHANGED <<outbox, remindAt, reminding, today>>, Live' \subseteq Live, MailTypeOK'
        PROVE  RemindInv'
    BY <2>a DEF RemindInv, RoundType, LiveOnce, MovedPast, RoundApart, Timed, DueNow
  \* A mail more in the outbox.
  <2>b. ASSUME NEW letter \in Mails, outbox' = Append(outbox, letter)
        PROVE  \E n \in Nat : /\ n = Len(outbox') /\ n \notin DOMAIN outbox /\ DOMAIN outbox' = DOMAIN outbox \cup {n}
                              /\ outbox'[n] = letter /\ \A i \in DOMAIN outbox : outbox'[i] = outbox[i]
                              /\ outbox' \in Seq(Mails)
    <3>. WITNESS Len(outbox) + 1 \in Nat
    <3>. QED  BY <2>0, <2>b
  <2>1. ASSUME NEW p \in Senders, SendDocument(p)
        PROVE  RemindInv'
    <3>1. PICK letter \in Mails : /\ outbox' = Append(outbox, letter) /\ letter.due = Never
                               /\ UNCHANGED <<reached, remindAt, reminding, today>>
      BY <2>0, <2>1 DEF SendDocument, Mails, RemindInv, MailTypeOK
    <3>2. PICK n \in Nat : /\ n = Len(outbox') /\ n \notin DOMAIN outbox /\ DOMAIN outbox' = DOMAIN outbox \cup {n}
                           /\ outbox'[n] = letter /\ \A i \in DOMAIN outbox : outbox'[i] = outbox[i]
                           /\ outbox' \in Seq(Mails)
      BY <2>b, <3>1
    <3>3. /\ DOMAIN threads' = DOMAIN threads \cup {n}
          /\ \A i \in DOMAIN threads' :
                threads'[i] = IF i \in DOMAIN threads THEN threads[i] ELSE "delivering"
      BY <2>1, <3>2 DEF SendDocument, Delivers
    <3>4. Live' = Live \cup {n}
      BY <3>1, <3>3 DEF Live
    <3>5. MailTypeOK'
      BY <3>1, <3>2, <3>3 DEF RemindInv, MailTypeOK, Never
    <3>7. LiveOnce' /\ MovedPast'
      BY <2>0, <3>1, <3>2, <3>4, SMTT(30) DEF RemindInv, LiveOnce, MovedPast, Timed, Never
    <3>8. RoundType' /\ RoundApart'
      BY <2>0, <3>1, <3>2, <3>4 DEF RemindInv, RoundType, RoundApart, DueNow, Never
    <3>. QED  BY <3>5, <3>7, <3>8 DEF RemindInv
  <2>2. ASSUME NEW p \in Senders, Remind(p)
        PROVE  RemindInv'
    <3>0. DueNow \in 0..Never /\ today \in 0..MaxDay
      BY <2>0 DEF DueNow, RemindInv, MailTypeOK
    <3>1. PICK letter \in Mails : /\ outbox' = Append(outbox, letter) /\ letter.due = DueNow /\ letter.to = p
                               /\ UNCHANGED <<reached, threads, remindAt, today>>
      <4>1. [to |-> p, by |-> "server", day |-> today, due |-> DueNow, status |-> "sending"] \in Mails
        BY <3>0 DEF Mails
      <4>. QED  BY <2>2, <4>1 DEF Remind, StartsEach, DueNow
    <3>2. PICK n \in Nat : /\ n = Len(outbox') /\ n \notin DOMAIN outbox /\ DOMAIN outbox' = DOMAIN outbox \cup {n}
                           /\ outbox'[n] = letter /\ \A i \in DOMAIN outbox : outbox'[i] = outbox[i]
                           /\ outbox' \in Seq(Mails)
      BY <2>b, <3>1
    <3>3. /\ p \in reminding.left /\ reminding.on
          /\ reminding' = [on |-> TRUE, left |-> reminding.left \ {p}, made |-> reminding.made \cup {n}]
      <4>1. p \in reminding.left /\ reminding' = [reminding EXCEPT !.left = @ \ {p}, !.made = @ \cup {n}]
        BY <2>2, <3>2 DEF Remind
      <4>2. reminding.on /\ reminding \in [on : BOOLEAN, left : SUBSET Senders, made : SUBSET DOMAIN outbox]
        BY <4>1 DEF RemindInv, RoundType, NoRound
      <4>. QED  BY <4>1, <4>2
    <3>4. Live' = Live
      BY <3>1 DEF Live
    <3>5. MailTypeOK' /\ RoundType'
      BY <3>1, <3>2, <3>3 DEF RemindInv, MailTypeOK, RoundType, Never
    <3>6. LiveOnce' /\ MovedPast'
      BY <2>0, <3>1, <3>2, <3>4, SMTT(30) DEF RemindInv, LiveOnce, MovedPast, Timed, Never
    <3>7. RoundApart'
      BY <2>0, <3>1, <3>2, <3>3, <3>4 DEF RemindInv, RoundApart, RoundType, DueNow, Never
    <3>. QED  BY <3>5, <3>6, <3>7 DEF RemindInv
  <2>3. ASSUME NEW i \in DOMAIN threads, Deliver(i)
        PROVE  RemindInv'
    <3>1. MailTypeOK' /\ Live' \subseteq Live
      BY <2>3 DEF Deliver, RemindInv, MailTypeOK, Live
    <3>. QED  BY <2>3, <2>a, <3>1 DEF Deliver
  <2>4. ASSUME NEW i \in DOMAIN threads, Written(i)
        PROVE  RemindInv'
    <3>1. /\ outbox' \in Seq(Mails) /\ DOMAIN outbox' = DOMAIN outbox
          /\ \A j \in DOMAIN outbox : outbox'[j].due = outbox[j].due /\ outbox'[j].to = outbox[j].to
      <4>1. outbox' = [outbox EXCEPT ![i].status = threads[i]] /\ i \in DOMAIN outbox
            /\ threads[i] \in {"sending", "sent", "failed"}
        BY <2>4 DEF Written, RemindInv, MailTypeOK
      <4>2. outbox[i] \in Mails /\ [outbox[i] EXCEPT !.status = threads[i]] \in Mails
        BY <2>0, <4>1 DEF Mails
      <4>3. outbox' = [outbox EXCEPT ![i] = [outbox[i] EXCEPT !.status = threads[i]]]
        BY <4>1
      <4>4. outbox' \in Seq(Mails) /\ DOMAIN outbox' = DOMAIN outbox
        BY <2>0, <4>1, <4>2, <4>3
      <4>5. \A j \in DOMAIN outbox : outbox'[j] = IF j = i THEN [outbox[i] EXCEPT !.status = threads[i]] ELSE outbox[j]
        BY <2>0, <4>1, <4>3
      <4>6. /\ [outbox[i] EXCEPT !.status = threads[i]].due = outbox[i].due
            /\ [outbox[i] EXCEPT !.status = threads[i]].to = outbox[i].to
        BY <4>2 DEF Mails
      <4>. QED  BY <4>4, <4>5, <4>6
    <3>2. /\ UNCHANGED <<reached, remindAt, reminding, today>> /\ DOMAIN threads' = DOMAIN threads \ {i}
          /\ \A j \in DOMAIN threads' : threads'[j] = threads[j]
      BY <2>4 DEF Written
    <3>3. Live' \subseteq Live
      BY <3>2 DEF Live
    <3>4. MailTypeOK' /\ RoundType'
      BY <3>1, <3>2 DEF RemindInv, MailTypeOK, RoundType, Never
    <3>5. LiveOnce' /\ MovedPast'
      BY <2>0, <3>1, <3>2, <3>3 DEF RemindInv, LiveOnce, MovedPast, Timed, Never
    <3>6. DueNow' = DueNow
      BY <3>2 DEF DueNow, Never
    <3>7. RoundApart'
      BY <3>1, <3>2, <3>3, <3>6 DEF RemindInv, RoundType, RoundApart
    <3>. QED  BY <3>4, <3>5, <3>7 DEF RemindInv
  <2>5. CASE SetReminders
    <3>1. /\ remindAt' \in {Never, today + 1} /\ UNCHANGED <<outbox, reached, threads, reminding, today>>
          /\ reminding.made = {}
      BY <2>5 DEF SetReminders, LockFree, RemindInv, RoundType, NoRound
    <3>2. Live' = Live
      BY <3>1 DEF Live
    <3>3. MailTypeOK' /\ RoundType'
      BY <2>0, <3>1 DEF RemindInv, MailTypeOK, RoundType, Never
    <3>4. LiveOnce' /\ MovedPast' /\ RoundApart'
      BY <2>0, <3>1, <3>2 DEF RemindInv, LiveOnce, MovedPast, RoundApart, Timed, Never, Mails
    <3>. QED  BY <3>3, <3>4 DEF RemindInv
  <2>6. CASE BeginReminding
    <3>1. /\ reminding'.made = {} /\ reminding'.on /\ UNCHANGED <<outbox, reached, threads, remindAt, today>>
          /\ reminding' \in [on : BOOLEAN, left : SUBSET Senders, made : SUBSET DOMAIN outbox]
      BY <2>6 DEF BeginReminding
    <3>2. Live' = Live
      BY <3>1 DEF Live
    <3>. QED
      BY <2>0, <3>1, <3>2
      DEF RemindInv, MailTypeOK, RoundType, LiveOnce, MovedPast, RoundApart, Timed, DueNow
  <2>7. CASE MoveOn
    \* The round's own were due at a time now past, or are not timed.
    <3>1. /\ reminding.on /\ remindAt' = (IF remindAt = Never THEN Never ELSE today + 1)
          /\ reminding' = NoRound /\ UNCHANGED <<outbox, reached, today>>
      BY <2>7 DEF MoveOn
    <3>2. /\ DOMAIN threads' = DOMAIN threads \cup reminding.made
          /\ \A i \in DOMAIN threads' :
                threads'[i] = IF i \in DOMAIN threads THEN threads[i] ELSE "delivering"
      BY <2>7 DEF MoveOn, Delivers
    <3>3. Live' = Live \cup reminding.made
      BY <3>1, <3>2 DEF Live
    <3>4. MailTypeOK' /\ RoundType'
      BY <2>0, <3>1, <3>2 DEF RemindInv, MailTypeOK, RoundType, NoRound, Never
    <3>5. LiveOnce'
      BY <2>0, <3>1, <3>3, SMTT(30) DEF RemindInv, RoundType, LiveOnce, MovedPast, RoundApart, Timed, DueNow, Never
    <3>6. MovedPast'
      BY <2>0, <3>1, <3>3 DEF RemindInv, RoundType, MovedPast, RoundApart, Timed, DueNow, Never, Mails
    <3>7. RoundApart'
      BY <3>1 DEF RoundApart, NoRound
    <3>. QED  BY <3>4, <3>5, <3>6, <3>7 DEF RemindInv
  <2>8. CASE DayPasses
    <3>1. /\ today < MaxDay /\ today' = today + 1 /\ UNCHANGED <<outbox, reached, threads, remindAt, reminding>>
          /\ reminding.made = {}
      BY <2>8 DEF DayPasses, LockFree, RemindInv, RoundType, NoRound
    <3>2. Live' = Live
      BY <3>1 DEF Live
    <3>3. MailTypeOK' /\ RoundType'
      BY <2>0, <3>1 DEF RemindInv, MailTypeOK, RoundType, Never
    <3>4. LiveOnce' /\ MovedPast' /\ RoundApart'
      BY <2>0, <3>1, <3>2 DEF RemindInv, LiveOnce, MovedPast, RoundApart, Timed, Never, Mails
    <3>. QED  BY <3>3, <3>4 DEF RemindInv
  <2>9. CASE ServerStops
    <3>1. threads' = <<>> /\ reminding' = NoRound /\ UNCHANGED <<outbox, reached, remindAt, today>>
      BY <2>9 DEF ServerStops
    <3>2. DOMAIN threads' = {} /\ Live' \subseteq Live
      BY <3>1 DEF Live
    <3>. QED
      BY <3>1, <3>2
      DEF RemindInv, MailTypeOK, RoundType, LiveOnce, MovedPast, RoundApart, Timed, DueNow, NoRound, Never
  <2>10. CASE UNCHANGED mailVars
    <3>1. MailTypeOK' /\ Live' = Live
      BY <2>10 DEF mailVars, RemindInv, MailTypeOK, Live
    <3>. QED  BY <2>10, <2>a, <3>1 DEF mailVars
  <2>. QED
    BY <2>1, <2>2, <2>3, <2>4, <2>5, <2>6, <2>7, <2>8, <2>9, <2>10 DEF MailNext
<1>3. RemindInv => RemindedOnce
  BY DEF RemindInv, LiveOnce, RemindedOnce, Live, Timed
<1>. QED  BY <1>1, <1>2, <1>3, PTL DEF MailSpec

-----------------------------------------------------------------------------
(* What scheduled imports bring: nothing read is missed or applied twice, and   *)
(* a job switched on has a time to run at. The first and the last hold of a     *)
(* job that is not changed while it runs (EditsInRuns = FALSE): the run         *)
(* ImportsMoved shows what happens otherwise.                                   *)

\* All that system s did up to a moment was received.
Covered(s, moment) == s \notin Whole => \A n \in 1..moment[s] : Received(s, n)

\* A run between its copy of the job and its end: the job is as it was copied, and
\* the run has read, or been given, all that happened before it started.
InRunInv(r) ==
    LET s == runs[r].job.source
    IN  /\ s = job.source /\ runs[r].job.enabled = job.enabled
        /\ runs[r].started[s] <= changes[s]
        /\ Covered(s, runs[r].job.cursor)
        /\ runs[r].at = "read" /\ runs[r].got = Nothing => Covered(s, runs[r].started)
        /\ runs[r].at = "read" /\ runs[r].got # Nothing =>
              runs[r].got[1] = s /\ runs[r].started[s] <= runs[r].got[2]
        /\ runs[r].at = "good" => Covered(s, runs[r].started)

RunInv ==
    \A r \in Runners :
        /\ runs[r].at = "listed" => \A s \in Sources : runs[r].started[s] <= changes[s]
        /\ runs[r].at \in {"copied", "read", "good", "failed"} => InRunInv(r)

IInv == ImportsTypeOK /\ NothingMissed /\ EnabledIsScheduled /\ RunInv

-----------------------------------------------------------------------------
LEMMA BeginningIsAMoment == Beginning \in Moments
BY ImportsBoundAssumption DEF Beginning, Moments

LEMMA InitType == ImportsInit => ImportsTypeOK
<1> SUFFICES ASSUME ImportsInit
             PROVE  ImportsTypeOK
  OBVIOUS
<1>1. job \in Jobs /\ changes \in Moments
  BY BeginningIsAMoment DEF ImportsInit, Jobs
<1>2. runs \in [Runners -> Runs]
  BY DEF ImportsInit, Runs, NoRun
<1>3. company \in Contents \cup {Nothing} /\ logged \subseteq Contents /\ made \in [Contents -> Nat]
      /\ cut \subseteq Contents
  BY DEF ImportsInit
<1> QED
  BY <1>1, <1>2, <1>3 DEF ImportsTypeOK

\* The states of a run, one by one.
LEMMA RunKinds ==
    ASSUME ImportsTypeOK, NEW r \in Runners
    PROVE  /\ runs[r].at \in {"idle", "listed", "copied", "read", "good", "failed"}
           /\ runs[r].at = "idle" => runs[r] = NoRun
           /\ runs[r].at = "listed" => runs[r] \in [at : {"listed"}, started : Moments]
           /\ runs[r].at \in {"copied", "read", "good", "failed"} =>
                 runs[r] \in [at : {"copied", "read", "good", "failed"}, job : Jobs,
                              started : Moments, got : Contents \cup {Nothing}]
<1>1. runs[r] \in Runs
  BY DEF ImportsTypeOK
<1> QED
  BY <1>1 DEF Runs, NoRun

LEMMA TypeStep == ImportsTypeOK /\ [ImportsNext]_importsVars => ImportsTypeOK'
<1> SUFFICES ASSUME ImportsTypeOK, [ImportsNext]_importsVars
             PROVE  ImportsTypeOK'
  OBVIOUS
<1> USE DEF ImportsTypeOK
<1>1. ASSUME NEW s \in Sources, Change(s)
      PROVE  ImportsTypeOK'
  BY <1>1, ImportsBoundAssumption DEF Change, Moments
<1>2. CASE Edit
  BY <1>2 DEF Edit
<1>3. ASSUME NEW s \in Sources, NEW on \in BOOLEAN, SaveJob(s, on)
      PROVE  ImportsTypeOK'
  <2>1. job' \in Jobs
    <3>1. /\ job.source \in Sources /\ job.cursor \in Moments
          /\ job.deleted \in BOOLEAN /\ job.next \in {"never", "later", "due"}
      BY DEF Jobs
    <3>2. PICK cursor \in Moments, next \in {"never", "later", "due"} :
             job' = [job EXCEPT !.source = s, !.enabled = on, !.next = next, !.cursor = cursor]
      BY <1>3, <3>1, BeginningIsAMoment DEF SaveJob, NextTime
    <3> QED
      BY <3>1, <3>2 DEF Jobs
  <2> QED
    BY <1>3, <2>1 DEF SaveJob
<1>4. CASE DeleteJob
  BY <1>4 DEF DeleteJob, Jobs
<1>5. CASE TimeComes
  BY <1>5 DEF TimeComes, Jobs
<1>6. ASSUME NEW r \in Runners, Step(r)
      PROVE  ImportsTypeOK'
  <2>1. CASE List(r)
    BY <2>1 DEF List, Becomes, Runs
  <2>2. CASE Copy(r)
    <3>1. ASSUME NEW started \in Moments
          PROVE  InRun("copied", job, started, Nothing) \in Runs
      BY DEF InRun, Runs
    <3>2. runs[r].at = "listed" => runs[r].started \in Moments
      BY RunKinds
    <3> QED
      BY <2>2, <3>1, <3>2 DEF Copy, Becomes
  <2>3. CASE Gone(r) \/ Stops(r)
    BY <2>3 DEF Gone, Stops, Becomes, Runs, NoRun
  <2>4. CASE Read(r)
    <3> DEFINE s == runs[r].job.source
    <3>1. runs[r] \in [at : {"copied", "read", "good", "failed"}, job : Jobs,
                       started : Moments, got : Contents \cup {Nothing}]
      BY <2>4, RunKinds DEF Read
    <3>2. s \in Sources /\ runs[r].job.cursor \in Moments
      BY <3>1 DEF Jobs
    <3>3. (changes[s] > IF s \in Whole THEN 0 ELSE runs[r].job.cursor[s]) => <<s, changes[s]>> \in Contents
      <4>1. changes[s] \in 0..MaxChanges /\ runs[r].job.cursor[s] \in 0..MaxChanges
        BY <3>2 DEF Moments
      <4> QED
        BY <4>1, <3>2, ImportsBoundAssumption DEF Contents
    <3> HIDE DEF s
    <3>4. PICK got \in Contents \cup {Nothing} : runs' = [runs EXCEPT ![r] = [runs[r] EXCEPT !.at = "read", !.got = got]]
      BY <2>4, <3>3 DEF Read, Becomes, s
    <3>5. [runs[r] EXCEPT !.at = "read", !.got = got] \in Runs
      BY <3>1 DEF Runs
    <3> QED
      BY <2>4, <3>4, <3>5 DEF Read
  <2>5. CASE Fails(r)
    <3>1. [runs[r] EXCEPT !.at = "failed"] \in Runs
      BY <2>5, RunKinds DEF Fails, Runs
    <3> QED
      BY <2>5, <3>1 DEF Fails, Becomes
  <2>6. CASE Receive(r)
    <3>1. runs[r].at = "read" => runs[r].got \in Contents \cup {Nothing}
      BY RunKinds
    <3>2. runs[r].at = "read" => [runs[r] EXCEPT !.at = "good"] \in Runs
      BY RunKinds DEF Runs
    <3>3. made' \in [Contents -> Nat] /\ company' \in Contents \cup {Nothing}
      BY <2>6, <3>1 DEF Receive
    <3> QED
      BY <2>6, <3>1, <3>2, <3>3 DEF Receive, Becomes
  <2>7. CASE Finish(r)
    <3>1. /\ runs[r].at \in {"copied", "read", "good", "failed"}
          /\ runs[r].started \in Moments /\ runs[r].job \in Jobs
      BY <2>7, RunKinds DEF Finish
    <3>2. job' \in Jobs
      BY <2>7, <3>1 DEF Finish, Jobs, NextTime
    <3> QED
      BY <2>7, <3>2 DEF Finish, Becomes, Runs, NoRun
  <2>8. CASE Breaks(r)
    <3>1. job' \in Jobs
      BY <2>8 DEF Breaks, Jobs, NextTime
    <3> QED
      BY <2>8, <3>1 DEF Breaks, Becomes, Runs, NoRun
  <2>9. CASE StopsInReceive(r)
    <3>1. runs[r].at = "read" => runs[r].got \in Contents \cup {Nothing}
      BY RunKinds
    <3>2. made' \in [Contents -> Nat] /\ company' \in Contents \cup {Nothing}
      BY <2>9, <3>1 DEF StopsInReceive
    <3> QED
      BY <2>9, <3>2 DEF StopsInReceive, Becomes, Runs, NoRun
  <2> QED
    BY <1>6, <2>1, <2>2, <2>3, <2>4, <2>5, <2>6, <2>7, <2>8, <2>9 DEF Step
<1>7. CASE UNCHANGED importsVars
  BY <1>7 DEF importsVars
<1> QED
  BY <1>1, <1>2, <1>3, <1>4, <1>5, <1>6, <1>7 DEF ImportsNext

\* Type correctness of every reachable state.
THEOREM TypeCorrect == ImportsSpec => []ImportsTypeOK
BY InitType, TypeStep, PTL DEF ImportsSpec

-----------------------------------------------------------------------------
(* Nothing is missed.                                                        *)

\* What was received stays received.
LEMMA LoggedGrows == [ImportsNext]_importsVars => logged \subseteq logged'
BY DEF ImportsNext, importsVars, Change, Edit, SaveJob, DeleteJob, TimeComes, Step, List, Copy, Gone, Read, Fails,
       Receive, Finish, Breaks, StopsInReceive, Stops

LEMMA StaysCovered ==
    ASSUME logged \subseteq logged', NEW s, NEW moment, Covered(s, moment)
    PROVE  Covered(s, moment)'
BY DEF Covered, Received

\* Covered at a moment is covered at any earlier one.
LEMMA EarlierCovered ==
    ASSUME NEW s \in Sources, NEW m \in Moments, NEW n \in Moments, n[s] <= m[s], Covered(s, m)
    PROVE  Covered(s, n)
<1>1. m[s] \in Int /\ n[s] \in Int
  BY ImportsBoundAssumption DEF Moments
<1> QED
  BY <1>1 DEF Covered

\* A run that goes on from one phase of its own to the next, the job staying as it
\* is, leaves the other runs and the job as the invariant has them.
LEMMA OtherRuns ==
    ASSUME IInv, [ImportsNext]_importsVars, NEW r \in Runners,
           \A q \in Runners \ {r} : runs'[q] = runs[q],
           changes' = changes, job'.source = job.source, job'.enabled = job.enabled,
           NEW q \in Runners \ {r}
    PROVE  /\ runs'[q].at = "listed" => \A s \in Sources : runs'[q].started[s] <= changes'[s]
           /\ runs'[q].at \in {"copied", "read", "good", "failed"} => InRunInv(q)'
<1>1. logged \subseteq logged'
  BY LoggedGrows
<1>2. runs'[q] = runs[q]
  OBVIOUS
<1>3. CASE runs[q].at = "listed"
  BY <1>2, <1>3 DEF IInv, RunInv
<1>4. ASSUME runs[q].at \in {"copied", "read", "good", "failed"}
      PROVE  InRunInv(q)'
  <2>1. InRunInv(q)
    BY <1>4 DEF IInv, RunInv
  <2>2. PICK s : s = runs[q].job.source
    OBVIOUS
  <2>3. PICK cursor : cursor = runs[q].job.cursor
    OBVIOUS
  <2>4. PICK started : started = runs[q].started
    OBVIOUS
  <2>5. /\ Covered(s, cursor) => Covered(s, cursor)'
        /\ Covered(s, started) => Covered(s, started)'
    BY <1>1, StaysCovered
  <2> QED
    BY <1>2, <2>1, <2>2, <2>3, <2>4, <2>5 DEF InRunInv
<1> QED
  BY <1>2, <1>3, <1>4

\* What is known of a run in one of its phases.
LEMMA InPhase ==
    ASSUME IInv, NEW r \in Runners, runs[r].at \in {"copied", "read", "good", "failed"}
    PROVE  /\ InRunInv(r)
           /\ runs[r].job.source \in Sources /\ runs[r].job.cursor \in Moments
           /\ runs[r].started \in Moments /\ runs[r].got \in Contents \cup {Nothing}
BY RunKinds DEF IInv, RunInv, Jobs

\* The phases of the run that steps.
LEMMA OwnRun ==
    ASSUME IInv, [ImportsNext]_importsVars, NEW r \in Runners, Step(r)
    PROVE  /\ runs'[r].at = "listed" => \A s \in Sources : runs'[r].started[s] <= changes'[s]
           /\ runs'[r].at \in {"copied", "read", "good", "failed"} => InRunInv(r)'
<1> DEFINE Own == /\ runs'[r].at = "listed" => \A s \in Sources : runs'[r].started[s] <= changes'[s]
                  /\ runs'[r].at \in {"copied", "read", "good", "failed"} => InRunInv(r)'
<1>0. /\ logged \subseteq logged' /\ runs \in [Runners -> Runs]
      /\ \A s \in Sources : changes[s] \in 0..MaxChanges
      /\ job.source \in Sources /\ job.cursor \in Moments
  BY LoggedGrows DEF IInv, ImportsTypeOK, Moments, Jobs
<1>1. CASE List(r)
  <2>1. runs'[r] = [at |-> "listed", started |-> changes] /\ changes' = changes
    BY <1>0, <1>1 DEF List, Becomes
  <2> QED
    BY <1>0, <2>1
<1>2. CASE Copy(r)
  <2>1. PICK started : /\ runs'[r] = InRun("copied", job, started, Nothing)
                       /\ \A s \in Sources : started[s] <= changes[s]
    <3>1. CASE runs[r].at = "listed"
      <4>1. \A s \in Sources : runs[r].started[s] <= changes[s]
        BY <3>1 DEF IInv, RunInv
      <4> QED
        BY <1>0, <1>2, <3>1, <4>1 DEF Copy, Becomes, NoRun
    <3>2. CASE runs[r].at # "listed"
      <4>1. \A s \in Sources : changes[s] <= changes[s]
        BY <1>0
      <4> QED
        BY <1>0, <1>2, <3>2, <4>1 DEF Copy, Becomes
    <3> QED
      BY <3>1, <3>2
  <2>2. Covered(job.source, job.cursor)
    BY DEF IInv, NothingMissed, Covered
  <2>3. Covered(job.source, job.cursor)'
    BY <1>2, <2>2 DEF Copy, Covered, Received
  <2>4. job' = job /\ changes' = changes
    BY <1>2 DEF Copy
  <2> QED
    BY <1>0, <2>1, <2>3, <2>4 DEF InRun, InRunInv
<1>3. CASE Gone(r) \/ Finish(r) \/ Breaks(r) \/ StopsInReceive(r) \/ Stops(r)
  <2>1. runs'[r] = NoRun
    BY <1>0, <1>3 DEF Gone, Finish, Breaks, StopsInReceive, Stops, Becomes
  <2> QED
    BY <2>1 DEF NoRun
<1>4. CASE Read(r)
  <2>1. /\ runs[r].at = "copied" /\ job' = job /\ changes' = changes /\ logged' = logged
    BY <1>4 DEF Read
  <2>2. PICK s \in Sources : s = runs[r].job.source
    BY <2>1, InPhase
  <2>3. PICK cursor \in Moments, started \in Moments :
           cursor = runs[r].job.cursor /\ started = runs[r].started
    BY <2>1, InPhase
  <2>4. /\ s = job.source /\ runs[r].job.enabled = job.enabled
        /\ started[s] <= changes[s] /\ Covered(s, cursor)
    BY <2>1, <2>2, <2>3, InPhase DEF InRunInv
  <2>5. PICK got : /\ got = IF changes[s] > (IF s \in Whole THEN 0 ELSE cursor[s])
                            THEN <<s, changes[s]>> ELSE Nothing
                   /\ runs'[r] = [runs[r] EXCEPT !.at = "read", !.got = got]
    BY <1>0, <1>4, <2>2, <2>3 DEF Read, Becomes
  <2>6. /\ runs'[r].at = "read" /\ runs'[r].got = got
        /\ runs'[r].job = runs[r].job /\ runs'[r].started = started
    BY <2>1, <2>3, <2>5, RunKinds DEF IInv
  <2>7. ASSUME got = Nothing
        PROVE  Covered(s, started)
    <3>1. CASE s \in Whole
      BY <3>1 DEF Covered
    <3>2. CASE s \notin Whole
      <4>1. <<s, changes[s]>> # Nothing \/ ~(changes[s] > cursor[s])
        <5>1. cursor[s] \in 0..MaxChanges /\ changes[s] \in 0..MaxChanges
          BY <1>0 DEF Moments
        <5>2. changes[s] > cursor[s] => changes[s] \in 1..MaxChanges
          BY <5>1, ImportsBoundAssumption
        <5> QED
          BY <5>2, NothingAssumption
      <4>2. changes[s] <= cursor[s]
        <5>1. cursor[s] \in 0..MaxChanges /\ changes[s] \in 0..MaxChanges
          BY <1>0 DEF Moments
        <5> QED
          BY <2>5, <2>7, <3>2, <4>1, <5>1, ImportsBoundAssumption
      <4>3. started[s] <= cursor[s]
        <5>1. /\ cursor[s] \in 0..MaxChanges /\ changes[s] \in 0..MaxChanges
              /\ started[s] \in 0..MaxChanges
          BY <1>0 DEF Moments
        <5> QED
          BY <2>4, <4>2, <5>1, ImportsBoundAssumption
      <4> QED
        BY <2>4, <4>3, EarlierCovered
    <3> QED
      BY <3>1, <3>2
  <2>8. got # Nothing => got[1] = s /\ started[s] <= got[2]
    BY <2>4, <2>5
  <2>9. /\ Covered(s, cursor)' /\ (got = Nothing => Covered(s, started)')
    BY <2>1, <2>4, <2>7 DEF Covered, Received
  <2> QED
    BY <2>1, <2>2, <2>3, <2>4, <2>6, <2>8, <2>9 DEF InRunInv
<1>5. CASE Fails(r)
  <2>1. /\ runs[r].at \in {"copied", "read"} /\ job' = job /\ changes' = changes /\ logged' = logged
        /\ runs' = [runs EXCEPT ![r] = [runs[r] EXCEPT !.at = "failed"]]
    BY <1>5 DEF Fails, Becomes
  <2>2. /\ runs'[r].at = "failed"
        /\ runs'[r].job = runs[r].job /\ runs'[r].started = runs[r].started
    BY <1>0, <2>1, RunKinds DEF IInv
  <2>3. InRunInv(r)
    BY <2>1, InPhase
  <2>4. PICK s, cursor, started :
           s = runs[r].job.source /\ cursor = runs[r].job.cursor /\ started = runs[r].started
    OBVIOUS
  <2>5. Covered(s, cursor)'
    BY <1>0, <2>3, <2>4, StaysCovered DEF InRunInv
  <2> QED
    BY <2>1, <2>2, <2>3, <2>4, <2>5 DEF InRunInv
<1>6. CASE Receive(r)
  <2>1. PICK got \in Contents \cup {Nothing} :
           /\ got = runs[r].got /\ runs[r].at = "read" /\ logged' = logged \cup ({got} \ {Nothing})
           /\ job' = job /\ changes' = changes
           /\ runs' = [runs EXCEPT ![r] = [runs[r] EXCEPT !.at = "good"]]
    BY <1>6, InPhase DEF Receive, Becomes
  <2>2. /\ runs'[r].at = "good"
        /\ runs'[r].job = runs[r].job /\ runs'[r].started = runs[r].started
    BY <1>0, <2>1, RunKinds DEF IInv
  <2>3. InRunInv(r)
    BY <2>1, InPhase
  <2>4. PICK s \in Sources, cursor \in Moments, started \in Moments :
           s = runs[r].job.source /\ cursor = runs[r].job.cursor /\ started = runs[r].started
    BY <2>1, InPhase
  <2>5. Covered(s, cursor)'
    BY <1>0, <2>3, <2>4, StaysCovered DEF InRunInv
  <2>6. Covered(s, started)'
    <3>1. CASE got = Nothing
      <4>1. Covered(s, started)
        BY <2>1, <2>3, <2>4, <3>1 DEF InRunInv
      <4> QED
        BY <1>0, <4>1, StaysCovered
    <3>2. CASE got # Nothing
      <4>1. got[1] = s /\ started[s] <= got[2]
        BY <2>1, <2>3, <2>4, <3>2 DEF InRunInv
      <4>2. got = <<s, got[2]>> /\ got[2] \in 1..MaxChanges /\ got \in logged'
        BY <2>1, <3>2, <4>1 DEF Contents
      <4>3. ASSUME NEW n \in 1..started[s]
            PROVE  got[2] \in n..MaxChanges
        <5>1. started[s] \in 0..MaxChanges
          BY DEF Moments
        <5> QED
          BY <4>1, <4>2, <4>3, <5>1, ImportsBoundAssumption
      <4>4. ASSUME NEW n \in 1..started[s]
            PROVE  Received(s, n)'
        BY <4>2, <4>3, <4>4 DEF Received
      <4> QED
        BY <4>4 DEF Covered
    <3> QED
      BY <3>1, <3>2
  <2> QED
    BY <2>1, <2>2, <2>3, <2>4, <2>5, <2>6 DEF InRunInv
<1> QED
  BY <1>1, <1>2, <1>3, <1>4, <1>5, <1>6 DEF Step

\* The step, when the job is not changed while it runs.
LEMMA Inductive ==
    ASSUME EditsInRuns = FALSE, IInv, [ImportsNext]_importsVars
    PROVE  IInv'
<1>0. ImportsTypeOK' /\ logged \subseteq logged' /\ runs \in [Runners -> Runs]
  BY TypeStep, LoggedGrows DEF IInv, ImportsTypeOK
<1>1. ASSUME NEW s \in Sources, Change(s)
      PROVE  IInv'
  <2>1. \A q \in Sources : changes[q] <= changes'[q] /\ changes[q] \in Int /\ changes'[q] \in Int
    BY <1>1, ImportsBoundAssumption DEF Change, IInv, ImportsTypeOK, Moments
  <2>2. NothingMissed' /\ EnabledIsScheduled'
    BY <1>1 DEF Change, IInv, NothingMissed, EnabledIsScheduled, Received
  <2>3. ASSUME NEW r \in Runners, runs'[r].at = "listed", NEW q \in Sources
        PROVE  runs'[r].started[q] <= changes'[q]
    <3>1. runs[r].started[q] <= changes[q] /\ runs[r].started \in Moments
      BY <1>1, <2>3, RunKinds DEF Change, IInv, RunInv
    <3>2. PICK n \in Int : n = runs[r].started[q]
      BY <3>1, ImportsBoundAssumption DEF Moments
    <3> QED
      BY <1>1, <2>1, <3>1, <3>2 DEF Change
  <2>4. ASSUME NEW r \in Runners, runs'[r].at \in {"copied", "read", "good", "failed"}
        PROVE  InRunInv(r)'
    <3>1. runs' = runs /\ logged' = logged /\ job' = job
      BY <1>1 DEF Change
    <3>2. InRunInv(r) /\ runs[r].job.source \in Sources /\ runs[r].started \in Moments
      BY <2>4, <3>1, InPhase
    <3>3. runs[r].started[runs[r].job.source] <= changes'[runs[r].job.source]
      <4>1. PICK q \in Sources : q = runs[r].job.source
        BY <3>2
      <4>2. PICK n \in Int : n = runs[r].started[q]
        BY <3>2, ImportsBoundAssumption DEF Moments
      <4> QED
        BY <2>1, <3>2, <4>1, <4>2 DEF InRunInv
    <3> QED
      BY <3>1, <3>2, <3>3 DEF InRunInv, Covered, Received
  <2> QED
    BY <1>0, <2>2, <2>3, <2>4 DEF IInv, RunInv
<1>2. CASE Edit \/ TimeComes \/ UNCHANGED importsVars
  <2>1. /\ UNCHANGED <<changes, runs, logged>> /\ job'.source = job.source /\ job'.enabled = job.enabled
        /\ job'.cursor = job.cursor
    BY <1>2 DEF Edit, TimeComes, importsVars, IInv, ImportsTypeOK, Jobs
  <2>2. NothingMissed' /\ RunInv'
    BY <2>1 DEF IInv, NothingMissed, RunInv, InRunInv, Covered, Received
  <2>3. EnabledIsScheduled'
    BY <1>2 DEF Edit, TimeComes, importsVars, IInv, ImportsTypeOK, Jobs, EnabledIsScheduled
  <2> QED
    BY <1>0, <2>2, <2>3 DEF IInv
<1>3. CASE DeleteJob \/ \E s \in Sources, on \in BOOLEAN : SaveJob(s, on)
  <2>1. UNCHANGED <<changes, runs, logged>> /\ \A r \in Runners : runs[r].at \in {"idle", "listed"}
    BY <1>3 DEF DeleteJob, SaveJob, MayEdit
  <2>2. RunInv'
    BY <2>1 DEF RunInv, IInv
  <2>3. EnabledIsScheduled'
    <3>1. job \in Jobs
      BY DEF IInv, ImportsTypeOK
    <3>2. CASE DeleteJob
      BY <3>1, <3>2 DEF DeleteJob, Jobs, EnabledIsScheduled
    <3>3. ASSUME NEW s \in Sources, NEW on \in BOOLEAN, SaveJob(s, on)
          PROVE  EnabledIsScheduled'
      <4>1. job'.enabled = on /\ job'.next = NextTime(on)
        BY <3>1, <3>3 DEF SaveJob, Jobs
      <4> QED
        BY <4>1 DEF NextTime, EnabledIsScheduled
    <3> QED
      BY <1>3, <3>2, <3>3
  <2>4. NothingMissed'
    <3>1. \/ job'.source = job.source /\ job'.cursor = job.cursor
          \/ job'.source \in Sources /\ job'.cursor = Beginning
      BY <1>3 DEF DeleteJob, SaveJob, IInv, ImportsTypeOK, Jobs
    <3>2. \A s \in Sources : 1..Beginning[s] = {}
      BY DEF Beginning
    <3> QED
      BY <2>1, <3>1, <3>2 DEF IInv, NothingMissed, Received
  <2> QED
    BY <1>0, <2>2, <2>3, <2>4 DEF IInv
<1>4. ASSUME NEW r \in Runners, Step(r)
      PROVE  IInv'
  <2>1. /\ changes' = changes
        /\ job'.source = job.source /\ job'.enabled = job.enabled
        /\ \A q \in Runners \ {r} : runs'[q] = runs[q]
    BY <1>0, <1>4 DEF Step, List, Copy, Gone, Read, Fails, Receive, Finish, Breaks, StopsInReceive,
                      Stops, Becomes, IInv, ImportsTypeOK, Jobs
  <2>2. RunInv'
    <3>1. ASSUME NEW q \in Runners
          PROVE  /\ runs'[q].at = "listed" => \A s \in Sources : runs'[q].started[s] <= changes'[s]
                 /\ runs'[q].at \in {"copied", "read", "good", "failed"} => InRunInv(q)'
      BY <1>4, <2>1, OwnRun, OtherRuns
    <3> QED
      BY <3>1 DEF RunInv
  <2>3. CASE Finish(r)
    <3>1. /\ runs[r].at \in {"good", "failed"}
          /\ job' = [job EXCEPT !.next = NextTime(runs[r].job.enabled),
                                !.cursor = IF runs[r].at = "good" THEN runs[r].started
                                           ELSE runs[r].job.cursor]
      BY <2>3 DEF Finish
    <3>2. InRunInv(r)
      BY <3>1, InPhase
    <3>3. job'.next = NextTime(job.enabled) /\ job'.cursor \in {runs[r].started, runs[r].job.cursor}
      BY <3>1, <3>2 DEF InRunInv, IInv, ImportsTypeOK, Jobs
    <3>4. Covered(job.source, job'.cursor)
      BY <3>1, <3>2 DEF InRunInv, IInv, ImportsTypeOK, Jobs
    <3>5. PICK cursor : cursor = job'.cursor
      OBVIOUS
    <3>6. Covered(job.source, cursor)'
      BY <1>0, <2>1, <3>4, <3>5 DEF Covered, Received
    <3>7. NothingMissed'
      BY <2>1, <3>5, <3>6 DEF Covered, NothingMissed
    <3>8. EnabledIsScheduled'
      BY <2>1, <3>3 DEF EnabledIsScheduled, NextTime
    <3> QED
      BY <1>0, <2>2, <3>7, <3>8 DEF IInv
  <2>4. CASE ~Finish(r)
    <3>1. job'.cursor = job.cursor /\ (job'.next = job.next \/ job'.next = NextTime(job.enabled))
      BY <1>4, <2>4 DEF Step, List, Copy, Gone, Read, Fails, Receive, Breaks, StopsInReceive, Stops,
                        IInv, ImportsTypeOK, Jobs
    <3>2. NothingMissed'
      BY <1>0, <2>1, <3>1 DEF IInv, NothingMissed, Received
    <3>3. EnabledIsScheduled'
      BY <2>1, <3>1 DEF IInv, EnabledIsScheduled, NextTime
    <3> QED
      BY <1>0, <2>2, <3>2, <3>3 DEF IInv
  <2> QED
    BY <2>3, <2>4
<1> QED
  BY <1>1, <1>2, <1>3, <1>4 DEF ImportsNext

LEMMA InitInv == ImportsInit => IInv
<1> SUFFICES ASSUME ImportsInit
             PROVE  IInv
  OBVIOUS
<1>1. \A s \in Sources : 1..Beginning[s] = {}
  BY DEF Beginning
<1>2. job.source \in Sources /\ job.cursor = Beginning /\ job.next = "later"
  BY DEF ImportsInit
<1>3. \A r \in Runners : runs[r].at = "idle"
  BY DEF ImportsInit, NoRun
<1> QED
  BY <1>1, <1>2, <1>3, InitType DEF IInv, NothingMissed, EnabledIsScheduled, RunInv

\* Whatever fails, breaks, overlaps or stops, what the job will not ask for again
\* has been received, as long as it is not changed while it runs (run_job, since).
THEOREM NothingIsMissed ==
    ASSUME EditsInRuns = FALSE
    PROVE  ImportsSpec => []NothingMissed
<1>1. IInv /\ [ImportsNext]_importsVars => IInv'
  BY Inductive
<1>2. IInv => NothingMissed
  BY DEF IInv
<1> QED
  BY <1>1, <1>2, InitInv, PTL DEF ImportsSpec

\* ... and a job switched on has a time to run at (save_job, run_job, _gave_up).
THEOREM ScheduledWhenOn ==
    ASSUME EditsInRuns = FALSE
    PROVE  ImportsSpec => []EnabledIsScheduled
<1>1. IInv /\ [ImportsNext]_importsVars => IInv'
  BY Inductive
<1>2. IInv => EnabledIsScheduled
  BY DEF IInv
<1> QED
  BY <1>1, <1>2, InitInv, PTL DEF ImportsSpec

-----------------------------------------------------------------------------
(* Nothing is applied twice.                                                 *)

\* What was put into the company is in the log.
MadeInv == ImportsTypeOK /\ \A c \in Contents \ cut : made[c] <= 1 /\ (made[c] > 0 => c \in logged)

LEMMA MadeStep ==
    ASSUME MadeInv, [ImportsNext]_importsVars
    PROVE  MadeInv'
<1>0. ImportsTypeOK' /\ logged \subseteq logged'
  BY TypeStep, LoggedGrows DEF MadeInv
<1>1. ASSUME NEW r \in Runners, Receive(r)
      PROVE  MadeInv'
  <2>1. PICK got : got = runs[r].got
    OBVIOUS
  <2>0. cut' = cut
    BY <1>1 DEF Receive
  <2>2. CASE UNCHANGED made
    BY <1>0, <2>0, <2>2 DEF MadeInv
  <2>3. CASE ~UNCHANGED made
    <3>1. got \notin logged /\ got # Nothing /\ made' = [made EXCEPT ![got] = @ + 1] /\ got \in logged'
      BY <1>1, <2>1, <2>3 DEF Receive
    <3>2. made \in [Contents -> Nat]
      BY DEF MadeInv, ImportsTypeOK
    <3>3. ASSUME NEW c \in Contents \ cut
          PROVE  made'[c] <= 1 /\ (made'[c] > 0 => c \in logged')
      <4>1. CASE c = got
        <5>1. made[c] = 0
          BY <3>1, <3>2, <4>1 DEF MadeInv
        <5> QED
          BY <3>1, <3>2, <4>1, <5>1
      <4>2. CASE c # got
        BY <1>0, <3>1, <3>2, <4>2 DEF MadeInv
      <4> QED
        BY <4>1, <4>2
    <3> QED
      BY <1>0, <2>0, <3>3 DEF MadeInv
  <2> QED
    BY <2>2, <2>3
<1>2. ASSUME NEW r \in Runners, StopsInReceive(r)
      PROVE  MadeInv'
  <2>1. PICK got : got = runs[r].got
    OBVIOUS
  <2>2. made' = [made EXCEPT ![got] = @ + 1] /\ cut' = cut \cup {got}
    BY <1>2, <2>1 DEF StopsInReceive
  <2>3. made \in [Contents -> Nat]
    BY DEF MadeInv, ImportsTypeOK
  <2>4. \A c \in Contents \ cut' : c \notin cut /\ made'[c] = made[c]
    BY <2>2, <2>3
  <2> QED
    BY <1>0, <2>4 DEF MadeInv
<1>3. CASE ~\E r \in Runners : Receive(r) \/ StopsInReceive(r)
  <2>1. made' = made /\ cut' = cut
    BY <1>3 DEF ImportsNext, importsVars, Change, Edit, SaveJob, DeleteJob, TimeComes, Step, List, Copy, Gone, Read,
                Fails, Finish, Breaks, Stops
  <2> QED
    BY <1>0, <2>1 DEF MadeInv
<1> QED
  BY <1>1, <1>2, <1>3

\* However often a content is read, by the clock and by hand at once, after failures
\* and after edits, it is put into the company once at most, unless the server
\* stopped between the save and its log letter (receive).
THEOREM NeverTwice == ImportsSpec => []AppliedOnce
<1>1. ImportsInit => MadeInv
  <2>1. ASSUME ImportsInit
        PROVE  \A c \in Contents : made[c] = 0
    BY <2>1 DEF ImportsInit
  <2> QED
    BY <2>1, InitType DEF MadeInv
<1>2. MadeInv /\ [ImportsNext]_importsVars => MadeInv'
  BY MadeStep
<1>3. MadeInv => AppliedOnce
  BY DEF MadeInv, AppliedOnce
<1> QED
  BY <1>1, <1>2, <1>3, PTL DEF ImportsSpec
-----------------------------------------------------------------------------
(* What the ERP is told of an order.                                          *)

\* The versions, and the orders listed for the other system, written by now: lifecycles and withdrawals are numbered
\* up to t, and a withdrawal is listed with its own number.
VersionsTo(t) == {v \in Versions : v.mark <= t}
Outs(t) == {o \in [version : VersionsTo(t), ref : 0..MaxRefs, content : OrderContents \cup {Cancelled}, row : 0..MaxSaves] :
               o.version.of = "withdrawal" => o.row = o.version.mark}

\* Acknowledgements by now, where the withdrawals of `worked` have been worked off: of no other one is there any.
Acks(worked, t) == {a \in [ref : Numbers, version : VersionsTo(t)] :
                       a.version.of = "withdrawal" => a.version.mark \in worked}

\* A run of a sending job, by now.
OrderRuns(worked, t) == [step : {"idle", "read", "sending", "making", "marking"}, todo : Seq(Outs(t)),
                    acks : Seq(Acks(worked, t)), gone : Rows, found : 0..MaxRefs]

\* Where a run is: one that has looked for an order has it before it, one that marks a withdrawal has seen it closed.
Steady(run) == /\ run.step # "idle" => channel = "job"
               /\ run.step = "making" => run.todo # <<>>
               /\ run.step = "marking" => run.gone.gen \in closedFor

\* The server's runs and the asking ERP, with what they read and wrote.
UnderWay ==
    /\ sender \in [SendRuns -> OrderRuns(closedFor, tokens)]
    /\ \A r \in SendRuns : Steady(sender[r])
    /\ asked \in Seq(Outs(tokens))
    /\ mail \subseteq [id : 1..MaxAcks, ack : Acks(closedFor, tokens)]
    /\ asked # <<>> => channel = "asks"

\* What has been numbered so far.
Numbered == /\ order.gen <= tokens /\ \A p \in past : p.gen <= tokens
            /\ row.gen <= tokens /\ tokens <= saves

Open(n) == there[n].at = "open"

\* The copy a run has found is one, unless the order is to be cancelled.
Holds(run) == run.step = "making" /\ run.found # 0 => Ended(Head(run.todo)) \/ there[run.found].at # "unmade"

\* While no two runs looked in vain: one copy is open, or one run is about to make it.
OneInHand == /\ \A n, m \in Numbers : Open(n) /\ Open(m) => n = m
             /\ \A p, q \in SendRuns : Making(p) /\ Making(q) => p = q
             /\ \A q \in SendRuns, n \in Numbers : ~(Making(q) /\ Open(n))

\* The other system's copies.
CopiesOK == /\ crossed \/ OneInHand
            /\ \A q \in SendRuns : Holds(sender[q])
            /\ channel = "asks" => \A n \in Numbers \ {1} : there[n].at = "unmade"

ErpInv == ErpTypeOK /\ UnderWay /\ Numbered /\ CopiesOK /\ ClosedByItsOwn

LEMMA OutsGrow ==
    ASSUME NEW s \in Nat, NEW t \in Nat, s <= t
    PROVE  Outs(s) \subseteq Outs(t)
BY DEF Outs, VersionsTo, Versions

LEMMA AcksGrow ==
    ASSUME NEW s \in Nat, NEW t \in Nat, s <= t, NEW A, NEW B, A \subseteq B
    PROVE  Acks(A, s) \subseteq Acks(B, t)
BY DEF Acks, VersionsTo, Versions

LEMMA SeqsGrow ==
    ASSUME NEW A, NEW B, A \subseteq B, NEW s \in Seq(A)
    PROVE  s \in Seq(B)
BY SeqMonotonic

LEMMA OrderRunsGrow ==
    ASSUME NEW s \in Nat, NEW t \in Nat, s <= t, NEW A, NEW B, A \subseteq B
    PROVE  OrderRuns(A, s) \subseteq OrderRuns(B, t)
<1>1. Outs(s) \subseteq Outs(t) /\ Acks(A, s) \subseteq Acks(B, t)
  BY OutsGrow, AcksGrow
<1>2. Seq(Outs(s)) \subseteq Seq(Outs(t)) /\ Seq(Acks(A, s)) \subseteq Seq(Acks(B, t))
  BY <1>1, SeqsGrow
<1> QED
  BY <1>2 DEF OrderRuns

\* What is written stays well numbered while numbers are added and withdrawals worked off.
LEMMA UnderWayGrows ==
    ASSUME UnderWay, tokens \in Nat, tokens' \in Nat, tokens' >= tokens, closedFor \subseteq closedFor',
           UNCHANGED <<channel, sender, asked, mail>>
    PROVE  UnderWay'
<1>1. Outs(tokens) \subseteq Outs(tokens') /\ Acks(closedFor, tokens) \subseteq Acks(closedFor', tokens')
  BY OutsGrow, AcksGrow
<1>2. asked \in Seq(Outs(tokens'))
  BY <1>1, SeqsGrow DEF UnderWay
<1>3. sender \in [SendRuns -> OrderRuns(closedFor', tokens')]
  BY OrderRunsGrow DEF UnderWay
<1>4. \A r \in SendRuns : Steady(sender[r])'
  BY DEF UnderWay, Steady
<1> QED
  BY <1>1, <1>2, <1>3, <1>4 DEF UnderWay

-----------------------------------------------------------------------------
(* Saves by people.                                                           *)

LEMMA RevivedOrder ==
    ASSUME ErpInv, NEW after \in Orders, after.gen <= tokens, saves < MaxSaves
    PROVE  /\ Revive(order, after) \in Orders
           /\ Revive(order, after).gen <= tokens + 1
           /\ Revive(order, after).at = after.at
<1>1. /\ order \in Orders /\ order.gen \in Nat /\ order.gen <= tokens /\ tokens \in Nat /\ saves \in Nat
      /\ tokens <= saves /\ MaxSaves \in Nat /\ NoVersion \in Versions /\ tokens + 1 \in 0..MaxSaves
  BY ErpAssumption DEF ErpInv, ErpTypeOK, Numbered, Orders, NoVersion, Versions
<1>2. PICK g : g = order.gen /\ g \in 0..MaxSaves
  BY <1>1 DEF Orders
<1>3. [after EXCEPT !.sent = NoVersion, !.gen = tokens + 1] \in Orders
  BY <1>1 DEF Orders
<1>4. [after EXCEPT !.sent = NoVersion, !.gen = g] \in Orders
  BY <1>1, <1>2 DEF Orders
<1>5. Revive(order, after) \in {after, [after EXCEPT !.sent = NoVersion, !.gen = tokens + 1],
                                [after EXCEPT !.sent = NoVersion, !.gen = g]}
  BY <1>2 DEF Revive
<1>6. \A x \in Nat : /\ [after EXCEPT !.sent = NoVersion, !.gen = x].gen = x
                     /\ [after EXCEPT !.sent = NoVersion, !.gen = x].at = after.at
  BY DEF Orders
<1>7. PICK r : r = Revive(order, after)
  OBVIOUS
<1>8. CASE r = after
  BY <1>1, <1>7, <1>8 DEF Orders
<1>9. CASE r = [after EXCEPT !.sent = NoVersion, !.gen = tokens + 1]
  <2>1. r \in Orders /\ r.gen = tokens + 1 /\ r.at = after.at
    BY <1>1, <1>3, <1>6, <1>9
  <2> QED
    BY <1>1, <1>7, <2>1
<1>10. CASE r = [after EXCEPT !.sent = NoVersion, !.gen = g]
  <2>1. r \in Orders /\ r.gen = g /\ r.at = after.at
    BY <1>2, <1>4, <1>6, <1>10
  <2>2. g <= tokens + 1
    BY <1>1, <1>2
  <2> QED
    BY <1>7, <2>1, <2>2
<1> QED
  BY <1>5, <1>7, <1>8, <1>9, <1>10

LEMMA RowAfterIs ==
    ASSUME ErpInv, NEW after \in Orders, saves < MaxSaves
    PROVE  /\ RowAfter(order, after) \in Rows
           /\ RowAfter(order, after).gen <= tokens + 1
           /\ RowAfter(order, after).taken => RowAfter(order, after) = row
<1>1. /\ order \in Orders /\ tokens \in Nat /\ tokens + 1 \in 0..MaxSaves /\ row \in Rows /\ row.gen \in Nat
      /\ row.gen <= tokens /\ {MaxRefs, MaxSaves} \subseteq Nat
  BY ErpAssumption DEF ErpInv, ErpTypeOK, Numbered, Rows
<1>2. CASE IsHere(after) /\ ~IsHere(order)
  BY <1>1, <1>2 DEF RowAfter, NoRow, Rows
<1>3. CASE ~(IsHere(after) /\ ~IsHere(order)) /\ order.ref # 0 /\ after.ref = 0 /\ after.at # "completed"
  <2>1. RowAfter(order, after) = [ref |-> order.ref, gen |-> tokens + 1, taken |-> FALSE]
    BY <1>3 DEF RowAfter
  <2>2. order.ref \in 0..MaxRefs
    BY <1>1 DEF Orders
  <2> QED
    BY <1>1, <2>1, <2>2 DEF Rows
<1>4. CASE ~(IsHere(after) /\ ~IsHere(order)) /\ ~(order.ref # 0 /\ after.ref = 0 /\ after.at # "completed")
  BY <1>1, <1>4 DEF RowAfter
<1> QED
  BY <1>2, <1>3, <1>4

LEMMA PersonSavesKeeps ==
    ASSUME ErpInv, NEW after \in Orders, after.gen <= tokens, PersonSaves(after)
    PROVE  ErpInv'
<1>1. PICK s, r : s = Revive(order, after) /\ r = RowAfter(order, s)
  OBVIOUS
<1>2. /\ order' = s /\ past' = past \cup {s} /\ row' = r
      /\ tokens' = (IF s.gen > tokens \/ r.gen > tokens THEN tokens + 1 ELSE tokens)
      /\ saves' = saves + 1 /\ saves < MaxSaves
      /\ UNCHANGED <<channel, seen, there, sender, asked, mail, closedFor, crossed>>
      /\ astray' \in BOOLEAN
  BY <1>1 DEF PersonSaves, SaveOrder, ErpInv, ErpTypeOK
<1>3. s \in Orders /\ s.gen <= tokens + 1
  BY <1>1, <1>2, RevivedOrder
<1>4. r \in Rows /\ r.gen <= tokens + 1 /\ (r.taken => r = row)
  BY <1>1, <1>2, <1>3, RowAfterIs
<1>5. /\ tokens \in Nat /\ saves \in Nat /\ tokens <= saves /\ MaxSaves \in Nat
      /\ s.gen \in Nat /\ r.gen \in Nat
  BY <1>3, <1>4, ErpAssumption DEF ErpInv, ErpTypeOK, Numbered, Orders, Rows
<1>6. tokens' \in {tokens, tokens + 1} /\ s.gen <= tokens' /\ r.gen <= tokens' /\ tokens' <= saves'
      /\ tokens' \in 0..MaxSaves /\ saves' \in 0..MaxSaves
  BY <1>2, <1>3, <1>4, <1>5
<1>7. UnderWay'
  BY <1>2, <1>5, <1>6, UnderWayGrows DEF ErpInv
<1>8. ErpTypeOK'
  BY <1>2, <1>3, <1>4, <1>6 DEF ErpInv, ErpTypeOK
<1>9. Numbered'
  <2>1. \A p \in past' : p.gen <= tokens'
    <3>1. \A p \in past : p.gen \in Nat /\ p.gen <= tokens
      BY DEF ErpInv, ErpTypeOK, Numbered, Orders
    <3> QED
      BY <1>2, <1>5, <1>6, <3>1
  <2> QED
    BY <1>2, <1>6, <2>1 DEF Numbered
<1>10. ClosedByItsOwn'
  BY <1>2, <1>4 DEF ErpInv, ClosedByItsOwn
<1>11. CopiesOK'
  BY <1>2 DEF ErpInv, CopiesOK, OneInHand, Holds, Making, Open
<1> QED
  BY <1>7, <1>8, <1>9, <1>10, <1>11 DEF ErpInv

LEMMA ByPeopleKeeps ==
    ASSUME ErpInv, ByPeople
    PROVE  \E after \in Orders : after.gen <= tokens /\ PersonSaves(after)
<1>1. /\ order \in Orders /\ order.gen <= tokens /\ tokens \in Nat /\ {MaxSaves, MaxRefs} \subseteq Nat
      /\ past \subseteq Orders /\ \A p \in past : p.gen <= tokens
  BY ErpAssumption DEF ErpInv, ErpTypeOK, Numbered
<1>2. \A at \in {"deleted", "completed"} : Away(at) \in Orders /\ Away(at).gen <= tokens
  BY <1>1 DEF Away, Orders, NoVersion, Versions
<1>3. CASE Enter
  <2>1. PICK c \in OrderContents, released \in BOOLEAN :
           PersonSaves([Deleted EXCEPT !.at = "here", !.content = c, !.released = released])
    BY <1>3 DEF Enter
  <2>2. [Deleted EXCEPT !.at = "here", !.content = c, !.released = released] \in Orders
        /\ [Deleted EXCEPT !.at = "here", !.content = c, !.released = released].gen <= tokens
    <3>1. PICK d : d = Deleted /\ d \in Orders /\ d.gen = 0
      BY <1>2 DEF Deleted, Away
    <3>2. PICK e : e = [d EXCEPT !.at = "here", !.content = c, !.released = released]
      OBVIOUS
    <3>3. e \in Orders /\ e.gen = 0
      BY <3>1, <3>2 DEF Orders
    <3> QED
      BY <1>1, <3>1, <3>2, <3>3
  <2> QED
    BY <2>1, <2>2
<1>4. CASE Alter
  <2>1. PICK c \in OrderContents \cup {Cancelled}, keeps \in BOOLEAN :
           PersonSaves([order EXCEPT !.content = c, !.released = @ /\ keeps])
    BY <1>4 DEF Alter
  <2>2. PICK b \in BOOLEAN : b = (order.released /\ keeps)
    OBVIOUS
  <2>3. [order EXCEPT !.content = c, !.released = @ /\ keeps] = [order EXCEPT !.content = c, !.released = b]
    BY <1>1, <2>2 DEF Orders
  <2>4. [order EXCEPT !.content = c, !.released = b] \in Orders
        /\ [order EXCEPT !.content = c, !.released = b].gen <= tokens
    BY <1>1 DEF Orders
  <2> QED
    BY <2>1, <2>3, <2>4
<1>5. CASE Release
  <2>1. [order EXCEPT !.released = TRUE] \in Orders /\ [order EXCEPT !.released = TRUE].gen <= tokens
    BY <1>1 DEF Orders
  <2> QED
    BY <1>5, <2>1 DEF Release
<1>6. CASE Delete \/ Complete
  BY <1>2, <1>6 DEF Delete, Complete, Deleted, Completed
<1>7. CASE PutBack
  BY <1>1, <1>7 DEF PutBack
<1> QED
  BY <1>3, <1>4, <1>5, <1>6, <1>7 DEF ByPeople

-----------------------------------------------------------------------------
(* Acknowledgements.                                                          *)

\* An order is acknowledged: it stays in its place and its lifecycle.
LEMMA AckedIs ==
    ASSUME NEW o \in Orders, NEW worked, NEW t \in Nat, NEW a \in Acks(worked, t), NEW drawn, NEW first
    PROVE  /\ Ack(o, a, drawn, first) \in Orders
           /\ Ack(o, a, drawn, first).at = o.at
           /\ Ack(o, a, drawn, first).gen = o.gen
<1>1. a.ref \in 0..MaxRefs /\ a.version \in Versions
  BY ErpAssumption DEF Acks, VersionsTo, Numbers
<1>2. PICK o2 : o2 = [o EXCEPT !.ref = a.ref, !.sent = a.version]
  OBVIOUS
<1>3. o2 \in Orders /\ o2.at = o.at /\ o2.gen = o.gen
  BY <1>1, <1>2 DEF Orders
<1>4. Ack(o, a, drawn, first) \in {o, o2}
  BY <1>2 DEF Ack, AckedOrder
<1> QED
  BY <1>3, <1>4

\* Receiving acknowledgements: the order stays in its place and its lifecycle.
LEMMA AcksReceived ==
    ASSUME ErpInv, NEW key, NEW acks \in Seq(Acks(closedFor, tokens)), acks # <<>>, NEW drawn,
           ReceiveAcks(key, acks, drawn)
    PROVE  /\ order' \in Orders /\ order'.at = order.at /\ order'.gen = order.gen
           /\ past' \in {past, past \cup {order'}} /\ order' \in past'
<1>1. order \in Orders /\ order \in past /\ tokens \in Nat
  BY DEF ErpInv, ErpTypeOK
<1>2. PICK o : o = AckAll(acks, drawn)
  OBVIOUS
<1>3. o \in Orders /\ o.at = order.at /\ o.gen = order.gen
  <2>1. PICK a : a = acks[1] /\ a \in Acks(closedFor, tokens)
    OBVIOUS
  <2>2. PICK first : first = Ack(order, a, drawn, order)
    OBVIOUS
  <2>3. first \in Orders /\ first.at = order.at /\ first.gen = order.gen
    BY <1>1, <2>1, <2>2, AckedIs
  <2>4. CASE Len(acks) = 1
    BY <1>2, <2>1, <2>2, <2>3, <2>4 DEF AckAll
  <2>5. CASE Len(acks) # 1
    <3>1. PICK b : b = acks[2] /\ b \in Acks(closedFor, tokens)
      <4>1. Len(acks) \in Nat /\ Len(acks) # 0
        BY EmptySeq
      <4>2. PICK r : r = Len(acks)
        OBVIOUS
      <4>3. 2 \in 1..r
        BY <2>5, <4>1, <4>2
      <4> QED
        BY <4>2, <4>3
    <3>2. o = Ack(first, b, drawn, order)
      BY <1>2, <2>1, <2>2, <2>5, <3>1 DEF AckAll
    <3>3. Ack(first, b, drawn, order) \in Orders /\ Ack(first, b, drawn, order).at = first.at
          /\ Ack(first, b, drawn, order).gen = first.gen
      BY <1>1, <2>3, <3>1, AckedIs
    <3> QED
      BY <2>3, <3>2, <3>3
  <2> QED
    BY <2>4, <2>5
<1>4. Revive(order, o) = o
  BY <1>3 DEF Revive, IsHere
<1>5. CASE order' = Revive(order, o) /\ past' = past \cup {order'}
  BY <1>3, <1>4, <1>5
<1>6. CASE UNCHANGED <<order, past>>
  BY <1>1, <1>6
<1> QED
  BY <1>1, <1>2, <1>5, <1>6 DEF ReceiveAcks

\* An acknowledgement that closes a withdrawal is that very withdrawal's.
LEMMA ClosesItsOwn ==
    ASSUME NEW worked, NEW t, NEW acks \in Seq(Acks(worked, t)), NEW drawn, Closed(acks, drawn)
    PROVE  drawn.gen \in worked
<1>1. PICK k \in DOMAIN acks : Closes(acks[k], drawn, order)
  BY DEF Closed
<1>2. acks[k] \in Acks(worked, t)
  BY <1>1
<1> QED
  BY <1>1, <1>2 DEF Closes, WithdrawnVersion, Acks

LEMMA MarkedRow ==
    ASSUME ErpInv, NEW drawn, drawn.gen \in closedFor, Mark(drawn), UNCHANGED <<closedFor, tokens>>
    PROVE  /\ row' \in Rows /\ row'.gen <= tokens' /\ ClosedByItsOwn'
<1>1. row \in Rows /\ row.gen <= tokens
  BY DEF ErpInv, ErpTypeOK, Numbered
<1>2. CASE row' = row
  BY <1>1, <1>2 DEF ErpInv, ClosedByItsOwn
<1>3. CASE row.gen = drawn.gen /\ row' = [row EXCEPT !.taken = TRUE]
  BY <1>1, <1>3 DEF Rows, ClosedByItsOwn
<1> QED
  BY <1>2, <1>3 DEF Mark

\* What a step that leaves the saves alone keeps.
LEMMA NotByPeople ==
    ASSUME ErpInv, UNCHANGED <<channel, tokens, saves, astray>>, crossed' \in BOOLEAN,
           order' \in Orders, order'.gen = order.gen, past' \in {past, past \cup {order'}}, order' \in past',
           row' \in Rows, row'.gen <= tokens', there' \in [Numbers -> Copies]
    PROVE  ErpTypeOK' /\ Numbered'
<1>1. \A p \in past' : p.gen <= tokens' /\ p \in Orders
  BY DEF ErpInv, ErpTypeOK, Numbered
<1> QED
  BY <1>1 DEF ErpInv, ErpTypeOK, Numbered
-----------------------------------------------------------------------------
(* What is listed, and the other system's copies.                             *)

LEMMA ListedIs ==
    ASSUME ErpInv
    PROVE  Outbound \in Seq(Outs(tokens)) /\ Withdrawn(row) \in Seq(Outs(tokens))
<1>1. /\ order \in Orders /\ order.gen <= tokens /\ row \in Rows /\ row.gen <= tokens /\ tokens \in Nat
      /\ {MaxRefs, MaxSaves} \subseteq Nat
  BY ErpAssumption DEF ErpInv, ErpTypeOK, Numbered
<1>2. OrderOut(order) \in Outs(tokens)
  BY <1>1 DEF OrderOut, Outs, VersionsTo, Versions, Version, Orders
<1>3. RowOut(row) \in Outs(tokens)
  BY <1>1 DEF RowOut, Outs, VersionsTo, Versions, WithdrawnVersion, Rows
<1>4. PICK a, b : a = OrderOut(order) /\ b = RowOut(row)
  OBVIOUS
<1>5. <<a>> \in Seq(Outs(tokens)) /\ <<b>> \in Seq(Outs(tokens)) /\ <<>> \in Seq(Outs(tokens))
  BY <1>2, <1>3, <1>4
<1> QED
  BY <1>4, <1>5 DEF Outbound, Withdrawn

\* What a run sends goes to the copy it found, or to the one it makes; either is in hand.
LEMMA SentCopies ==
    ASSUME ErpInv, NEW r \in SendRuns, JobSends(r)
    PROVE  there' \in [Numbers -> Copies] /\ CopiesOK'
<1>1. PICK run : run = sender[r]
  OBVIOUS
<1>2. PICK o, n : o = Head(run.todo) /\ n = IF Making(r) THEN NextNumber ELSE run.found
  OBVIOUS
<1>3. run.step = "making" /\ n \in Numbers /\ Sends(o, n) /\ UNCHANGED <<channel, crossed>>
  BY <1>1, <1>2 DEF JobSends
<1>4. run \in OrderRuns(closedFor, tokens) /\ Steady(run) /\ Holds(run) /\ sender \in [SendRuns -> OrderRuns(closedFor, tokens)]
      /\ there \in [Numbers -> Copies]
  BY <1>1 DEF ErpInv, ErpTypeOK, UnderWay, CopiesOK
<1>5. o.content \in OrderContents \cup {Cancelled}
  BY <1>2, <1>3, <1>4 DEF OrderRuns, Steady, Outs
<1>6. PICK c : c = IF Ended(o) \/ there[n].at = "closed" THEN [at |-> "closed", content |-> Cancelled]
                   ELSE [at |-> "open", content |-> o.content]
  OBVIOUS
<1>7. c \in Copies /\ there' = [there EXCEPT ![n] = c]
  BY <1>3, <1>5, <1>6 DEF Copies, Sends
<1>8. /\ there' \in [Numbers -> Copies]
      /\ \A i \in Numbers : there'[i] = IF i = n THEN c ELSE there[i]
  BY <1>4, <1>7
<1>9. PICK s : s.step = "sending" /\ sender' = [sender EXCEPT ![r] = s]
  <2>1. PICK answered \in BOOLEAN :
           sender' = [sender EXCEPT ![r] =
                        Onward(@, IF answered THEN Append(@.acks, [ref |-> n, version |-> o.version]) ELSE @.acks)]
    BY <1>1, <1>2 DEF JobSends
  <2>2. PICK acks : acks = IF answered THEN Append(run.acks, [ref |-> n, version |-> o.version]) ELSE run.acks
    OBVIOUS
  <2>3. PICK s : s = Onward(run, acks)
    OBVIOUS
  <2>4. s.step = "sending"
    BY <1>4, <2>3 DEF OrderRuns, Onward
  <2>5. sender' = [sender EXCEPT ![r] = s]
    BY <1>1, <2>1, <2>2, <2>3
  <2> QED
    BY <2>4, <2>5
<1>10. \A q \in SendRuns : sender'[q] = IF q = r THEN s ELSE sender[q]
  BY <1>4, <1>9
<1>11. \A q \in SendRuns : Making(q)' => Making(q) /\ q # r
  BY <1>9, <1>10 DEF Making
<1>12. \A q \in SendRuns : Holds(sender[q])'
  <2>1. \A q \in SendRuns : Holds(sender[q])
    BY DEF ErpInv, CopiesOK
  <2>2. \A i \in Numbers : there[i].at # "unmade" => there'[i].at # "unmade"
    BY <1>6, <1>8
  <2>3. \A q \in SendRuns : sender[q].found # 0 => sender[q].found \in Numbers
    BY <1>4, ErpAssumption DEF OrderRuns, Numbers
  <2> QED
    BY <1>9, <1>10, <2>1, <2>2, <2>3 DEF Holds
<1>13. ASSUME ~crossed PROVE OneInHand'
  <2>1. OneInHand
    BY <1>13 DEF ErpInv, CopiesOK
  <2>2. CASE Making(r)
    <3>1. \A i \in Numbers : ~Open(i)
      BY <2>1, <2>2 DEF OneInHand
    <3>2. \A i \in Numbers : Open(i)' => i = n
      BY <1>8, <3>1 DEF Open
    <3>3. \A q \in SendRuns : ~Making(q)'
      BY <1>11, <2>1, <2>2 DEF OneInHand
    <3> QED
      BY <3>2, <3>3 DEF OneInHand
  <2>3. CASE ~Making(r)
    <3>1. n = run.found /\ n # 0
      BY <1>1, <1>2, <1>3, <2>3 DEF Making
    <3>2. Open(n)' => Open(n)
      <4>1. Ended(o) \/ there[n].at # "unmade"
        BY <1>2, <1>3, <1>4, <3>1 DEF Holds
      <4>2. there[n].at \in {"unmade", "open", "closed"}
        BY <1>3, <1>4 DEF Copies
      <4> QED
        BY <1>3, <1>6, <1>8, <4>1, <4>2 DEF Open
    <3>3. \A i \in Numbers : Open(i)' => Open(i)
      BY <1>8, <3>2 DEF Open
    <3> QED
      BY <1>11, <2>1, <3>3 DEF OneInHand
  <2> QED
    BY <2>2, <2>3
<1>14. channel = "job"
  BY <1>3, <1>4 DEF Steady
<1> QED
  BY <1>3, <1>8, <1>12, <1>13, <1>14 DEF CopiesOK

\* An ERP that asks has one copy.
LEMMA TakenOver ==
    ASSUME ErpInv, NEW o, o.content \in OrderContents \cup {Cancelled}, NEW n \in Numbers, TakesOver(o, n),
           channel = "asks", UNCHANGED <<channel, sender>>
    PROVE  there' \in [Numbers -> Copies] /\ CopiesOK'
<1>1. there \in [Numbers -> Copies] /\ \A i \in Numbers \ {1} : there[i].at = "unmade"
  BY DEF ErpInv, ErpTypeOK, CopiesOK
<1>2. n = 1
  <2>1. PICK numbered : numbered = {i \in Numbers : there[i].at # "unmade"}
    OBVIOUS
  <2>2. numbered = {} \/ numbered = {1}
    BY <1>1, <2>1
  <2>3. Cardinality({}) = 0 /\ Cardinality({1}) = 1
    BY FS_EmptySet, FS_Singleton
  <2>4. Cardinality(numbered) \in {0, 1}
    BY <2>2, <2>3
  <2>5. NextNumber = Cardinality(numbered) + 1
    BY <2>1 DEF NextNumber
  <2>6. NextNumber \in {1, 2}
    BY <2>4, <2>5
  <2> QED
    BY <2>6 DEF TakesOver
<1>3. PICK c \in Copies : there' = [there EXCEPT ![n] = c]
  <2>1. PICK c : c = [at |-> IF Ended(o) THEN "closed" ELSE "open", content |-> o.content]
    OBVIOUS
  <2>2. c \in Copies
    BY <2>1 DEF Copies
  <2> QED
    BY <2>1, <2>2 DEF TakesOver
<1>4. \A i \in Numbers : there'[i] = IF i = n THEN c ELSE there[i]
  BY <1>1, <1>3
<1>5. there' \in [Numbers -> Copies]
  BY <1>1, <1>3
<1>6. \A q \in SendRuns : sender'[q].step = "idle"
  BY DEF ErpInv, UnderWay, Steady
<1>7. OneInHand' /\ \A q \in SendRuns : Holds(sender[q])'
  BY <1>1, <1>2, <1>4, <1>6 DEF OneInHand, Open, Making, Holds
<1> QED
  BY <1>1, <1>2, <1>4, <1>5, <1>7 DEF CopiesOK
-----------------------------------------------------------------------------
(* The steps.                                                                 *)

\* A run of the server that stops holds nothing.
LEMMA NoJobIs ==
    ASSUME NEW worked, NEW t
    PROVE  NoJob \in OrderRuns(worked, t) /\ Steady(NoJob) /\ NoJob.step = "idle"
<1>1. NoRow \in Rows /\ 0 \in 0..MaxRefs
  BY ErpAssumption DEF NoRow, Rows
<1>2. \A S : <<>> \in Seq(S)
  OBVIOUS
<1> QED
  BY <1>1, <1>2 DEF NoJob, OrderRuns, Steady

\* A run of the server, and what it works on.
LEMMA RunIs ==
    ASSUME ErpInv, NEW r \in SendRuns
    PROVE  /\ sender[r] \in OrderRuns(closedFor, tokens) /\ Steady(sender[r])
           /\ sender \in [SendRuns -> OrderRuns(closedFor, tokens)]
BY DEF ErpInv, UnderWay

LEMMA OrderIs ==
    ASSUME ErpInv
    PROVE  /\ row \in Rows /\ tokens \in Nat /\ order \in Orders /\ order \in past
           /\ row.gen <= tokens /\ there \in [Numbers -> Copies] /\ crossed \in BOOLEAN
BY DEF ErpInv, ErpTypeOK, Numbered

\* A step of a run by which nothing is worked off.
LEMMA RunMoves ==
    ASSUME ErpInv, UNCHANGED <<channel, asked, mail, closedFor, tokens>>,
           NEW r \in SendRuns, NEW s \in OrderRuns(closedFor, tokens), Steady(s), sender' = [sender EXCEPT ![r] = s]
    PROVE  UnderWay'
<1>1. sender \in [SendRuns -> OrderRuns(closedFor, tokens)] /\ \A q \in SendRuns : Steady(sender[q])
  BY DEF ErpInv, UnderWay
<1>2. \A q \in SendRuns : sender'[q] = IF q = r THEN s ELSE sender[q]
  BY <1>1
<1>3. \A q \in SendRuns : Steady(sender[q])'
  BY <1>1, <1>2 DEF Steady
<1>4. sender' \in [SendRuns -> OrderRuns(closedFor, tokens)]
  BY <1>1
<1> QED
  BY <1>3, <1>4 DEF ErpInv, UnderWay

\* ... which is not about to make or change an order: the copies are in hand as before.
LEMMA RunLeavesCopies ==
    ASSUME ErpInv, UNCHANGED <<channel, there, crossed>>,
           NEW r \in SendRuns, NEW s, s.step # "making", sender' = [sender EXCEPT ![r] = s]
    PROVE  CopiesOK'
<1>1. sender \in [SendRuns -> OrderRuns(closedFor, tokens)]
  BY DEF ErpInv, UnderWay
<1>2. \A q \in SendRuns : sender'[q] = IF q = r THEN s ELSE sender[q]
  BY <1>1
<1>3. \A q \in SendRuns : Making(q)' => Making(q)
  BY <1>2 DEF Making
<1>4. \A q \in SendRuns : Holds(sender[q])'
  BY <1>2 DEF ErpInv, CopiesOK, Holds
<1> QED
  BY <1>3, <1>4 DEF ErpInv, CopiesOK, OneInHand, Open

\* A step of a run with the order, the row and the other system's copies as they were.
LEMMA RunReads ==
    ASSUME ErpInv, UNCHANGED <<channel, order, past, row, there, asked, mail, closedFor, crossed, astray, tokens, saves>>,
           NEW r \in SendRuns, NEW s \in OrderRuns(closedFor, tokens), Steady(s), s.step # "making",
           sender' = [sender EXCEPT ![r] = s]
    PROVE  ErpInv'
<1>1. UnderWay' /\ CopiesOK'
  BY RunMoves, RunLeavesCopies
<1> QED
  BY <1>1 DEF ErpInv, ErpTypeOK, Numbered, ClosedByItsOwn

LEMMA JobReadsKeeps ==
    ASSUME ErpInv, NEW r \in SendRuns, JobReads(r) \/ JobReadsGone(r) \/ JobRefused(r) \/ JobStops(r)
    PROVE  ErpInv'
<1>1. UNCHANGED <<channel, order, past, row, there, closedFor, crossed, astray, tokens, saves, asked, mail>>
  BY DEF JobReads, JobReadsGone, JobRefused, JobStops
<1>2. PICK run : run = sender[r]
  OBVIOUS
<1>3. run \in OrderRuns(closedFor, tokens) /\ Steady(run)
  BY <1>2, RunIs
<1>4. PICK out, back : out = Outbound /\ back = Withdrawn(row)
  OBVIOUS
<1>5. out \in Seq(Outs(tokens)) /\ back \in Seq(Outs(tokens))
  BY <1>4, ListedIs
<1>6. NoJob \in OrderRuns(closedFor, tokens) /\ 0 \in 0..MaxRefs /\ <<>> \in Seq(Outs(tokens))
  BY NoJobIs, ErpAssumption
<1>7. ASSUME sender' = [sender EXCEPT ![r] = NoJob] PROVE ErpInv'
  BY <1>1, <1>7, NoJobIs, RunReads
<1>8. ASSUME NEW s \in OrderRuns(closedFor, tokens), s.step \in {"read", "sending"}, channel = "job",
             sender' = [sender EXCEPT ![r] = s]
      PROVE  ErpInv'
  BY <1>1, <1>8, RunReads DEF Steady
<1>9. CASE JobReads(r)
  <2>1. PICK todo2 : todo2 = IF order.content = Cancelled /\ order.ref = 0 THEN <<>> ELSE out
    OBVIOUS
  <2>2. PICK s : s = [NoJob EXCEPT !.step = "read", !.todo = todo2]
    OBVIOUS
  <2>3. todo2 \in Seq(Outs(tokens))
    BY <1>5, <1>6, <2>1
  <2>4. s \in OrderRuns(closedFor, tokens) /\ s.step = "read"
    BY <1>6, <2>2, <2>3 DEF OrderRuns
  <2>5. channel = "job" /\ sender' = [sender EXCEPT ![r] = s]
    <3>1. /\ channel = "job"
          /\ sender' = [sender EXCEPT ![r] =
                          [NoJob EXCEPT !.step = "read",
                                        !.todo = IF order.content = Cancelled /\ order.ref = 0 THEN <<>> ELSE Outbound]]
      BY <1>9 DEF JobReads
    <3>2. s = [NoJob EXCEPT !.step = "read",
                            !.todo = IF order.content = Cancelled /\ order.ref = 0 THEN <<>> ELSE Outbound]
      BY <1>4, <2>1, <2>2
    <3> QED
      BY <3>1, <3>2
  <2> QED
    BY <1>8, <2>4, <2>5
<1>10. CASE JobReadsGone(r)
  <2>1. PICK todo2 : todo2 = run.todo \o back
    OBVIOUS
  <2>2. PICK s : s = [NoJob EXCEPT !.step = "sending", !.todo = todo2, !.gone = row]
    OBVIOUS
  <2>3. todo2 \in Seq(Outs(tokens)) /\ row \in Rows
    BY <1>3, <1>5, <2>1, OrderIs DEF OrderRuns
  <2>4. s \in OrderRuns(closedFor, tokens) /\ s.step = "sending"
    BY <1>6, <2>2, <2>3 DEF OrderRuns
  <2>5. sender' = [sender EXCEPT ![r] = IF todo2 = <<>> THEN NoJob ELSE s]
    <3>1. sender' = [sender EXCEPT ![r] =
                       IF sender[r].todo \o Withdrawn(row) = <<>> THEN NoJob
                       ELSE [NoJob EXCEPT !.step = "sending", !.todo = sender[r].todo \o Withdrawn(row), !.gone = row]]
      BY <1>10 DEF JobReadsGone
    <3> QED
      BY <1>2, <1>4, <2>1, <2>2, <3>1
  <2>6. channel = "job"
    BY <1>2, <1>3, <1>10 DEF JobReadsGone, Steady
  <2> QED
    BY <1>7, <1>8, <2>4, <2>5, <2>6
<1>11. CASE JobRefused(r)
  <2>1. PICK s : s = Onward(run, run.acks)
    OBVIOUS
  <2>2. run.todo # <<>> /\ run.step \in {"sending", "making"} /\ sender' = [sender EXCEPT ![r] = s]
    BY <1>2, <1>11, <2>1 DEF JobRefused
  <2>3. Tail(run.todo) \in Seq(Outs(tokens))
    BY <1>3, <2>2 DEF OrderRuns
  <2>4. s \in OrderRuns(closedFor, tokens) /\ s.step = "sending"
    BY <1>3, <1>6, <2>1, <2>3 DEF OrderRuns, Onward
  <2> QED
    BY <1>3, <1>8, <2>2, <2>4 DEF Steady
<1>12. CASE JobStops(r)
  BY <1>7, <1>12 DEF JobStops
<1> QED
  BY <1>9, <1>10, <1>11, <1>12

\* Looking in vain, a run finds no open copy; when another has looked in vain too, the two have crossed.
LEMMA JobLooksKeeps ==
    ASSUME ErpInv, NEW r \in SendRuns, JobLooks(r)
    PROVE  ErpInv'
<1>1. UNCHANGED <<channel, order, past, row, there, closedFor, astray, tokens, saves, asked, mail>>
  BY DEF JobLooks
<1>2. PICK run : run = sender[r]
  OBVIOUS
<1>3. /\ run \in OrderRuns(closedFor, tokens) /\ Steady(run)
      /\ sender \in [SendRuns -> OrderRuns(closedFor, tokens)]
  BY <1>2, RunIs
<1>4. PICK o : o = Head(run.todo)
  OBVIOUS
<1>5. run.todo # <<>> /\ run.step = "sending" /\ o \in Outs(tokens)
  BY <1>2, <1>3, <1>4 DEF JobLooks, OrderRuns
<1>6. PICK n \in IF Found(o) = {} THEN {0} ELSE Found(o) :
         /\ IF Ended(o) THEN n # 0 ELSE n # 0 => there[n].at = "open"
         /\ sender' = [sender EXCEPT ![r] = [@ EXCEPT !.step = "making", !.found = n]]
         /\ crossed' = (crossed \/ (n = 0 /\ \E q \in SendRuns : Making(q)))
  BY <1>2, <1>4 DEF JobLooks
<1>7. Found(o) \subseteq Numbers /\ Numbers \subseteq 0..MaxRefs /\ 0 \notin Numbers /\ 0 \in 0..MaxRefs
  BY <1>5, ErpAssumption DEF Found, Numbers, Outs
<1>8. PICK s : s = [run EXCEPT !.step = "making", !.found = n]
  OBVIOUS
<1>9. /\ s \in OrderRuns(closedFor, tokens) /\ s.step = "making" /\ s.found = n /\ s.todo = run.todo
      /\ sender' = [sender EXCEPT ![r] = s]
  BY <1>2, <1>3, <1>6, <1>7, <1>8 DEF OrderRuns
<1>10. Steady(s)
  BY <1>3, <1>5, <1>9 DEF Steady
<1>11. UnderWay'
  BY <1>1, <1>9, <1>10, RunMoves
<1>12. \A q \in SendRuns : sender'[q] = IF q = r THEN s ELSE sender[q]
  BY <1>3, <1>9
<1>13. \A q \in SendRuns : Holds(sender[q])'
  <2>1. n # 0 => Ended(o) \/ there[n].at # "unmade"
    BY <1>6
  <2>2. \A q \in SendRuns : Holds(sender[q])
    BY DEF ErpInv, CopiesOK
  <2> QED
    BY <1>1, <1>4, <1>9, <1>12, <2>1, <2>2 DEF Holds
<1>14. ASSUME ~crossed' PROVE OneInHand'
  <2>1. ~crossed /\ (n = 0 => \A q \in SendRuns : ~Making(q))
    BY <1>6, <1>14
  <2>2. OneInHand
    BY <2>1 DEF ErpInv, CopiesOK
  <2>3. \A i \in Numbers : Open(i)' <=> Open(i)
    BY <1>1 DEF Open
  <2>4. CASE n = 0
    <3>1. Found(o) = {}
      BY <1>6, <1>7, <2>4
    <3>2. \A i \in Numbers : ~Open(i)
      BY <3>1 DEF Found, Open
    <3>3. \A q \in SendRuns : Making(q)' => q = r
      BY <1>12, <2>1, <2>4 DEF Making
    <3> QED
      BY <2>3, <3>2, <3>3 DEF OneInHand
  <2>5. CASE n # 0
    <3>1. \A q \in SendRuns : Making(q)' => Making(q)
      BY <1>9, <1>12, <2>5 DEF Making
    <3> QED
      BY <2>2, <2>3, <3>1 DEF OneInHand
  <2> QED
    BY <2>4, <2>5
<1>15. CopiesOK'
  BY <1>1, <1>13, <1>14 DEF ErpInv, CopiesOK
<1>16. crossed' \in BOOLEAN
  BY <1>6
<1> QED
  BY <1>1, <1>11, <1>15, <1>16 DEF ErpInv, ErpTypeOK, Numbered, ClosedByItsOwn

LEMMA JobSendsKeeps ==
    ASSUME ErpInv, NEW r \in SendRuns, JobSends(r)
    PROVE  ErpInv'
<1>1. PICK run : run = sender[r]
  OBVIOUS
<1>2. /\ run \in OrderRuns(closedFor, tokens) /\ Steady(run)
      /\ sender \in [SendRuns -> OrderRuns(closedFor, tokens)]
  BY <1>1, RunIs
<1>3. PICK o, rest, n : /\ o = Head(run.todo) /\ rest = Tail(run.todo)
                        /\ n = IF Making(r) THEN NextNumber ELSE run.found
  OBVIOUS
<1>4. /\ run.step = "making" /\ closedFor' = closedFor \cup {o.row} /\ n \in Numbers
      /\ UNCHANGED <<channel, order, past, row, seen, asked, mail, crossed, astray, tokens, saves>>
  BY <1>1, <1>3 DEF JobSends
<1>5. run.todo # <<>> /\ channel = "job" /\ tokens \in Nat /\ 0 \in 0..MaxRefs
  BY <1>2, <1>4, OrderIs, ErpAssumption DEF Steady
<1>6. o \in Outs(tokens) /\ rest \in Seq(Outs(tokens))
  BY <1>2, <1>3, <1>5 DEF OrderRuns
<1>7. PICK a : a = [ref |-> n, version |-> o.version]
  OBVIOUS
<1>8. PICK answered \in BOOLEAN :
         sender' = [sender EXCEPT ![r] = Onward(@, IF answered THEN Append(@.acks, a) ELSE @.acks)]
  BY <1>1, <1>3, <1>7 DEF JobSends
<1>9. a \in Acks(closedFor', tokens)
  BY <1>4, <1>6, <1>7 DEF Acks, Outs
<1>10. PICK acks2 : acks2 = IF answered THEN Append(run.acks, a) ELSE run.acks
  OBVIOUS
<1>11. /\ Acks(closedFor, tokens) \subseteq Acks(closedFor', tokens)
       /\ OrderRuns(closedFor, tokens) \subseteq OrderRuns(closedFor', tokens)
  BY <1>4, <1>5, AcksGrow, OrderRunsGrow
<1>12. acks2 \in Seq(Acks(closedFor', tokens))
  <2>1. run.acks \in Seq(Acks(closedFor', tokens))
    BY <1>2, <1>11 DEF OrderRuns
  <2> QED
    BY <1>9, <1>10, <2>1
<1>13. PICK s : s = Onward(run, acks2)
  OBVIOUS
<1>14. s \in OrderRuns(closedFor', tokens) /\ s.step = "sending"
  BY <1>2, <1>3, <1>5, <1>6, <1>11, <1>12, <1>13 DEF OrderRuns, Onward
<1>15. sender' = [sender EXCEPT ![r] = s]
  BY <1>1, <1>8, <1>10, <1>13
<1>16. UnderWay'
  <2>1. mail' \subseteq [id : 1..MaxAcks, ack : Acks(closedFor', tokens)]
    BY <1>4, <1>11 DEF ErpInv, UnderWay
  <2>2. asked' \in Seq(Outs(tokens)) /\ (asked' # <<>> => channel = "asks")
    BY <1>4 DEF ErpInv, UnderWay
  <2>3. sender' \in [SendRuns -> OrderRuns(closedFor', tokens)]
    BY <1>2, <1>11, <1>14, <1>15
  <2>4. \A q \in SendRuns : sender'[q] = IF q = r THEN s ELSE sender[q]
    BY <1>2, <1>15
  <2>5. \A q \in SendRuns : Steady(sender[q])
    BY DEF ErpInv, UnderWay
  <2>6. \A q \in SendRuns : Steady(sender[q])'
    BY <1>4, <1>5, <1>14, <2>4, <2>5 DEF Steady
  <2> QED
    BY <1>4, <2>1, <2>2, <2>3, <2>6 DEF UnderWay
<1>17. there' \in [Numbers -> Copies] /\ CopiesOK'
  BY SentCopies
<1>18. ErpTypeOK' /\ Numbered' /\ ClosedByItsOwn'
  BY <1>4, <1>17 DEF ErpInv, ErpTypeOK, Numbered, ClosedByItsOwn
<1> QED
  BY <1>16, <1>17, <1>18 DEF ErpInv

LEMMA JobAcksKeeps ==
    ASSUME ErpInv, NEW r \in SendRuns, JobAcks(r) \/ JobMarks(r)
    PROVE  ErpInv'
<1>1. PICK run, acks, drawn : run = sender[r] /\ acks = run.acks /\ drawn = run.gone
  OBVIOUS
<1>2. /\ run \in OrderRuns(closedFor, tokens) /\ Steady(run) /\ acks \in Seq(Acks(closedFor, tokens))
      /\ row \in Rows /\ row.gen <= tokens /\ order \in Orders /\ order \in past /\ there \in [Numbers -> Copies]
      /\ crossed \in BOOLEAN
  BY <1>1, RunIs, OrderIs DEF OrderRuns
<1>3. UNCHANGED <<channel, there, asked, mail, closedFor, crossed, astray, tokens, saves>>
  BY DEF JobAcks, JobMarks
<1>4. ASSUME NEW s \in OrderRuns(closedFor, tokens), Steady(s), s.step # "making", sender' = [sender EXCEPT ![r] = s]
      PROVE  UnderWay' /\ CopiesOK'
  BY <1>3, <1>4, RunMoves, RunLeavesCopies
<1>5. ASSUME sender' = [sender EXCEPT ![r] = NoJob] PROVE UnderWay' /\ CopiesOK'
  BY <1>4, <1>5, NoJobIs
<1>6. CASE JobAcks(r)
  <2>1. row' = row /\ ClosedByItsOwn'
    BY <1>3, <1>6 DEF JobAcks, ErpInv, ClosedByItsOwn
  <2>2. UnderWay' /\ CopiesOK'
    <3>1. PICK s : s = [run EXCEPT !.step = "marking"]
      OBVIOUS
    <3>2. s \in OrderRuns(closedFor, tokens) /\ s.step = "marking" /\ s.gone = drawn
      BY <1>1, <1>2, <3>1 DEF OrderRuns
    <3>3. ASSUME Closed(acks, drawn), channel = "job", sender' = [sender EXCEPT ![r] = s]
          PROVE  UnderWay' /\ CopiesOK'
      <4>1. drawn.gen \in closedFor
        BY <1>2, <3>3, ClosesItsOwn
      <4> QED
        BY <1>4, <3>2, <3>3, <4>1 DEF Steady
    <3>4. channel = "job"
      BY <1>1, <1>2, <1>6 DEF JobAcks, Steady
    <3>5. \/ sender' = [sender EXCEPT ![r] = NoJob]
          \/ Closed(acks, drawn) /\ sender' = [sender EXCEPT ![r] = s]
      <4>1. [sender EXCEPT ![r] = [@ EXCEPT !.step = "marking"]] = [sender EXCEPT ![r] = s]
        BY <1>1, <3>1
      <4>2. \/ sender' = [sender EXCEPT ![r] = NoJob]
            \/ Closed(acks, drawn) /\ sender' = [sender EXCEPT ![r] = [@ EXCEPT !.step = "marking"]]
        BY <1>1, <1>6 DEF JobAcks
      <4> QED
        BY <4>1, <4>2
    <3> QED
      BY <1>5, <3>3, <3>4, <3>5
  <2>3. /\ order' \in Orders /\ order'.gen = order.gen
        /\ past' \in {past, past \cup {order'}} /\ order' \in past'
    <3>1. CASE acks = <<>>
      BY <1>1, <1>2, <1>6, <3>1 DEF JobAcks
    <3>2. CASE acks # <<>>
      <4>1. PICK key : ReceiveAcks(key, acks, drawn)
        BY <1>1, <1>6, <3>2 DEF JobAcks
      <4> QED
        BY <1>2, <3>2, <4>1, AcksReceived
    <3> QED
      BY <3>1, <3>2
  <2>4. ErpTypeOK' /\ Numbered'
    BY <1>2, <1>3, <2>1, <2>3, NotByPeople
  <2> QED
    BY <2>1, <2>2, <2>4 DEF ErpInv
<1>7. CASE JobMarks(r)
  <2>1. Mark(drawn) /\ sender' = [sender EXCEPT ![r] = NoJob] /\ UNCHANGED <<order, past>> /\ drawn.gen \in closedFor
    BY <1>1, <1>2, <1>7 DEF JobMarks, Steady
  <2>2. row' \in Rows /\ row'.gen <= tokens' /\ ClosedByItsOwn'
    BY <1>3, <2>1, MarkedRow
  <2>3. ErpTypeOK' /\ Numbered'
    BY <1>2, <1>3, <2>1, <2>2, NotByPeople
  <2> QED
    BY <1>5, <2>1, <2>2, <2>3 DEF ErpInv
<1> QED
  BY <1>6, <1>7

LEMMA AsksKeeps ==
    ASSUME ErpInv, Asks \/ NoMoreOf
    PROVE  ErpInv'
<1>1. UNCHANGED <<channel, order, past, row, there, sender, closedFor, crossed, astray, tokens, saves>>
  BY DEF Asks, NoMoreOf
<1>2. UnderWay'
  <2>1. CASE Asks
    <3>1. PICK out, back : out = Outbound /\ back = Withdrawn(row)
      OBVIOUS
    <3>2. out \in Seq(Outs(tokens)) /\ back \in Seq(Outs(tokens))
      BY <3>1, ListedIs
    <3>3. asked' = out \o back /\ channel = "asks" /\ mail' = mail
      BY <2>1, <3>1 DEF Asks
    <3>4. asked' \in Seq(Outs(tokens))
      BY <3>2, <3>3
    <3> QED
      BY <1>1, <3>3, <3>4 DEF ErpInv, UnderWay, Steady
  <2>2. CASE NoMoreOf
    <3>1. mail' \subseteq mail /\ asked' = asked
      BY <2>2 DEF NoMoreOf
    <3> QED
      BY <1>1, <3>1 DEF ErpInv, UnderWay, Steady
  <2> QED
    BY <2>1, <2>2
<1>3. CopiesOK'
  BY <1>1 DEF ErpInv, CopiesOK, OneInHand, Holds, Making, Open
<1> QED
  BY <1>1, <1>2, <1>3 DEF ErpInv, ErpTypeOK, Numbered, ClosedByItsOwn

LEMMA WorksKeeps ==
    ASSUME ErpInv, Works
    PROVE  ErpInv'
<1>1. PICK o, rest : o = Head(asked) /\ rest = Tail(asked)
  OBVIOUS
<1>2. /\ asked \in Seq(Outs(tokens)) /\ asked # <<>> /\ channel = "asks" /\ tokens \in Nat
      /\ sender \in [SendRuns -> OrderRuns(closedFor, tokens)] /\ \A r \in SendRuns : Steady(sender[r])
      /\ mail \subseteq [id : 1..MaxAcks, ack : Acks(closedFor, tokens)]
  BY DEF Works, ErpInv, UnderWay, ErpTypeOK
<1>3. o \in Outs(tokens) /\ rest \in Seq(Outs(tokens))
  BY <1>1, <1>2
<1>4. /\ asked' = rest /\ closedFor' = closedFor \cup {o.row}
      /\ UNCHANGED <<channel, order, past, row, seen, sender, crossed, astray, tokens, saves>>
  BY <1>1 DEF Works
<1>5. PICK n \in Numbers, k \in FreeIds :
         TakesOver(o, n) /\ mail' = mail \cup {[id |-> k, ack |-> [ref |-> n, version |-> o.version]]}
  BY <1>1 DEF Works
<1>6. there' \in [Numbers -> Copies] /\ CopiesOK'
  BY <1>2, <1>3, <1>4, <1>5, TakenOver DEF Outs
<1>7. PICK a : a = [ref |-> n, version |-> o.version]
  OBVIOUS
<1>8. a \in Acks(closedFor', tokens)
  BY <1>3, <1>4, <1>7 DEF Acks, Outs
<1>9. Acks(closedFor, tokens) \subseteq Acks(closedFor', tokens)
  BY <1>2, <1>4, AcksGrow
<1>10. mail' \subseteq [id : 1..MaxAcks, ack : Acks(closedFor', tokens)]
  <2>1. k \in 1..MaxAcks
    BY DEF FreeIds
  <2> QED
    BY <1>2, <1>5, <1>7, <1>8, <1>9, <2>1
<1>11. sender \in [SendRuns -> OrderRuns(closedFor', tokens)]
  BY <1>2, <1>4, OrderRunsGrow
<1>12. UnderWay'
  <2>1. \A r \in SendRuns : Steady(sender[r])'
    BY <1>2, <1>4 DEF Steady
  <2> QED
    BY <1>2, <1>3, <1>4, <1>10, <1>11, <2>1 DEF UnderWay
<1>13. ErpTypeOK' /\ Numbered' /\ ClosedByItsOwn'
  BY <1>4, <1>6 DEF ErpInv, ErpTypeOK, Numbered, ClosedByItsOwn
<1> QED
  BY <1>6, <1>12, <1>13 DEF ErpInv

LEMMA AckArrivesKeeps ==
    ASSUME ErpInv, AckArrives
    PROVE  ErpInv'
<1>1. PICK m, acks, drawn :
         /\ m \in mail /\ acks = <<m.ack>> /\ drawn = IF Untaken(row) THEN row ELSE NoRow
         /\ ReceiveAcks(Key(m.id, acks), acks, drawn)
         /\ IF Key(m.id, acks) \notin seen /\ Closed(acks, drawn) THEN Mark(drawn) ELSE UNCHANGED row
  BY DEF AckArrives
<1>2. UNCHANGED <<channel, there, sender, asked, mail, closedFor, crossed, astray, tokens, saves>>
  BY DEF AckArrives
<1>3. acks \in Seq(Acks(closedFor, tokens)) /\ acks # <<>>
  <2>1. PICK a : a = m.ack /\ a \in Acks(closedFor, tokens)
    BY <1>1 DEF ErpInv, UnderWay
  <2> QED
    BY <1>1, <2>1
<1>4. /\ order' \in Orders /\ order'.gen = order.gen
      /\ past' \in {past, past \cup {order'}} /\ order' \in past'
  BY <1>1, <1>3, AcksReceived
<1>5. row' \in Rows /\ row'.gen <= tokens' /\ ClosedByItsOwn'
  <2>1. CASE Closed(acks, drawn) /\ Mark(drawn)
    <3>1. drawn.gen \in closedFor
      BY <1>3, <2>1, ClosesItsOwn
    <3> QED
      BY <1>2, <2>1, <3>1, MarkedRow
  <2>2. CASE row' = row
    BY <1>2, <2>2 DEF ErpInv, ErpTypeOK, Numbered, ClosedByItsOwn
  <2> QED
    BY <1>1, <2>1, <2>2
<1>6. ErpTypeOK' /\ Numbered'
  <2>1. there' \in [Numbers -> Copies]
    BY <1>2, OrderIs
  <2> QED
    BY <1>2, <1>4, <1>5, <2>1, OrderIs, NotByPeople
<1>7. UnderWay' /\ CopiesOK'
  BY <1>2 DEF ErpInv, UnderWay, Steady, CopiesOK, OneInHand, Holds, Making, Open
<1> QED
  BY <1>5, <1>6, <1>7 DEF ErpInv

LEMMA ErpStarts == ErpInit => ErpInv
<1> SUFFICES ASSUME ErpInit PROVE ErpInv
  OBVIOUS
<1>1. PICK c \in OrderContents : order = [Deleted EXCEPT !.at = "here", !.content = c, !.released = TRUE]
  BY DEF ErpInit
<1>2. order = [at |-> "here", content |-> c, released |-> TRUE, ref |-> 0, sent |-> NoVersion, gen |-> 0]
  BY <1>1 DEF Deleted, Away
<1>3. order \in Orders /\ order.gen = 0
  BY <1>2, ErpAssumption DEF Orders, NoVersion, Versions
<1>4. row \in Rows /\ row.gen = 0 /\ row.taken = FALSE
  BY ErpAssumption DEF ErpInit, NoRow, Rows
<1>5. \A n \in Numbers : there[n].at = "unmade"
  BY DEF ErpInit
<1>6. there \in [Numbers -> Copies]
  BY DEF ErpInit, Copies
<1>7. /\ tokens = 0 /\ saves = 0 /\ past = {order} /\ mail = {} /\ asked = <<>> /\ channel \in Channels
      /\ crossed = FALSE /\ astray = FALSE
  BY DEF ErpInit
<1>11. sender = [r \in SendRuns |-> NoJob]
  BY DEF ErpInit
<1>8. UnderWay
  <2>1. <<>> \in Seq(Outs(tokens))
    OBVIOUS
  <2>2. \A r \in SendRuns : sender[r] = NoJob
    BY <1>11
  <2>3. NoJob \in OrderRuns(closedFor, tokens) /\ Steady(NoJob)
    BY NoJobIs
  <2>4. sender \in [SendRuns -> OrderRuns(closedFor, tokens)]
    BY <1>11, <2>3
  <2> QED
    BY <1>7, <2>1, <2>2, <2>3, <2>4 DEF UnderWay
<1>9. ErpTypeOK /\ Numbered
  <2>1. {MaxRefs, MaxSaves} \subseteq Nat /\ 0 \in 0..MaxSaves
    BY ErpAssumption
  <2>2. ErpTypeOK
    BY <1>3, <1>4, <1>6, <1>7, <2>1 DEF ErpTypeOK
  <2>3. Numbered
    BY <1>3, <1>4, <1>7 DEF Numbered
  <2> QED
    BY <2>2, <2>3
<1>10. CopiesOK /\ ClosedByItsOwn
  <2>1. \A r \in SendRuns : sender[r].step = "idle"
    BY <1>11, NoJobIs
  <2> QED
    BY <1>4, <1>5, <2>1 DEF CopiesOK, OneInHand, Holds, Making, Open, ClosedByItsOwn
<1> QED
  BY <1>8, <1>9, <1>10 DEF ErpInv

LEMMA ErpMoves == ErpInv /\ [ErpNext]_erpVars => ErpInv'
<1> SUFFICES ASSUME ErpInv, [ErpNext]_erpVars PROVE ErpInv'
  OBVIOUS
<1>1. CASE ByPeople
  BY <1>1, ByPeopleKeeps, PersonSavesKeeps
<1>2. CASE Sending
  BY <1>2, JobReadsKeeps, JobLooksKeeps, JobSendsKeeps, JobAcksKeeps DEF Sending
<1>3. CASE Asking
  BY <1>3, AsksKeeps, WorksKeeps, AckArrivesKeeps DEF Asking
<1>4. CASE UNCHANGED erpVars
  BY <1>4 DEF erpVars, ErpInv, ErpTypeOK, UnderWay, Steady, Numbered, CopiesOK, OneInHand, Holds, Making, Open,
             ClosedByItsOwn
<1> QED
  BY <1>1, <1>2, <1>3, <1>4 DEF ErpNext

\* Every order, number and withdrawal is of its kind, with as many lifecycles and withdrawals as saves at most.
THEOREM ErpType == ErpSpec => []ErpTypeOK
<1>1. ErpInv => ErpTypeOK
  BY DEF ErpInv
<1> QED
  BY <1>1, ErpStarts, ErpMoves, PTL DEF ErpSpec

\* However many answers are lost and acknowledgements late, and however many runs overlap, there is one open copy of
\* an order in the other system, unless two runs asked for it in vain before either had made it; and a withdrawal counts as taken only when that very withdrawal was worked off (apps/odoo.py; connect/erp.py _ack).
THEOREM OneCopy == ErpSpec => []OneCopyOfItsOwn
<1>1. ErpInv => OneCopyOfItsOwn
  <2> SUFFICES ASSUME ErpInv PROVE MadeOnce
    BY DEF ErpInv, OneCopyOfItsOwn
  <2> SUFFICES ASSUME ~crossed PROVE MadeOnce
    BY DEF MadeOnce
  <2>1. PICK open : open = {n \in Numbers : there[n].at = "open"}
    OBVIOUS
  <2>2. \A n, m \in open : n = m
    BY <2>1 DEF ErpInv, CopiesOK, OneInHand, Open
  <2>3. CASE open = {}
    BY <2>1, <2>3, FS_EmptySet DEF MadeOnce
  <2>4. CASE open # {}
    <3>1. PICK n : open = {n}
      BY <2>2, <2>4
    <3>2. Cardinality({n}) = 1
      BY FS_Singleton
    <3>3. Cardinality(open) <= 1
      BY <3>1, <3>2
    <3> QED
      BY <2>1, <3>3 DEF MadeOnce
  <2> QED
    BY <2>3, <2>4
<1> QED
  BY <1>1, ErpStarts, ErpMoves, PTL DEF ErpSpec

\* An order in its place stays there but by a save.
LEMMA PlaceBySaves ==
    ASSUME ErpInv, [ErpNext]_erpVars, ~ByPeople
    PROVE  order'.at = order.at /\ order'.gen = order.gen
<1>1. CASE UNCHANGED order
  BY <1>1
<1>2. ASSUME NEW r \in SendRuns, JobAcks(r) PROVE order'.at = order.at /\ order'.gen = order.gen
  <2>1. PICK acks : acks = sender[r].acks /\ acks \in Seq(Acks(closedFor, tokens))
    BY RunIs DEF OrderRuns
  <2>2. CASE acks = <<>>
    BY <1>2, <2>1, <2>2 DEF JobAcks
  <2>3. CASE acks # <<>>
    <3>1. PICK key, drawn : ReceiveAcks(key, acks, drawn)
      BY <1>2, <2>1, <2>3 DEF JobAcks
    <3> QED
      BY <2>1, <2>3, <3>1, AcksReceived
  <2> QED
    BY <2>2, <2>3
<1>3. CASE AckArrives
  <2>1. PICK m, acks, drawn : m \in mail /\ acks = <<m.ack>> /\ ReceiveAcks(Key(m.id, acks), acks, drawn)
    BY <1>3 DEF AckArrives
  <2>2. acks \in Seq(Acks(closedFor, tokens)) /\ acks # <<>>
    <3>1. PICK a : a = m.ack /\ a \in Acks(closedFor, tokens)
      BY <2>1 DEF ErpInv, UnderWay
    <3> QED
      BY <2>1, <3>1
  <2> QED
    BY <2>1, <2>2, AcksReceived
<1> QED
  BY <1>1, <1>2, <1>3 DEF ErpNext, erpVars, Sending, Asking, JobReads, JobReadsGone, JobLooks, JobSends, JobRefused,
                          JobMarks, JobStops, Asks, Works, NoMoreOf

LEMMA RestoredStep ==
    ASSUME ErpInv, [ErpNext]_erpVars, ~IsHere(order), row.taken, IsHere(order')
    PROVE  /\ ChangeOf(order') = "new"
           /\ \A m \in mail : m.ack.version # Version(order')
           /\ \A r \in SendRuns : \A k \in DOMAIN sender[r].acks : sender[r].acks[k].version # Version(order')
<1>1. ByPeople
  BY PlaceBySaves DEF IsHere
<1>2. PICK after \in Orders : after.gen <= tokens /\ PersonSaves(after)
  BY <1>1, ByPeopleKeeps
<1>3. order' = Revive(order, after)
  BY <1>2 DEF PersonSaves, SaveOrder
<1>4. order' = [after EXCEPT !.sent = NoVersion, !.gen = tokens + 1]
  <2>1. IsHere(after)
    BY <1>3 DEF Revive
  <2> QED
    BY <1>3, <2>1 DEF Revive
<1>5. order'.sent = NoVersion /\ order'.gen = tokens + 1
  BY <1>4 DEF Orders
<1>6. Version(order').of = "order" /\ Version(order').mark = tokens + 1
  BY <1>5 DEF Version
<1>7. ChangeOf(order') = "new"
  <2>1. NoVersion # Version(order')
    BY <1>6 DEF NoVersion
  <2> QED
    BY <1>5, <2>1 DEF ChangeOf
<1>8. ASSUME NEW m \in mail PROVE m.ack.version # Version(order')
  <2>1. m.ack.version.mark <= tokens /\ m.ack.version.mark \in Nat /\ tokens \in Nat
    BY DEF ErpInv, UnderWay, ErpTypeOK, Acks, VersionsTo, Versions
  <2> QED
    BY <1>6, <2>1
<1>9. ASSUME NEW r \in SendRuns, NEW k \in DOMAIN sender[r].acks PROVE sender[r].acks[k].version # Version(order')
  <2>1. PICK acks : acks = sender[r].acks
    OBVIOUS
  <2>2. acks \in Seq(Acks(closedFor, tokens)) /\ tokens \in Nat
    BY <2>1, RunIs, OrderIs DEF OrderRuns
  <2>3. PICK a : a = acks[k] /\ a \in Acks(closedFor, tokens)
    BY <1>9, <2>1, <2>2
  <2>4. a.version.mark <= tokens /\ a.version.mark \in Nat
    BY <2>3 DEF Acks, VersionsTo, Versions
  <2> QED
    BY <1>6, <2>1, <2>2, <2>3, <2>4
<1> QED
  BY <1>7, <1>8, <1>9

\* An order that comes back after its copy was closed is new to the ERP, in a lifecycle that no acknowledgement
\* under way is of (store.py _revive_erp).
THEOREM RestoredIsNew == ErpSpec => RestoredGoesAgain
<1>1. ErpInv /\ [ErpNext]_erpVars =>
        [~IsHere(order) /\ row.taken /\ IsHere(order')
         => /\ ChangeOf(order') = "new"
            /\ \A m \in mail : m.ack.version # Version(order')
            /\ \A r \in SendRuns : \A k \in DOMAIN sender[r].acks : sender[r].acks[k].version # Version(order')]_erpVars
  BY RestoredStep
<1> QED
  BY <1>1, ErpStarts, ErpMoves, PTL DEF ErpSpec, RestoredGoesAgain

\* While it is here an order keeps its lifecycle, whatever revision is put back and whatever is acknowledged
\* (store.py _revive_erp; connect/erp.py acknowledge).
THEOREM LifecycleKept == ErpSpec => KeepsLifecycle
<1>1. ASSUME ErpInv, [ErpNext]_erpVars, IsHere(order), order.gen # 0, IsHere(order')
      PROVE  order'.gen = order.gen
  <2>1. CASE ~ByPeople
    BY <1>1, <2>1, PlaceBySaves
  <2>2. CASE ByPeople
    <3>1. PICK after \in Orders : PersonSaves(after)
      BY <1>1, <2>2, ByPeopleKeeps
    <3>2. order' = Revive(order, after)
      BY <3>1 DEF PersonSaves, SaveOrder
    <3>3. PICK g : g = order.gen
      OBVIOUS
    <3>4. PICK turned : turned = [after EXCEPT !.sent = NoVersion, !.gen = g]
      OBVIOUS
    <3>5. turned.gen = g
      BY <3>1, <3>4 DEF Orders
    <3>6. IsHere(after)
      BY <1>1, <3>2 DEF Revive
    <3>7. order' = IF after.gen # g THEN turned ELSE after
      BY <1>1, <3>2, <3>3, <3>4, <3>6 DEF Revive
    <3> QED
      BY <3>3, <3>5, <3>7
  <2> QED
    BY <2>1, <2>2
<1>2. ErpInv /\ [ErpNext]_erpVars =>
        [IsHere(order) /\ order.gen # 0 /\ IsHere(order') => order'.gen = order.gen]_erpVars
  BY <1>1
<1> QED
  BY <1>2, ErpStarts, ErpMoves, PTL DEF ErpSpec, KeepsLifecycle
=============================================================================
