------------------------------ MODULE MailOutbox ------------------------------
(* The mail a company sends from the server (connect/outbox.py).               *)
(*                                                                            *)
(* A document somebody sends, and the worklist reminders the server's clock    *)
(* sends, are put in the company's outbox as being sent while the store's lock *)
(* is held; they are delivered without it, and marked after. The server may     *)
(* stop anywhere in between. Time is counted in days.                          *)
EXTENDS Integers, Sequences, FiniteSets

CONSTANTS
    Senders,       \* the company's members
    Daily,         \* mails a day per company
    PerAccount,    \* mails a day per person
    MaxDay,        \* bound: days
    MaxMails       \* bound: mails

ASSUME MailAssumption == {Daily, PerAccount, MaxDay, MaxMails} \subseteq Nat

VARIABLES
    outbox,      \* the mails, in order
    reached,     \* those the mail server took
    threads,     \* the mails a request or the clock delivers, and how far it is
    remindAt,    \* the day of the next reminders; Never when they are off
    reminding,   \* the reminders being put in the outbox, in one hold of the lock
    today

mailVars == <<outbox, reached, threads, remindAt, reminding, today>>

-----------------------------------------------------------------------------
Never == MaxDay + 2
Mails == [to : Senders \cup {"supplier"}, by : Senders \cup {"server"}, day : 0..MaxDay, due : 0..Never,
          status : {"sending", "sent", "failed"}]

NoRound == [on |-> FALSE, left |-> {}, made |-> {}]

LockFree == ~reminding.on

\* A thread delivers these mails.
Delivers(S) == threads' = [i \in DOMAIN threads \cup S |-> IF i \in DOMAIN threads THEN threads[i] ELSE "delivering"]

OfToday == {i \in DOMAIN outbox : outbox[i].day >= today}

\* A document goes in the outbox, within the day's limits: mails on their way count.
SendDocument(p) ==
    /\ LockFree /\ Len(outbox) < MaxMails
    /\ Cardinality(OfToday) < Daily
    /\ Cardinality({i \in OfToday : outbox[i].by = p}) < PerAccount
    /\ outbox' = Append(outbox, [to |-> "supplier", by |-> p, day |-> today, due |-> Never, status |-> "sending"])
    /\ Delivers({Len(outbox')})
    /\ UNCHANGED <<reached, remindAt, reminding, today>>

\* The mail server takes a mail, or refuses it or cannot be reached.
Deliver(i) ==
    /\ threads[i] = "delivering"
    /\ \/ reached' = reached \cup {i} /\ threads' = [threads EXCEPT ![i] = "sent"]
       \/ UNCHANGED reached /\ threads' = [threads EXCEPT ![i] = "failed"]
    /\ UNCHANGED <<outbox, remindAt, reminding, today>>

\* How it went is written in the outbox.
Written(i) ==
    /\ LockFree /\ threads[i] \in {"sent", "failed"}
    /\ outbox' = [outbox EXCEPT ![i].status = threads[i]]
    /\ threads' = [j \in DOMAIN threads \ {i} |-> threads[j]]
    /\ UNCHANGED <<reached, remindAt, reminding, today>>

-----------------------------------------------------------------------------
(* Worklist reminders (set_reminders, remind_due, remind_now, remind).          *)

SetReminders ==
    /\ LockFree
    /\ remindAt' \in {Never, today + 1}
    /\ UNCHANGED <<outbox, reached, threads, reminding, today>>

\* The clock found the reminders due a while ago, or an owner asks for them now: whoever owns open exceptions.
BeginReminding ==
    /\ LockFree
    /\ \E owners \in SUBSET Senders : reminding' = [on |-> TRUE, left |-> owners, made |-> {}]
    /\ UNCHANGED <<outbox, reached, threads, remindAt, today>>

\* A slip: each reminder goes out as soon as it is in the outbox.
StartsEach_AtOnce(i) == Delivers({i})

\* They go out when the lock is let go.
StartsEach(i) == UNCHANGED threads

Remind(p) ==
    /\ p \in reminding.left /\ Len(outbox) < MaxMails
    /\ outbox' = Append(outbox, [to |-> p, by |-> "server", day |-> today,
                                 due |-> IF remindAt <= today THEN remindAt ELSE Never, status |-> "sending"])
    /\ reminding' = [reminding EXCEPT !.left = @ \ {p}, !.made = @ \cup {Len(outbox')}]
    /\ StartsEach(Len(outbox'))
    /\ UNCHANGED <<reached, remindAt, today>>

\* They are due again the next day, when they are on at all, and go out.
MoveOn ==
    /\ reminding.on /\ reminding.left = {}
    /\ remindAt' = IF remindAt = Never THEN Never ELSE today + 1
    /\ Delivers(reminding.made)
    /\ reminding' = NoRound
    /\ UNCHANGED <<outbox, reached, today>>

-----------------------------------------------------------------------------
DayPasses == /\ LockFree /\ today < MaxDay /\ today' = today + 1
             /\ UNCHANGED <<outbox, reached, threads, remindAt, reminding>>

\* The server stops and starts again: the outbox stays as it is.
ServerStops == /\ threads' = <<>> /\ reminding' = NoRound
               /\ UNCHANGED <<outbox, reached, remindAt, today>>

MailInit == /\ outbox = <<>> /\ reached = {} /\ threads = <<>>
            /\ remindAt = Never /\ reminding = NoRound /\ today = 0

MailNext == \/ \E p \in Senders : SendDocument(p) \/ Remind(p)
            \/ \E i \in DOMAIN threads : Deliver(i) \/ Written(i)
            \/ SetReminders \/ BeginReminding \/ MoveOn
            \/ DayPasses \/ ServerStops

MailSpec == MailInit /\ [][MailNext]_mailVars

MailTypeOK == /\ outbox \in Seq(Mails)
              /\ reached \subseteq DOMAIN outbox /\ DOMAIN threads \subseteq DOMAIN outbox
              /\ \A i \in DOMAIN threads : threads[i] \in {"delivering", "sent", "failed"}
              /\ remindAt \in 0..Never /\ today \in 0..MaxDay
              /\ reminding.left \subseteq Senders /\ reminding.made \subseteq DOMAIN outbox

\* However the server stops between putting reminders in the outbox and delivering them, nobody gets the reminders of
\* one time twice: those in the outbox when it stopped are not delivered later (remind; _deliver).
RemindedOnce ==
    \A i, j \in reached : outbox[i].by = "server" /\ outbox[i].due # Never
                          /\ outbox[i].to = outbox[j].to /\ outbox[i].due = outbox[j].due => i = j

\* Every mail that the outbox lists says "sent" or "failed" (MailRow.status, outbox.py:76).
ListedSays == LockFree => \A i \in DOMAIN outbox : outbox[i].status \in {"sent", "failed"}

==============================================================================
