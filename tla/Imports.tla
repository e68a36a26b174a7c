------------------------------- MODULE Imports -------------------------------
(***************************************************************************)
(* A scheduled import (connect/imports.py): a job that reads another       *)
(* system every hour, day or week and applies what it read as a message    *)
(* (connect/messages.py), on the server's clock (connect/scheduler.py) or  *)
(* when an owner presses "Run now".                                        *)
(*                                                                         *)
(* A run takes a copy of the job under the store's lock, lets go of it,    *)
(* reads the other system, applies what it read under the lock, lets go    *)
(* again, and writes how it went over the job. In between the job may be   *)
(* changed, run by somebody else or removed, the other system changes, and *)
(* the server may stop.                                                    *)
(*                                                                         *)
(* Time is told by what changed in the other systems: a moment is how many *)
(* changes each of them has made. "Changed since a moment" is then exact.  *)
(* Every change gives a content of its own, so that a change stands for    *)
(* the fingerprint of what is read after it.                               *)
(***************************************************************************)
EXTENDS Integers, FiniteSets

CONSTANTS
    Sources,        \* hosts the job may read
    Whole,          \* those whose address has no {since}: read whole each time
    Clocks,         \* server processes that run the clock
    People,         \* owners pressing "Run now"
    EditsInRuns,    \* whether the job may be changed between a run's copy and its end
    MaxChanges,     \* bound: changes each other system makes
    Nothing         \* what a read of an unchanged system gives; no content

ASSUME WholeAssumption == Whole \subseteq Sources
ASSUME RunnerAssumption == Clocks \cap People = {}
ASSUME EditsAssumption == EditsInRuns \in BOOLEAN
ASSUME ImportsBoundAssumption == MaxChanges \in Nat
ASSUME NothingAssumption == Nothing \notin Sources \X (1..MaxChanges)

VARIABLES
    changes,    \* how many changes each other system has made: the time
    job,        \* the row of import_jobs
    runs,       \* what each runner is doing
    company,    \* what the records the job brings are now
    logged,     \* messages: the contents received
    made,       \* auxiliary: how often each content was put into the company
    cut         \* auxiliary: the contents a stop left made and not logged

importsVars == <<changes, job, runs, company, logged, made, cut>>

-----------------------------------------------------------------------------
Contents  == Sources \X (1..MaxChanges)
Moments   == [Sources -> 0..MaxChanges]
Beginning == [s \in Sources |-> 0]      \* cursor = "": 1970

Jobs == [source : Sources, cursor : Moments, enabled : BOOLEAN, deleted : BOOLEAN,
         next : {"never", "later", "due"}]

Runners == Clocks \cup People
NoRun   == [at |-> "idle"]

\* What run_job has in hand: the copy of the job, when it started, what it read.
InRun(at, copy, started, got) == [at |-> at, job |-> copy, started |-> started, got |-> got]

Runs == [at : {"idle"}] \cup [at : {"listed"}, started : Moments]
        \cup [at : {"copied", "read", "good", "failed"}, job : Jobs, started : Moments,
              got : Contents \cup {Nothing}]

Due == job.enabled /\ ~job.deleted /\ job.next = "due"

\* next_run, as run_job and save_job set it.
NextTime(enabled) == IF enabled THEN "later" ELSE "never"

MayEdit == EditsInRuns \/ \A r \in Runners : runs[r].at \in {"idle", "listed"}

Becomes(r, run) == runs' = [runs EXCEPT ![r] = run]

-----------------------------------------------------------------------------
ImportsInit ==
    /\ changes = Beginning
    /\ job \in [source : Sources, cursor : {Beginning}, enabled : {TRUE}, deleted : {FALSE},
                next : {"later"}]
    /\ runs = [r \in Runners |-> NoRun]
    /\ company = Nothing
    /\ logged = {}
    /\ made = [c \in Contents |-> 0]
    /\ cut = {}

\* The other system changes a record; a person changes it in the company.
Change(s) ==
    /\ changes[s] < MaxChanges
    /\ changes' = [changes EXCEPT ![s] = @ + 1]
    /\ UNCHANGED <<job, runs, company, logged, made, cut>>

Edit ==
    /\ company' = Nothing
    /\ UNCHANGED <<changes, job, runs, logged, made, cut>>

\* save_job, changing the job: another host is read again from the beginning.
SaveJob(source, enabled) ==
    /\ MayEdit
    /\ ~job.deleted
    /\ job' = [job EXCEPT !.source = source,
                          !.enabled = enabled,
                          !.next = NextTime(enabled),
                          !.cursor = IF source = job.source THEN @ ELSE Beginning]
    /\ UNCHANGED <<changes, runs, company, logged, made, cut>>

\* delete_job.
DeleteJob ==
    /\ MayEdit
    /\ ~job.deleted
    /\ job' = [job EXCEPT !.deleted = TRUE, !.enabled = FALSE, !.next = "never"]
    /\ UNCHANGED <<changes, runs, company, logged, made, cut>>

\* next_run passes.
TimeComes ==
    /\ job.next = "later"
    /\ job' = [job EXCEPT !.next = "due"]
    /\ UNCHANGED <<changes, runs, company, logged, made, cut>>

-----------------------------------------------------------------------------
(* A run.                                                                    *)

\* tick, run_due: the round's time, and the jobs due then.
List(r) ==
    /\ r \in Clocks /\ runs[r] = NoRun
    /\ Due
    /\ Becomes(r, [at |-> "listed", started |-> changes])
    /\ UNCHANGED <<changes, job, company, logged, made, cut>>

\* run_job, _saved: a copy of the job, switched on or not.
Copy(r) ==
    /\ ~job.deleted
    /\ \/ runs[r].at = "listed" /\ Becomes(r, InRun("copied", job, runs[r].started, Nothing))
       \/ r \in People /\ runs[r] = NoRun /\ Becomes(r, InRun("copied", job, changes, Nothing))
    /\ UNCHANGED <<changes, job, company, logged, made, cut>>

\* ... of a job removed since it was listed: a 404 (_gave_up finds it off).
Gone(r) ==
    /\ runs[r].at = "listed" /\ job.deleted
    /\ Becomes(r, NoRun)
    /\ UNCHANGED <<changes, job, company, logged, made, cut>>

\* _read: all of it, or what changed since the copy's cursor.
Read(r) ==
    /\ runs[r].at = "copied"
    /\ LET s   == runs[r].job.source
           new == changes[s] > IF s \in Whole THEN 0 ELSE runs[r].job.cursor[s]
       IN  Becomes(r, [runs[r] EXCEPT !.at = "read",
                                      !.got = IF new THEN <<s, changes[s]>> ELSE Nothing])
    /\ UNCHANGED <<changes, job, company, logged, made, cut>>

\* The other system does not answer, what it gives cannot be read, the company
\* refuses the save, or the owner who made the job may no longer: _failed.
Fails(r) ==
    /\ runs[r].at \in {"copied", "read"}
    /\ Becomes(r, [runs[r] EXCEPT !.at = "failed"])
    /\ UNCHANGED <<changes, job, company, logged, made, cut>>

\* A slip: what was sent before is not looked for.
Receive_Anew(r) ==
    LET got == runs[r].got
    IN  /\ runs[r].at = "read"
        /\ Becomes(r, [runs[r] EXCEPT !.at = "good"])
        /\ logged' = logged \cup ({got} \ {Nothing})
        /\ IF got # Nothing /\ company # got
           THEN company' = got /\ made' = [made EXCEPT ![got] = @ + 1]
           ELSE UNCHANGED <<company, made>>
        /\ UNCHANGED <<changes, job, cut>>

\* receive, under the lock: the first of this content is applied (or refused,
\* line by line) and logged; records that are as here already are left alone.
Receive(r) ==
    LET got == runs[r].got
    IN  /\ runs[r].at = "read"
        /\ Becomes(r, [runs[r] EXCEPT !.at = "good"])
        /\ logged' = logged \cup ({got} \ {Nothing})
        /\ \/ /\ got \notin logged \cup {Nothing, company}
              /\ company' = got
              /\ made' = [made EXCEPT ![got] = @ + 1]
           \/ UNCHANGED <<company, made>>
        /\ UNCHANGED <<changes, job, cut>>

\* The server stops when the save is made and the log row is not.
StopsInReceive(r) ==
    LET got == runs[r].got
    IN  /\ runs[r].at = "read"
        /\ got \notin logged \cup {Nothing, company}
        /\ got \notin cut                     \* bound: one such stop for a content
        /\ company' = got
        /\ made' = [made EXCEPT ![got] = @ + 1]
        /\ cut' = cut \cup {got}
        /\ Becomes(r, NoRun)
        /\ UNCHANGED <<changes, job, logged>>

\* Slips: the cursor is when the run ended; a run that failed moves it too.
Finish_AtItsEnd(r) ==
    /\ runs[r].at \in {"good", "failed"}
    /\ job' = [job EXCEPT !.next = NextTime(runs[r].job.enabled),
                          !.cursor = IF runs[r].at = "good" THEN changes ELSE runs[r].job.cursor]
    /\ Becomes(r, NoRun)
    /\ UNCHANGED <<changes, company, logged, made, cut>>

Finish_Always(r) ==
    /\ runs[r].at \in {"good", "failed"}
    /\ job' = [job EXCEPT !.next = NextTime(runs[r].job.enabled), !.cursor = runs[r].started]
    /\ Becomes(r, NoRun)
    /\ UNCHANGED <<changes, company, logged, made, cut>>

\* The end of run_job: how it went, over the row, from the copy.
Finish(r) ==
    /\ runs[r].at \in {"good", "failed"}
    /\ job' = [job EXCEPT !.next = NextTime(runs[r].job.enabled),
                          !.cursor = IF runs[r].at = "good" THEN runs[r].started
                                     ELSE runs[r].job.cursor]
    /\ Becomes(r, NoRun)
    /\ UNCHANGED <<changes, company, logged, made, cut>>

\* An error nobody foresaw: on the clock, the job as it is now moves on to its
\* next time (_gave_up).
Breaks(r) ==
    /\ runs[r].at \in {"copied", "read"}
    /\ job' = IF r \in Clocks THEN [job EXCEPT !.next = NextTime(job.enabled)] ELSE job
    /\ Becomes(r, NoRun)
    /\ UNCHANGED <<changes, company, logged, made, cut>>

\* The server process stops.
Stops(r) ==
    /\ runs[r] # NoRun
    /\ Becomes(r, NoRun)
    /\ UNCHANGED <<changes, job, company, logged, made, cut>>

Step(r) ==
    \/ List(r) \/ Copy(r) \/ Gone(r) \/ Read(r) \/ Fails(r) \/ Receive(r) \/ Finish(r)
    \/ Breaks(r) \/ StopsInReceive(r) \/ Stops(r)

ImportsNext ==
    \/ \E s \in Sources : Change(s)
    \/ Edit
    \/ \E s \in Sources, on \in BOOLEAN : SaveJob(s, on)
    \/ DeleteJob
    \/ TimeComes
    \/ \E r \in Runners : Step(r)

ImportsSpec == ImportsInit /\ [][ImportsNext]_importsVars

\* Time passes and the clock's rounds go on: a job that is due time and again is
\* found due. A run that is started time and again gets as far as reading, a
\* system asked time and again answers, and what it gave is received: the server
\* does not stop, and nothing fails, in every run there is.
ImportsFairness ==
    /\ WF_importsVars(TimeComes)
    /\ \A r \in Clocks : /\ SF_importsVars(List(r)) /\ SF_importsVars(Copy(r))
                         /\ SF_importsVars(Read(r)) /\ SF_importsVars(Receive(r))
                         /\ WF_importsVars(Gone(r)) /\ WF_importsVars(Finish(r))

FairImportsSpec == ImportsSpec /\ ImportsFairness

-----------------------------------------------------------------------------
\* Type correctness.
ImportsTypeOK ==
    /\ changes \in Moments
    /\ job \in Jobs
    /\ runs \in [Runners -> Runs]
    /\ company \in Contents \cup {Nothing}
    /\ logged \subseteq Contents
    /\ made \in [Contents -> Nat]
    /\ cut \subseteq Contents

\* The job's system at or after its n-th change was received.
Received(s, n) == \E m \in n..MaxChanges : <<s, m>> \in logged

\* Nothing is missed: what the job will not ask for again ({since} is after it)
\* has been received, whichever runs failed, broke or overlapped; and a job moved
\* to another host starts again from the beginning.
NothingMissed ==
    LET s == job.source
    IN  s \notin Whole => \A n \in 1..job.cursor[s] : Received(s, n)

\* No content is put into the company twice, whoever reads it again and whatever
\* a person made of the records since, unless the server stopped between its save
\* and its log row.
AppliedOnce == \A c \in Contents \ cut : made[c] <= 1

\* A job that is switched on has a time to run at.
EnabledIsScheduled == job.enabled => job.next # "never"

\* Every change of the system a job reads is received in the end, unless the job
\* is switched off, removed or moved to another.
ChangesCome ==
    \A s \in Sources, n \in 1..MaxChanges :
        LET Reads == job.source = s /\ job.enabled
        IN  (changes[s] >= n /\ Reads) ~> (Received(s, n) \/ ~Reads)
=============================================================================
