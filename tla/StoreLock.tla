------------------------------ MODULE StoreLock ------------------------------
(***************************************************************************)
(* The lock every read-then-write of the stores runs under (dblock.py,     *)
(* postgres.py): a re-entrant thread lock within a server process and, at  *)
(* its outermost level, the database's own lock, so that several server    *)
(* processes on one database take turns.                                   *)
(*                                                                         *)
(* On PostgreSQL the database's lock belongs to the process's connection   *)
(* (a session advisory lock): it goes with the connection, at once or when *)
(* the database notices, and a lost connection is made again only where    *)
(* the lock is next taken. On a SQLite file it is an flock, which goes     *)
(* only with the process.                                                  *)
(*                                                                         *)
(* The section under the lock is a read and writes made from what was      *)
(* read, each an autocommitted statement or a transaction.                 *)
(***************************************************************************)
EXTENDS Integers, Sequences

CONSTANTS
    Processes,      \* server processes on the database
    Threads,        \* their threads
    Home,           \* the process of each thread
    Postgres,       \* PostgreSQL, or a SQLite file
    MaxSessions,    \* bound: connections one process makes
    MaxDepth,       \* bound: nested `with lock`
    MaxWrites,      \* bound: writes
    Nobody          \* no thread, no session

ASSUME HomeAssumption == Home \in [Threads -> Processes]
ASSUME PostgresAssumption == Postgres \in BOOLEAN
ASSUME BoundsAssumption == MaxSessions \in Nat \ {0} /\ MaxDepth \in Nat \ {0} /\ MaxWrites \in Nat
ASSUME NobodyAssumption ==
    Nobody \notin Threads /\ Nobody \notin Processes \X (1..MaxSessions) /\ Nobody \notin Nat

VARIABLES
    at,         \* where a thread is: "out", "taking" the database's lock, "in"
    waits,      \* whether it waits for the lock (acquire's `blocking`)
    owner,      \* who has a process's thread lock (_thread)
    level,      \* _depth
    session,    \* the number of a process's connection
    link,       \* a connection: "unused", "up", "cut" (the database has not noticed), "gone"
    holder,     \* the connection that has the database's lock
    leader,     \* the connection that has the lock of the server's clock
    leads,      \* the connection a process was given that lock on (leading, _leads)
    ticking,    \* whether a process is running a round of the clock
    writes,     \* the writes made: for each, how many there were when its section read
    seen        \* what a thread read in its section

lockVars == <<at, waits, owner, level, session, link, holder, leader, leads, ticking, writes, seen>>

Sessions   == Processes \X (1..MaxSessions)
Session(p) == <<p, session[p]>>
Up(p)      == link[Session(p)] = "up"

\* The connections the database has still, be their clients there or not.
KeptSessions == {s \in Sessions : link[s] \in {"up", "cut"}}

\* What the database does when it closes a connection: its locks are free.
Freed(lock, s) == IF lock = s THEN Nobody ELSE lock

\* A process's next connection.
Connected(p, old) ==
    /\ session[p] < MaxSessions
    /\ session' = [session EXCEPT ![p] = @ + 1]
    /\ link' = [link EXCEPT ![<<p, session[p] + 1>>] = "up", ![Session(p)] = old]

-----------------------------------------------------------------------------
LockInit ==
    /\ at = [t \in Threads |-> "out"]
    /\ waits = [t \in Threads |-> TRUE]
    /\ owner = [p \in Processes |-> Nobody]
    /\ level = [p \in Processes |-> 0]
    /\ session = [p \in Processes |-> 1]
    /\ link = [s \in Sessions |-> IF s[2] = 1 THEN "up" ELSE "unused"]
    /\ holder = Nobody
    /\ leader = Nobody
    /\ leads = [p \in Processes |-> Nobody]
    /\ ticking = [p \in Processes |-> FALSE]
    /\ writes = <<>>
    /\ seen = [t \in Threads |-> Nobody]

\* acquire, from outside: the thread lock. (One that does not wait and finds it
\* taken goes on without the lock: nothing changes.)
Acquire(t, blocking) ==
    LET p == Home[t]
    IN  /\ at[t] = "out"
        /\ owner[p] = Nobody
        /\ owner' = [owner EXCEPT ![p] = t]
        /\ at' = [at EXCEPT ![t] = "taking"]
        /\ waits' = [waits EXCEPT ![t] = blocking]
        /\ UNCHANGED <<level, session, link, holder, leader, leads, ticking, writes, seen>>

Leaves(t) ==
    /\ owner' = [owner EXCEPT ![Home[t]] = Nobody]
    /\ at' = [at EXCEPT ![t] = "out"]
    /\ seen' = [seen EXCEPT ![t] = Nobody]
    /\ UNCHANGED waits

\* _take: the database's lock. A session that has it is given it again.
Take(t) ==
    LET p == Home[t]
    IN  /\ at[t] = "taking" /\ Up(p)
        /\ holder \in {Nobody, Session(p)}
        /\ holder' = Session(p)
        /\ level' = [level EXCEPT ![p] = 1]
        /\ at' = [at EXCEPT ![t] = "in"]
        /\ UNCHANGED <<waits, owner, session, link, leader, leads, ticking, writes, seen>>

\* ... not to be had without waiting: the thread lock goes back.
GiveUp(t) ==
    LET p == Home[t]
    IN  /\ at[t] = "taking" /\ Up(p) /\ ~waits[t]
        /\ holder \notin {Nobody, Session(p)}
        /\ Leaves(t)
        /\ UNCHANGED <<level, session, link, holder, leader, leads, ticking, writes>>

\* hold, on a connection that was lost: it is made again, and the lock asked for
\* on the new one ...
Reconnect(t) ==
    LET p == Home[t]
    IN  /\ at[t] = "taking" /\ ~Up(p)
        /\ Connected(p, link[Session(p)])
        /\ UNCHANGED <<at, waits, owner, level, holder, leader, leads, ticking, writes, seen>>

\* ... or the database cannot be reached: acquire raises, without the thread lock.
Unreachable(t) ==
    LET p == Home[t]
    IN  /\ at[t] = "taking" /\ ~Up(p)
        /\ Leaves(t)
        /\ UNCHANGED <<level, session, link, holder, leader, leads, ticking, writes>>

\* The request was on its way when the connection was cut: the database gives
\* the lock to a connection nobody is at the other end of.
GivenToNobody(t) ==
    LET p == Home[t]
    IN  /\ at[t] = "taking" /\ link[Session(p)] = "cut"
        /\ holder = Nobody
        /\ holder' = Session(p)
        /\ UNCHANGED <<at, waits, owner, level, session, link, leader, leads, ticking, writes, seen>>

\* `with lock` within the section, and out of it again.
Nest(t) ==
    LET p == Home[t]
    IN  /\ at[t] = "in" /\ level[p] < MaxDepth
        /\ level' = [level EXCEPT ![p] = @ + 1]
        /\ UNCHANGED <<at, waits, owner, session, link, holder, leader, leads, ticking, writes, seen>>

Unnest(t) ==
    LET p == Home[t]
    IN  /\ at[t] = "in" /\ level[p] > 1
        /\ level' = [level EXCEPT ![p] = @ - 1]
        /\ UNCHANGED <<at, waits, owner, session, link, holder, leader, leads, ticking, writes, seen>>

\* A slip: the database's lock stays with the process.
Release_Keeps(t) ==
    LET p == Home[t]
    IN  /\ at[t] = "in" /\ level[p] = 1
        /\ level' = [level EXCEPT ![p] = 0]
        /\ Leaves(t)
        /\ UNCHANGED <<session, link, holder, leader, leads, ticking, writes>>

\* The outermost release, at the section's end or as an exception leaves it: the
\* database's lock (a lost connection holds nothing to give back), then the
\* thread lock.
Release(t) ==
    LET p == Home[t]
    IN  /\ at[t] = "in" /\ level[p] = 1
        /\ level' = [level EXCEPT ![p] = 0]
        /\ holder' = IF Up(p) THEN Freed(holder, Session(p)) ELSE holder
        /\ Leaves(t)
        /\ UNCHANGED <<session, link, leader, leads, ticking, writes>>

-----------------------------------------------------------------------------
(* What the section does.                                                    *)

Read(t) ==
    /\ at[t] = "in" /\ Up(Home[t])
    /\ seen' = [seen EXCEPT ![t] = Len(writes)]
    /\ UNCHANGED <<at, waits, owner, level, session, link, holder, leader, leads, ticking, writes>>

\* A slip: a statement on a lost connection makes a new one and goes on.
Write_Reconnects(t) ==
    LET p == Home[t]
    IN  /\ at[t] = "in" /\ seen[t] # Nobody
        /\ Len(writes) < MaxWrites
        /\ IF Up(p) THEN UNCHANGED <<session, link>> ELSE Connected(p, link[Session(p)])
        /\ writes' = Append(writes, seen[t])
        /\ seen' = [seen EXCEPT ![t] = Len(writes) + 1]
        /\ UNCHANGED <<at, waits, owner, level, holder, leader, leads, ticking>>

\* A write made from what was read. On a lost connection the statement fails,
\* and the section ends (Release).
Write(t) ==
    /\ at[t] = "in" /\ Up(Home[t])
    /\ seen[t] # Nobody
    /\ Len(writes) < MaxWrites
    /\ writes' = Append(writes, seen[t])
    /\ seen' = [seen EXCEPT ![t] = Len(writes) + 1]
    /\ UNCHANGED <<at, waits, owner, level, session, link, holder, leader, leads, ticking>>

-----------------------------------------------------------------------------
(* The clock's role (lead): asked for under the lock, kept without it.       *)

\* A slip: given once, whatever became of the connection.
Leads_Once(p) == leads[p] # Nobody

\* What `lead` answers without asking again: on PostgreSQL, given on this very
\* connection.
Leads(p) == leads[p] = Session(p)

\* lead("clock") answers yes, and a round of the clock starts: from memory, with
\* no statement that would show a connection lost since the lock was taken, or as
\* the database gives the role.
Lead(t) ==
    LET p == Home[t]
    IN  /\ at[t] = "in" /\ ~ticking[p]
        /\ \/ Leads(p) /\ UNCHANGED <<leader, leads>>
           \/ /\ ~Leads(p) /\ Up(p) /\ leader \in {Nobody, Session(p)}
              /\ leader' = Session(p)
              /\ leads' = [leads EXCEPT ![p] = Session(p)]
        /\ ticking' = [ticking EXCEPT ![p] = TRUE]
        /\ UNCHANGED <<at, waits, owner, level, session, link, holder, writes, seen>>

TickEnds(p) ==
    /\ ticking[p]
    /\ ticking' = [ticking EXCEPT ![p] = FALSE]
    /\ UNCHANGED <<at, waits, owner, level, session, link, holder, leader, leads, writes, seen>>

-----------------------------------------------------------------------------
(* What goes wrong.                                                          *)

\* A connection is lost on the way: the database still has it.
Cut(p) ==
    /\ Postgres /\ Up(p)
    /\ link' = [link EXCEPT ![Session(p)] = "cut"]
    /\ UNCHANGED <<at, waits, owner, level, session, holder, leader, leads, ticking, writes, seen>>

\* The database closes one (it restarts or sleeps, or notices one that was cut).
Close(s) ==
    /\ Postgres /\ link[s] \in {"up", "cut"}
    /\ link' = [link EXCEPT ![s] = "gone"]
    /\ holder' = Freed(holder, s)
    /\ leader' = Freed(leader, s)
    /\ UNCHANGED <<at, waits, owner, level, session, leads, ticking, writes, seen>>

\* A server process stops and is started again. Its files are closed with it;
\* a database elsewhere notices in its own time.
Restart(p) ==
    LET s == Session(p)
    IN  /\ Connected(p, IF Postgres /\ Up(p) THEN "cut" ELSE IF Postgres THEN link[s] ELSE "gone")
        /\ at' = [t \in Threads |-> IF Home[t] = p THEN "out" ELSE at[t]]
        /\ seen' = [t \in Threads |-> IF Home[t] = p THEN Nobody ELSE seen[t]]
        /\ owner' = [owner EXCEPT ![p] = Nobody]
        /\ level' = [level EXCEPT ![p] = 0]
        /\ leads' = [leads EXCEPT ![p] = Nobody]
        /\ ticking' = [ticking EXCEPT ![p] = FALSE]
        /\ holder' = IF Postgres THEN holder ELSE Freed(holder, s)
        /\ leader' = IF Postgres THEN leader ELSE Freed(leader, s)
        /\ UNCHANGED <<waits, writes>>

-----------------------------------------------------------------------------
LockStep(t) ==
    \/ \E b \in BOOLEAN : Acquire(t, b)
    \/ Take(t) \/ GiveUp(t) \/ Reconnect(t) \/ Unreachable(t) \/ GivenToNobody(t)
    \/ Nest(t) \/ Unnest(t) \/ Release(t)
    \/ Read(t) \/ Write(t) \/ Lead(t)

LockNext ==
    \/ \E t \in Threads : LockStep(t)
    \/ \E p \in Processes : TickEnds(p) \/ Cut(p) \/ Restart(p)
    \/ \E s \in Sessions : Close(s)

LockSpec == LockInit /\ [][LockNext]_lockVars

\* A section ends, PostgreSQL queues those who wait for its lock, and it notices
\* in the end that nobody is there.
LockFairness ==
    /\ \A t \in Threads : /\ SF_lockVars(Take(t)) /\ SF_lockVars(Release(t))
                          /\ WF_lockVars(GiveUp(t)) /\ WF_lockVars(Unnest(t))
                          /\ WF_lockVars(Reconnect(t) \/ Unreachable(t))
    /\ \A s \in Sessions : WF_lockVars(link[s] = "cut" /\ Close(s))

FairLockSpec == LockSpec /\ LockFairness

-----------------------------------------------------------------------------
\* Type correctness.
LockTypeOK ==
    /\ at \in [Threads -> {"out", "taking", "in"}]
    /\ waits \in [Threads -> BOOLEAN]
    /\ owner \in [Processes -> Threads \cup {Nobody}]
    /\ level \in [Processes -> 0..MaxDepth]
    /\ session \in [Processes -> 1..MaxSessions]
    /\ link \in [Sessions -> {"unused", "up", "cut", "gone"}]
    /\ holder \in Sessions \cup {Nobody}
    /\ leader \in Sessions \cup {Nobody}
    /\ leads \in [Processes -> Sessions \cup {Nobody}]
    /\ ticking \in [Processes -> BOOLEAN]
    /\ writes \in Seq(Nat)
    /\ seen \in [Threads -> Nat \cup {Nobody}]

\* No write is lost: every write was made from what the write before it left,
\* whichever threads and processes made the two and whatever became of their
\* connections.
NoLostWrite == \A n \in 1..Len(writes) : writes[n] = n - 1

\* No way out of acquire or out of the section leaves a process's thread lock,
\* or its count, behind.
Balanced ==
    \A p \in Processes :
        /\ \A t \in Threads : Home[t] = p => (owner[p] = t <=> at[t] # "out")
        /\ level[p] > 0 <=> \E t \in Threads : Home[t] = p /\ at[t] = "in"

\* While its connection is up, a process has the database's lock exactly while a
\* thread of it is in the section, however deep; and no closed connection has it.
HeldInSection ==
    /\ \A p \in Processes : Up(p) => (holder = Session(p) <=> level[p] > 0)
    /\ \A s \in Sessions : holder = s => link[s] \in {"up", "cut"}

\* As a round of the clock starts on a connection the database has still, that
\* connection has the clock's lock, and a round under way in another process is one
\* whose connection the database has closed: rounds of two processes overlap only
\* where the database has closed the connection of one of them.
ClockLed ==
    [][\A p \in Processes :
          ~ticking[p] /\ ticking'[p] /\ Session(p) \in KeptSessions =>
              /\ leader' = Session(p)
              /\ \A q \in Processes \ {p} : ticking[q] => leads[q] \notin KeptSessions]_lockVars

\* One process at a time runs the server's clock: so on a SQLite file; on
\* PostgreSQL a closed connection lets in another (ClockLed).
OneClock == \A p, q \in Processes : ticking[p] /\ ticking[q] => p = q

\* A thread that has its process's lock does not wait for the database's for ever.
GetsIn == \A t \in Threads : at[t] = "taking" ~> at[t] # "taking"
=============================================================================
