------------------------------ MODULE StoreProofs ------------------------------
(* Theorems about the store a company's revisions are kept in: its lock         *)
(* (StoreLock), for every number of server processes, threads, connections and  *)
(* writes, on PostgreSQL and on a file; and its revision table (RevisionChain), *)
(* for every length of the window, every older database and any number of saves.*)
EXTENDS StoreLock, RevisionChain, FiniteSetTheorems, WellFoundedInduction, TLAPS

-----------------------------------------------------------------------------
(* The lock. No write made under it is lost, and no thread lock is left behind. *)
(*                                                                            *)
(* Two threads can be in the section at once: one whose connection was lost     *)
(* does not know it yet. What makes the writes safe is that the section is left *)
(* before the connection is made again, so of all threads in the section only   *)
(* one has a connection that is up, and its process has the database's lock     *)
(* (HeldInSection, Balanced); whatever that thread read is still what the       *)
(* database has (SeenInv).                                                    *)

\* The connections a process has yet to make are unused.
SessionInv ==
    \A p \in Processes, n \in 1..MaxSessions :
        n > session[p] => link[<<p, n>>] = "unused"

\* A thread reads in the section only, and what one with a connection read has
\* not been written over.
SeenInv ==
    \A t \in Threads :
        /\ at[t] # "in" => seen[t] = Nobody
        /\ at[t] = "in" /\ Up(Home[t]) /\ seen[t] # Nobody => seen[t] = Len(writes)

LockInv == LockTypeOK /\ Balanced /\ HeldInSection /\ SessionInv /\ SeenInv /\ NoLostWrite

USE DEF Session, Up, Freed

LEMMA SessionFacts ==
    /\ Nobody \notin Sessions
    /\ \A p \in Processes, n \in 1..MaxSessions : <<p, n>> \in Sessions /\ <<p, n>> # Nobody
    /\ \A s \in Sessions : s[1] \in Processes /\ s[2] \in 1..MaxSessions /\ s = <<s[1], s[2]>>
BY NobodyAssumption DEF Sessions

-----------------------------------------------------------------------------
LEMMA InitInv == LockInit => LockInv
<1> SUFFICES ASSUME LockInit
             PROVE  LockInv
  OBVIOUS
<1>1. LockTypeOK
  BY BoundsAssumption, HomeAssumption DEF LockInit, LockTypeOK, Sessions
<1>2. Balanced
  <2>1. ASSUME NEW q \in Processes
        PROVE  /\ level[q] = 0 /\ owner[q] = Nobody
               /\ \A t \in Threads : at[t] = "out"
    BY DEF LockInit
  <2> QED
    BY <2>1, NobodyAssumption DEF Balanced
<1>3. HeldInSection
  <2>1. ASSUME NEW q \in Processes
        PROVE  level[q] = 0 /\ holder # Session(q)
    <3>1. level[q] = 0 /\ session[q] = 1 /\ holder = Nobody /\ 1 \in 1..MaxSessions
      BY BoundsAssumption DEF LockInit
    <3> QED
      BY <3>1, SessionFacts
  <2>2. holder = Nobody
    BY DEF LockInit
  <2> QED
    BY <2>1, <2>2, SessionFacts DEF HeldInSection
<1>4. SessionInv
  <2>1. ASSUME NEW q \in Processes, NEW n \in 1..MaxSessions, n > session[q]
        PROVE  link[<<q, n>>] = "unused"
    <3>1. n # 1 /\ <<q, n>> \in Sessions /\ <<q, n>>[2] = n
      BY <2>1, SessionFacts DEF LockInit
    <3> QED
      BY <3>1 DEF LockInit
  <2> QED
    BY <2>1 DEF SessionInv
<1>5. SeenInv /\ NoLostWrite
  BY DEF LockInit, SeenInv, NoLostWrite
<1> QED
  BY <1>1, <1>2, <1>3, <1>4, <1>5 DEF LockInv

\* Of all threads in the section one at most has a connection that is up.
LEMMA Alone ==
    ASSUME LockInv, NEW t \in Threads, NEW u \in Threads,
           at[t] = "in", at[u] = "in", Up(Home[t]), Up(Home[u])
    PROVE  t = u
<1>1. Home[t] \in Processes /\ Home[u] \in Processes
  BY HomeAssumption
<1>2. level[Home[t]] > 0 /\ level[Home[u]] > 0
  BY <1>1 DEF LockInv, Balanced
<1>3. holder = Session(Home[t]) /\ holder = Session(Home[u])
  BY <1>1, <1>2 DEF LockInv, HeldInSection
<1>4. Home[t] = Home[u]
  BY <1>3
<1> QED
  BY <1>1, <1>4 DEF LockInv, Balanced
\* A connection made again: the process's next one is up, its last as given, and
\* the others as they were.
LEMMA Again ==
    ASSUME LockTypeOK, NEW p \in Processes, NEW old \in {"unused", "up", "cut", "gone"}, Connected(p, old)
    PROVE  /\ session' \in [Processes -> 1..MaxSessions]
           /\ link' \in [Sessions -> {"unused", "up", "cut", "gone"}]
           /\ session'[p] = session[p] + 1
           /\ \A q \in Processes : q # p => session'[q] = session[q]
           /\ link'[<<p, session[p] + 1>>] = "up"
           /\ link'[<<p, session[p]>>] = old
           /\ \A s \in Sessions : s # <<p, session[p] + 1>> /\ s # <<p, session[p]>> => link'[s] = link[s]
<1>1. session[p] \in 1..MaxSessions /\ session[p] + 1 \in 1..MaxSessions
  BY BoundsAssumption DEF LockTypeOK, Connected
<1>2. session' = [session EXCEPT ![p] = @ + 1]
  BY DEF Connected
<1>3. session' \in [Processes -> 1..MaxSessions] /\ session'[p] = session[p] + 1
      /\ \A q \in Processes : q # p => session'[q] = session[q]
  BY <1>1, <1>2 DEF LockTypeOK
<1>4. PICK n, m : n = <<p, session[p] + 1>> /\ m = <<p, session[p]>>
  OBVIOUS
<1>5. n \in Sessions /\ m \in Sessions /\ n # m
  BY <1>1, <1>4, SessionFacts
<1>6. link' = [link EXCEPT ![n] = "up", ![m] = old]
  BY <1>4 DEF Connected
<1>7. /\ link' \in [Sessions -> {"unused", "up", "cut", "gone"}]
      /\ link'[n] = "up" /\ link'[m] = old
      /\ \A s \in Sessions : s # n /\ s # m => link'[s] = link[s]
  BY <1>5, <1>6 DEF LockTypeOK
<1> QED
  BY <1>3, <1>4, <1>7
-----------------------------------------------------------------------------
LEMMA TypeStep == LockTypeOK /\ [LockNext]_lockVars => LockTypeOK'
<1> SUFFICES ASSUME LockTypeOK, [LockNext]_lockVars
             PROVE  LockTypeOK'
  OBVIOUS
<1> USE HomeAssumption, BoundsAssumption DEF LockTypeOK
<1>0. \A p \in Processes : Session(p) \in Sessions
  BY SessionFacts
<1>1. ASSUME NEW t \in Threads, NEW b \in BOOLEAN, Acquire(t, b)  PROVE LockTypeOK'
  BY <1>1 DEF Acquire
<1>2. ASSUME NEW t \in Threads, Take(t)  PROVE LockTypeOK'
  BY <1>0, <1>2 DEF Take
<1>3. ASSUME NEW t \in Threads, GiveUp(t) \/ Unreachable(t)  PROVE LockTypeOK'
  BY <1>3 DEF GiveUp, Unreachable, Leaves
<1>4. ASSUME NEW t \in Threads, Reconnect(t)  PROVE LockTypeOK'
  <2>1. PICK p \in Processes : p = Home[t]
    OBVIOUS
  <2>2. link[Session(p)] \in {"unused", "up", "cut", "gone"}
    BY <1>0
  <2>3. Connected(p, link[Session(p)])
    BY <1>4, <2>1 DEF Reconnect
  <2>4. /\ session' \in [Processes -> 1..MaxSessions]
        /\ link' \in [Sessions -> {"unused", "up", "cut", "gone"}]
    BY <2>2, <2>3, Again
  <2> QED
    BY <1>4, <2>4 DEF Reconnect
<1>5. ASSUME NEW t \in Threads, GivenToNobody(t)  PROVE LockTypeOK'
  BY <1>0, <1>5 DEF GivenToNobody
<1>6. ASSUME NEW t \in Threads, Nest(t) \/ Unnest(t)  PROVE LockTypeOK'
  <2>1. PICK p \in Processes : p = Home[t]
    OBVIOUS
  <2>2. level[p] \in 0..MaxDepth /\ MaxDepth \in Nat
    OBVIOUS
  <2>3. \/ level[p] < MaxDepth /\ level' = [level EXCEPT ![p] = @ + 1]
        \/ level[p] > 1 /\ level' = [level EXCEPT ![p] = @ - 1]
    BY <1>6, <2>1 DEF Nest, Unnest
  <2>4. level' \in [Processes -> 0..MaxDepth]
    <3>1. PICK n \in 0..MaxDepth : level' = [level EXCEPT ![p] = n]
      BY <2>2, <2>3
    <3> QED
      BY <3>1
  <2> QED
    BY <1>6, <2>4 DEF Nest, Unnest
<1>7. ASSUME NEW t \in Threads, Release(t)  PROVE LockTypeOK'
  BY <1>7 DEF Release, Leaves
<1>8. ASSUME NEW t \in Threads, Read(t) \/ Write(t)  PROVE LockTypeOK'
  <2>1. Len(writes) \in Nat
    OBVIOUS
  <2>2. CASE Read(t)
    BY <2>1, <2>2 DEF Read
  <2>3. CASE Write(t)
    <3>1. seen[t] \in Nat
      BY <2>3 DEF Write
    <3>2. writes' \in Seq(Nat)
      BY <2>3, <3>1 DEF Write
    <3>3. seen' \in [Threads -> Nat \cup {Nobody}]
      BY <2>1, <2>3 DEF Write
    <3> QED
      BY <2>3, <3>2, <3>3 DEF Write
  <2> QED
    BY <1>8, <2>2, <2>3
<1>9. ASSUME NEW t \in Threads, Lead(t)  PROVE LockTypeOK'
  <2>1. PICK p \in Processes, s \in Sessions : p = Home[t] /\ s = Session(p)
    BY <1>0
  <2>2. ticking' \in [Processes -> BOOLEAN]
    BY <1>9, <2>1 DEF Lead
  <2>3. leader' \in Sessions \cup {Nobody} /\ leads' \in [Processes -> Sessions \cup {Nobody}]
    <3>1. \/ leader' = leader /\ leads' = leads
          \/ leader' = s /\ leads' = [leads EXCEPT ![p] = s]
      BY <1>9, <2>1 DEF Lead
    <3> QED
      BY <3>1
  <2> QED
    BY <1>9, <2>2, <2>3 DEF Lead
<1>10. ASSUME NEW p \in Processes, TickEnds(p) \/ Cut(p)  PROVE LockTypeOK'
  BY <1>10 DEF TickEnds, Cut
<1>11. ASSUME NEW p \in Processes, Restart(p)  PROVE LockTypeOK'
  <2>1. PICK old \in {"unused", "up", "cut", "gone"} : Connected(p, old)
    <3>1. link[Session(p)] \in {"unused", "up", "cut", "gone"}
      BY <1>0
    <3> DEFINE old == IF Postgres /\ Up(p) THEN "cut" ELSE IF Postgres THEN link[Session(p)] ELSE "gone"
    <3>2. old \in {"unused", "up", "cut", "gone"} /\ Connected(p, old)
      BY <1>11, <3>1 DEF Restart
    <3> HIDE DEF old
    <3> QED
      BY <3>2
  <2>2. /\ session' \in [Processes -> 1..MaxSessions]
        /\ link' \in [Sessions -> {"unused", "up", "cut", "gone"}]
    BY <2>1, Again
  <2>3. at' \in [Threads -> {"out", "taking", "in"}] /\ seen' \in [Threads -> Nat \cup {Nobody}]
    BY <1>11 DEF Restart
  <2>4. holder' \in Sessions \cup {Nobody} /\ leader' \in Sessions \cup {Nobody}
    BY <1>11 DEF Restart
  <2>5. /\ owner' \in [Processes -> Threads \cup {Nobody}] /\ level' \in [Processes -> 0..MaxDepth]
        /\ leads' \in [Processes -> Sessions \cup {Nobody}] /\ ticking' \in [Processes -> BOOLEAN]
        /\ waits' = waits /\ writes' = writes
    BY <1>11 DEF Restart
  <2> QED
    BY <2>2, <2>3, <2>4, <2>5
<1>12. ASSUME NEW s \in Sessions, Close(s)  PROVE LockTypeOK'
  BY <1>12 DEF Close
<1>13. CASE UNCHANGED lockVars
  BY <1>13 DEF lockVars
<1> QED
  BY <1>1, <1>2, <1>3, <1>4, <1>5, <1>6, <1>7, <1>8, <1>9, <1>10, <1>11, <1>12, <1>13
     DEF LockNext, LockStep
-----------------------------------------------------------------------------
\* The thread locks and their counts.
LEMMA BalancedStep == LockTypeOK /\ Balanced /\ [LockNext]_lockVars => Balanced'
<1> SUFFICES ASSUME LockTypeOK, Balanced, [LockNext]_lockVars
             PROVE  Balanced'
  OBVIOUS
<1>a. Home \in [Threads -> Processes] /\ Nobody \notin Threads /\ MaxDepth \in Nat
  BY HomeAssumption, NobodyAssumption, BoundsAssumption
\* The thread that has a process's lock moves, or leaves.
<1>b. ASSUME NEW t \in Threads, owner' = owner, level' \in [Processes -> 0..MaxDepth],
             \A q \in Processes : q # Home[t] => level'[q] = level[q],
             at' = [at EXCEPT ![t] = "in"], at[t] # "out", level'[Home[t]] > 0
      PROVE  Balanced'
  BY <1>a, <1>b DEF LockTypeOK, Balanced
<1>c. ASSUME NEW t \in Threads, at[t] # "out", Leaves(t), level' = [level EXCEPT ![Home[t]] = 0]
      PROVE  Balanced'
  BY <1>a, <1>c DEF LockTypeOK, Balanced, Leaves
<1>d. ASSUME at' = at, owner' = owner, level' = level
      PROVE  Balanced'
  BY <1>d DEF Balanced
<1>1. ASSUME NEW t \in Threads, NEW b \in BOOLEAN, Acquire(t, b)  PROVE Balanced'
  BY <1>a, <1>1 DEF Acquire, LockTypeOK, Balanced
<1>2. ASSUME NEW t \in Threads, Take(t)  PROVE Balanced'
  <2>1. at[t] = "taking" /\ at' = [at EXCEPT ![t] = "in"] /\ owner' = owner
        /\ level' = [level EXCEPT ![Home[t]] = 1]
    BY <1>2 DEF Take
  <2>2. level' \in [Processes -> 0..MaxDepth] /\ level'[Home[t]] > 0
        /\ \A q \in Processes : q # Home[t] => level'[q] = level[q]
    BY <1>a, <2>1, BoundsAssumption DEF LockTypeOK
  <2> QED
    BY <1>b, <2>1, <2>2
<1>3. ASSUME NEW t \in Threads, GiveUp(t) \/ Unreachable(t)  PROVE Balanced'
  <2>1. at[t] = "taking" /\ Leaves(t) /\ level' = level
    BY <1>3 DEF GiveUp, Unreachable
  <2>2. \A u \in Threads : Home[u] = Home[t] => at[u] # "in"
    BY <1>a, <2>1 DEF Balanced
  <2>3. level[Home[t]] = 0
    BY <1>a, <2>2 DEF LockTypeOK, Balanced
  <2>4. level' = [level EXCEPT ![Home[t]] = 0]
    BY <1>a, <2>1, <2>3 DEF LockTypeOK
  <2> QED
    BY <1>c, <2>1, <2>4
<1>4. ASSUME NEW t \in Threads, Reconnect(t) \/ GivenToNobody(t) \/ Read(t) \/ Write(t) \/ Lead(t)
      PROVE Balanced'
  BY <1>d, <1>4 DEF Reconnect, GivenToNobody, Read, Write, Lead
<1>5. ASSUME NEW t \in Threads, Nest(t) \/ Unnest(t)  PROVE Balanced'
  <2>1. at[t] = "in" /\ at' = at /\ owner' = owner
        /\ \/ level[Home[t]] < MaxDepth /\ level' = [level EXCEPT ![Home[t]] = @ + 1]
           \/ level[Home[t]] > 1 /\ level' = [level EXCEPT ![Home[t]] = @ - 1]
    BY <1>5 DEF Nest, Unnest
  <2>2. level' \in [Processes -> 0..MaxDepth] /\ level'[Home[t]] > 0
        /\ \A q \in Processes : q # Home[t] => level'[q] = level[q]
    <3>1. PICK p \in Processes : p = Home[t]
      BY <1>a
    <3>2. level[p] \in 0..MaxDepth /\ level \in [Processes -> 0..MaxDepth]
      BY DEF LockTypeOK
    <3>3. level[p] > 0
      BY <2>1, <3>1 DEF Balanced
    <3> QED
      BY <1>a, <2>1, <3>1, <3>2, <3>3
  <2>3. at' = [at EXCEPT ![t] = "in"]
    BY <2>1 DEF LockTypeOK
  <2> QED
    BY <1>b, <2>1, <2>2, <2>3
<1>6. ASSUME NEW t \in Threads, Release(t)  PROVE Balanced'
  BY <1>c, <1>6 DEF Release
<1>7. ASSUME NEW p \in Processes, Restart(p)  PROVE Balanced'
  <2>1. /\ at' = [t \in Threads |-> IF Home[t] = p THEN "out" ELSE at[t]]
        /\ owner' = [owner EXCEPT ![p] = Nobody]
        /\ level' = [level EXCEPT ![p] = 0]
    BY <1>7 DEF Restart
  <2> QED
    BY <1>a, <2>1 DEF LockTypeOK, Balanced
<1>8. ASSUME NEW p \in Processes, TickEnds(p) \/ Cut(p)  PROVE Balanced'
  BY <1>d, <1>8 DEF TickEnds, Cut
<1>9. ASSUME NEW s \in Sessions, Close(s)  PROVE Balanced'
  BY <1>d, <1>9 DEF Close
<1>10. CASE UNCHANGED lockVars
  BY <1>d, <1>10 DEF lockVars
<1> QED
  BY <1>1, <1>2, <1>3, <1>4, <1>5, <1>6, <1>7, <1>8, <1>9, <1>10 DEF LockNext, LockStep

\* The connections to come.
LEMMA SessionStep == LockTypeOK /\ SessionInv /\ [LockNext]_lockVars => SessionInv'
<1> SUFFICES ASSUME LockTypeOK, SessionInv, [LockNext]_lockVars
             PROVE  SessionInv'
  OBVIOUS
<1>0. /\ \A p \in Processes : /\ session[p] \in 1..MaxSessions /\ Session(p) \in Sessions
                              /\ link[Session(p)] \in {"unused", "up", "cut", "gone"}
      /\ \A t \in Threads : Home[t] \in Processes
      /\ link \in [Sessions -> {"unused", "up", "cut", "gone"}]
  BY HomeAssumption, SessionFacts DEF LockTypeOK
<1>1. ASSUME NEW p \in Processes, NEW old \in {"unused", "up", "cut", "gone"}, Connected(p, old)
      PROVE  SessionInv'
  <2>1. /\ session'[p] = session[p] + 1
        /\ \A q \in Processes : q # p => session'[q] = session[q]
        /\ \A s \in Sessions : s # <<p, session[p] + 1>> /\ s # <<p, session[p]>> => link'[s] = link[s]
    BY <1>1, Again
  <2>2. ASSUME NEW q \in Processes, NEW n \in 1..MaxSessions, n > session'[q]
        PROVE  link'[<<q, n>>] = "unused"
    <3>1. n > session[q] /\ (q = p => n > session[p] + 1)
      <4>1. session[q] \in Int /\ session[p] \in Int /\ n \in Int
        <5>1. session[q] \in 1..MaxSessions /\ session[p] \in 1..MaxSessions
          BY <1>0
        <5> QED
          BY <5>1, BoundsAssumption
      <4>2. session'[q] = IF q = p THEN session[p] + 1 ELSE session[q]
        BY <2>1
      <4>3. n > IF q = p THEN session[p] + 1 ELSE session[q]
        BY <2>2, <4>2
      <4> QED
        BY <4>1, <4>3
    <3>2. <<q, n>> \in Sessions /\ <<q, n>> # <<p, session[p] + 1>> /\ <<q, n>> # <<p, session[p]>>
      BY <1>0, <3>1, SessionFacts
    <3> QED
      BY <2>1, <3>1, <3>2 DEF SessionInv
  <2> QED
    BY <2>2 DEF SessionInv
<1>2. ASSUME session' = session, link' = link
      PROVE  SessionInv'
  BY <1>2 DEF SessionInv
<1>3. ASSUME NEW s \in Sessions, link[s] # "unused", session' = session,
             NEW new, link' = [link EXCEPT ![s] = new]
      PROVE  SessionInv'
  BY <1>0, <1>3, SessionFacts DEF SessionInv
<1>4. ASSUME NEW t \in Threads, Reconnect(t)  PROVE SessionInv'
  BY <1>0, <1>1, <1>4 DEF Reconnect
<1>5. ASSUME NEW t \in Threads,
             \/ \E b \in BOOLEAN : Acquire(t, b)
             \/ Take(t) \/ GiveUp(t) \/ Unreachable(t) \/ GivenToNobody(t)
             \/ Nest(t) \/ Unnest(t) \/ Release(t) \/ Read(t) \/ Write(t) \/ Lead(t)
      PROVE SessionInv'
  BY <1>2, <1>5 DEF Acquire, Take, GiveUp, Unreachable, GivenToNobody, Nest, Unnest, Release,
                    Read, Write, Lead
<1>6. ASSUME NEW p \in Processes, TickEnds(p)  PROVE SessionInv'
  BY <1>2, <1>6 DEF TickEnds
<1>7. ASSUME NEW p \in Processes, Cut(p)  PROVE SessionInv'
  BY <1>0, <1>3, <1>7 DEF Cut
<1>8. ASSUME NEW p \in Processes, Restart(p)  PROVE SessionInv'
  <2> DEFINE old == IF Postgres /\ Up(p) THEN "cut" ELSE IF Postgres THEN link[Session(p)] ELSE "gone"
  <2>1. old \in {"unused", "up", "cut", "gone"} /\ Connected(p, old)
    BY <1>0, <1>8 DEF Restart
  <2> HIDE DEF old
  <2> QED
    BY <1>1, <2>1
<1>9. ASSUME NEW s \in Sessions, Close(s)  PROVE SessionInv'
  BY <1>3, <1>9 DEF Close
<1>10. CASE UNCHANGED lockVars
  BY <1>2, <1>10 DEF lockVars
<1> QED
  BY <1>4, <1>5, <1>6, <1>7, <1>8, <1>9, <1>10 DEF LockNext, LockStep
-----------------------------------------------------------------------------
\* A thread that is taking the lock is alone with it in its process.
LEMMA Taking ==
    ASSUME LockTypeOK, Balanced, NEW t \in Threads, at[t] = "taking"
    PROVE  /\ Home[t] \in Processes
           /\ level[Home[t]] = 0
           /\ \A u \in Threads : Home[u] = Home[t] => u = t \/ at[u] = "out"
<1>1. Home[t] \in Processes
  BY HomeAssumption
<1>2. \A u \in Threads : Home[u] = Home[t] => u = t \/ at[u] = "out"
  BY <1>1 DEF Balanced
<1>3. level[Home[t]] = 0
  <2>1. ~(level[Home[t]] > 0)
    BY <1>1, <1>2 DEF Balanced
  <2>2. level[Home[t]] \in 0..MaxDepth
    BY <1>1 DEF LockTypeOK
  <2> QED
    BY <2>1, <2>2, BoundsAssumption
<1> QED
  BY <1>1, <1>2, <1>3

\* The database's lock.
LEMMA HeldStep ==
    LockTypeOK /\ Balanced /\ SessionInv /\ HeldInSection /\ [LockNext]_lockVars => HeldInSection'
<1> SUFFICES ASSUME LockTypeOK, Balanced, SessionInv, HeldInSection, [LockNext]_lockVars
             PROVE  HeldInSection'
  OBVIOUS
<1>0. /\ \A p \in Processes : /\ session[p] \in 1..MaxSessions /\ Session(p) \in Sessions
                              /\ Session(p) # Nobody
                              /\ link[Session(p)] \in {"unused", "up", "cut", "gone"}
      /\ \A t \in Threads : Home[t] \in Processes
      /\ link \in [Sessions -> {"unused", "up", "cut", "gone"}]
      /\ \A p, q \in Processes : p # q => Session(p) # Session(q)
  BY HomeAssumption, SessionFacts DEF LockTypeOK
<1>a. ASSUME holder' = holder, level' = level, session' = session, link' = link
      PROVE  HeldInSection'
  BY <1>a DEF HeldInSection
\* A process's connection made again, its lock left where it was or freed.
<1>b. ASSUME NEW p \in Processes, NEW old \in {"unused", "up", "cut", "gone"}, Connected(p, old),
             level'[p] = 0, \A q \in Processes : q # p => level'[q] = level[q],
             \/ holder' = holder /\ (holder = Session(p) => old = "cut")
             \/ holder' = Freed(holder, Session(p))
      PROVE  HeldInSection'
  <2>1. /\ session'[p] = session[p] + 1
        /\ \A q \in Processes : q # p => session'[q] = session[q]
        /\ link'[<<p, session[p] + 1>>] = "up"
        /\ link'[<<p, session[p]>>] = old
        /\ \A s \in Sessions : s # <<p, session[p] + 1>> /\ s # <<p, session[p]>> => link'[s] = link[s]
    BY <1>b, Again
  <2>2. <<p, session[p] + 1>> \in Sessions /\ <<p, session[p] + 1>> # <<p, session[p]>>
        /\ link[<<p, session[p] + 1>>] = "unused"
    <3>1. session[p] + 1 \in 1..MaxSessions /\ session[p] + 1 > session[p]
      BY <1>0, <1>b, BoundsAssumption DEF Connected
    <3> QED
      BY <3>1, SessionFacts DEF SessionInv
  <2>3. holder # <<p, session[p] + 1>> /\ holder' # <<p, session[p] + 1>>
    BY <1>b, <2>2, SessionFacts DEF HeldInSection
  <2>4. ASSUME NEW q \in Processes, link'[<<q, session'[q]>>] = "up"
        PROVE  holder' = <<q, session'[q]>> <=> level'[q] > 0
    <3>1. CASE q = p
      BY <1>b, <2>1, <2>3, <3>1
    <3>2. CASE q # p
      <4>1. Session(q) \in Sessions /\ Session(q) # <<p, session[p]>> /\ Session(q) # <<p, session[p] + 1>>
            /\ Session(q) # Nobody
        BY <1>0, <3>2
      <4>2. Up(q) /\ session'[q] = session[q]
        BY <2>1, <2>4, <3>2, <4>1
      <4>3. holder' = Session(q) <=> holder = Session(q)
        BY <1>b, <4>1
      <4> QED
        BY <1>b, <3>2, <4>2, <4>3 DEF HeldInSection
    <3> QED
      BY <3>1, <3>2
  <2>5. ASSUME NEW s \in Sessions, holder' = s
        PROVE  link'[s] \in {"up", "cut"}
    <3>1. holder = s
      BY <1>b, <2>5, SessionFacts
    <3>2. link[s] \in {"up", "cut"}
      BY <3>1 DEF HeldInSection
    <3>3. CASE s = <<p, session[p]>>
      <4>1. holder' = holder
        BY <2>5, <3>1
      <4>2. holder' # Freed(holder, Session(p))
        BY <1>0, <3>1, <3>3, <4>1
      <4> QED
        BY <1>b, <2>1, <3>1, <3>3, <4>2
    <3>4. CASE s # <<p, session[p]>>
      BY <2>1, <2>3, <3>1, <3>2, <3>4
    <3> QED
      BY <3>3, <3>4
  <2> QED
    BY <2>4, <2>5 DEF HeldInSection
<1>1. ASSUME NEW t \in Threads,
             \/ \E b \in BOOLEAN : Acquire(t, b)
             \/ GiveUp(t) \/ Unreachable(t) \/ Read(t) \/ Write(t) \/ Lead(t)
      PROVE HeldInSection'
  BY <1>a, <1>1 DEF Acquire, GiveUp, Unreachable, Read, Write, Lead
<1>2. ASSUME NEW t \in Threads, Take(t)  PROVE HeldInSection'
  <2>1. PICK p \in Processes : p = Home[t]
    BY <1>0
  <2>2. /\ Up(p) /\ holder \in {Nobody, Session(p)} /\ holder' = Session(p)
        /\ level' = [level EXCEPT ![p] = 1] /\ session' = session /\ link' = link
    BY <1>2, <2>1 DEF Take
  <2>3. ASSUME NEW q \in Processes, Up(q)
        PROVE  holder' = Session(q) <=> level'[q] > 0
    <3>1. CASE q = p
      BY <2>2, <3>1 DEF LockTypeOK
    <3>2. CASE q # p
      <4>1. Session(q) # Session(p) /\ Session(q) # Nobody
        BY <1>0, <3>2
      <4>2. holder # Session(q) /\ holder' # Session(q) /\ level'[q] = level[q]
        BY <2>2, <3>2, <4>1 DEF LockTypeOK
      <4> QED
        BY <2>3, <4>2 DEF HeldInSection
    <3> QED
      BY <3>1, <3>2
  <2> QED
    BY <2>2, <2>3 DEF HeldInSection
<1>3. ASSUME NEW t \in Threads, Reconnect(t)  PROVE HeldInSection'
  <2>1. at[t] = "taking" /\ ~Up(Home[t]) /\ Connected(Home[t], link[Session(Home[t])])
        /\ holder' = holder /\ level' = level
    BY <1>3 DEF Reconnect
  <2>2. level[Home[t]] = 0
    BY <2>1, Taking
  <2>3. holder = Session(Home[t]) => link[Session(Home[t])] = "cut"
    BY <1>0, <2>1 DEF HeldInSection
  <2> QED
    BY <1>0, <1>b, <2>1, <2>2, <2>3
<1>4. ASSUME NEW t \in Threads, GivenToNobody(t)  PROVE HeldInSection'
  <2>1. PICK p \in Processes : p = Home[t]
    BY <1>0
  <2>2. /\ link[Session(p)] = "cut" /\ holder = Nobody /\ holder' = Session(p)
        /\ level' = level /\ session' = session /\ link' = link
    BY <1>4, <2>1 DEF GivenToNobody
  <2>3. ASSUME NEW q \in Processes, Up(q)
        PROVE  holder' = Session(q) <=> level'[q] > 0
    <3>1. q # p
      BY <2>2, <2>3
    <3>2. Session(q) # Session(p) /\ Session(q) # Nobody
      BY <1>0, <3>1
    <3> QED
      BY <2>2, <2>3, <3>2 DEF HeldInSection
  <2> QED
    BY <2>2, <2>3 DEF HeldInSection
<1>5. ASSUME NEW t \in Threads, Nest(t) \/ Unnest(t)  PROVE HeldInSection'
  <2>1. PICK p \in Processes : p = Home[t]
    BY <1>0
  <2>2. /\ at[t] = "in" /\ holder' = holder /\ session' = session /\ link' = link
        /\ \/ level' = [level EXCEPT ![p] = @ + 1]
           \/ level[p] > 1 /\ level' = [level EXCEPT ![p] = @ - 1]
    BY <1>5, <2>1 DEF Nest, Unnest
  <2>3. level[p] \in 0..MaxDepth /\ level[p] > 0
    BY <2>1, <2>2 DEF LockTypeOK, Balanced
  <2>4. level'[p] > 0 /\ \A q \in Processes : q # p => level'[q] = level[q]
    BY <2>2, <2>3, BoundsAssumption DEF LockTypeOK
  <2> QED
    BY <2>2, <2>3, <2>4 DEF HeldInSection
<1>6. ASSUME NEW t \in Threads, Release(t)  PROVE HeldInSection'
  <2>1. PICK p \in Processes : p = Home[t]
    BY <1>0
  <2>2. /\ level' = [level EXCEPT ![p] = 0] /\ session' = session /\ link' = link
        /\ holder' = IF Up(p) THEN Freed(holder, Session(p)) ELSE holder
    BY <1>6, <2>1 DEF Release
  <2>3. ASSUME NEW q \in Processes, Up(q)
        PROVE  holder' = Session(q) <=> level'[q] > 0
    <3>1. CASE q = p
      <4>1. holder' = Freed(holder, Session(p)) /\ Session(p) # Nobody
        BY <1>0, <2>2, <2>3, <3>1
      <4>2. level'[p] = 0
        BY <2>2 DEF LockTypeOK
      <4> QED
        BY <3>1, <4>1, <4>2
    <3>2. CASE q # p
      <4>1. Session(q) # Session(p) /\ Session(q) # Nobody /\ level'[q] = level[q]
        BY <1>0, <2>2, <3>2 DEF LockTypeOK
      <4> QED
        BY <2>2, <2>3, <4>1 DEF HeldInSection
    <3> QED
      BY <3>1, <3>2
  <2>4. holder' \in {holder, Nobody}
    BY <2>2
  <2> QED
    BY <2>2, <2>3, <2>4, SessionFacts DEF HeldInSection
<1>7. ASSUME NEW p \in Processes, TickEnds(p)  PROVE HeldInSection'
  BY <1>a, <1>7 DEF TickEnds
\* A connection that goes down, its lock freed or not.
<1>c. ASSUME NEW s \in Sessions, NEW new \in {"cut", "gone"}, link' = [link EXCEPT ![s] = new],
             holder' = IF new = "cut" THEN holder ELSE Freed(holder, s),
             session' = session, level' = level
      PROVE  HeldInSection'
  <2>1. ASSUME NEW q \in Processes, link'[Session(q)] = "up"
        PROVE  holder' = Session(q) <=> level[q] > 0
    <3>1. Session(q) # s /\ Up(q) /\ Session(q) # Nobody
      BY <1>0, <1>c, <2>1
    <3> QED
      BY <1>c, <3>1 DEF HeldInSection
  <2>2. ASSUME NEW r \in Sessions, holder' = r
        PROVE  link'[r] \in {"up", "cut"}
    <3>1. holder = r /\ (r = s => new = "cut")
      BY <1>c, <2>2, SessionFacts
    <3> QED
      BY <1>0, <1>c, <3>1 DEF HeldInSection
  <2> QED
    BY <1>c, <2>1, <2>2 DEF HeldInSection
<1>8. ASSUME NEW p \in Processes, Cut(p)  PROVE HeldInSection'
  BY <1>0, <1>c, <1>8 DEF Cut
<1>9. ASSUME NEW s \in Sessions, Close(s)  PROVE HeldInSection'
  BY <1>c, <1>9 DEF Close
<1>10. ASSUME NEW p \in Processes, Restart(p)  PROVE HeldInSection'
  <2> DEFINE old == IF Postgres /\ Up(p) THEN "cut" ELSE IF Postgres THEN link[Session(p)] ELSE "gone"
  <2>1. old \in {"unused", "up", "cut", "gone"} /\ Connected(p, old)
    BY <1>0, <1>10 DEF Restart
  <2>2. level' = [level EXCEPT ![p] = 0]
        /\ holder' = IF Postgres THEN holder ELSE Freed(holder, Session(p))
    BY <1>10 DEF Restart
  <2>3. CASE Postgres
    <3>1. holder = Session(p) => old = "cut"
      BY <1>0, <2>3 DEF HeldInSection
    <3> HIDE DEF old
    <3>2. level'[p] = 0 /\ \A q \in Processes : q # p => level'[q] = level[q]
      BY <2>2 DEF LockTypeOK
    <3> QED
      BY <1>b, <2>1, <2>2, <2>3, <3>1, <3>2
  <2>4. CASE ~Postgres
    <3> HIDE DEF old
    <3>1. level'[p] = 0 /\ \A q \in Processes : q # p => level'[q] = level[q]
      BY <2>2 DEF LockTypeOK
    <3> QED
      BY <1>b, <2>1, <2>2, <2>4, <3>1
  <2> QED
    BY <2>3, <2>4
<1>11. CASE UNCHANGED lockVars
  BY <1>a, <1>11 DEF lockVars
<1> QED
  BY <1>1, <1>2, <1>3, <1>4, <1>5, <1>6, <1>7, <1>8, <1>9, <1>10, <1>11 DEF LockNext, LockStep
-----------------------------------------------------------------------------
\* What threads read, and the writes made from it.
LEMMA SeenStep ==
    LockInv /\ [LockNext]_lockVars => SeenInv' /\ NoLostWrite'
<1> SUFFICES ASSUME LockInv, [LockNext]_lockVars
             PROVE  SeenInv' /\ NoLostWrite'
  OBVIOUS
<1>0. /\ LockTypeOK /\ Balanced /\ SeenInv /\ NoLostWrite
      /\ \A t \in Threads : Home[t] \in Processes
      /\ Len(writes) \in Nat
  BY HomeAssumption DEF LockInv, LockTypeOK
\* Nobody reads or writes, and no connection of a process with a thread in the
\* section comes up.
<1>a. ASSUME writes' = writes,
             \A u \in Threads : \/ at'[u] # "in" /\ seen'[u] = Nobody
                                \/ at'[u] = "in" /\ at[u] = "in" /\ seen'[u] = seen[u]
                                   /\ (Up(Home[u])' => Up(Home[u]))
                                \/ at'[u] = "in" /\ seen'[u] = Nobody
      PROVE  SeenInv' /\ NoLostWrite'
  BY <1>0, <1>a DEF SeenInv, NoLostWrite
<1>1. ASSUME NEW t \in Threads,
             \/ \E b \in BOOLEAN : Acquire(t, b)
             \/ Take(t) \/ GivenToNobody(t) \/ Nest(t) \/ Unnest(t) \/ Lead(t)
      PROVE  SeenInv' /\ NoLostWrite'
  <2>1. /\ writes' = writes /\ seen' = seen /\ link' = link /\ session' = session
        /\ \/ at' = at
           \/ at[t] = "out" /\ at' = [at EXCEPT ![t] = "taking"]
           \/ at[t] = "taking" /\ at' = [at EXCEPT ![t] = "in"]
    BY <1>1 DEF Acquire, Take, GivenToNobody, Nest, Unnest, Lead
  <2> QED
    BY <1>0, <1>a, <2>1 DEF LockTypeOK, SeenInv
<1>2. ASSUME NEW t \in Threads, GiveUp(t) \/ Unreachable(t) \/ Release(t)
      PROVE  SeenInv' /\ NoLostWrite'
  <2>1. /\ writes' = writes /\ link' = link /\ session' = session
        /\ at' = [at EXCEPT ![t] = "out"] /\ seen' = [seen EXCEPT ![t] = Nobody]
    BY <1>2 DEF GiveUp, Unreachable, Release, Leaves
  <2> QED
    BY <1>0, <1>a, <2>1 DEF LockTypeOK, SeenInv
<1>3. ASSUME NEW t \in Threads, Reconnect(t)  PROVE SeenInv' /\ NoLostWrite'
  <2>1. PICK p \in Processes : p = Home[t]
    BY <1>0
  <2>2. /\ at[t] = "taking" /\ at' = at /\ seen' = seen /\ writes' = writes
        /\ Connected(p, link[Session(p)]) /\ link[Session(p)] \in {"unused", "up", "cut", "gone"}
    BY <1>0, <1>3, <2>1, SessionFacts DEF Reconnect, LockTypeOK
  <2>3. ASSUME NEW u \in Threads, at[u] = "in", Up(Home[u])'
        PROVE  Up(Home[u])
    <3>1. Home[u] # p
      BY <1>0, <2>1, <2>2, <2>3, Taking
    <3>2. session'[Home[u]] = session[Home[u]]
      BY <1>0, <2>2, <3>1, Again
    <3>3. Session(Home[u]) \in Sessions /\ Session(Home[u]) # <<p, session[p] + 1>>
          /\ Session(Home[u]) # <<p, session[p]>>
      BY <1>0, <3>1, SessionFacts DEF LockTypeOK
    <3>4. link'[Session(Home[u])] = link[Session(Home[u])]
      BY <1>0, <2>2, <3>3, Again
    <3> QED
      BY <2>3, <3>2, <3>4
  <2> QED
    BY <1>0, <1>a, <2>2, <2>3 DEF LockTypeOK, SeenInv
<1>4. ASSUME NEW t \in Threads, Read(t)  PROVE SeenInv' /\ NoLostWrite'
  BY <1>0, <1>4 DEF Read, LockTypeOK, SeenInv, NoLostWrite
<1>5. ASSUME NEW t \in Threads, Write(t)  PROVE SeenInv' /\ NoLostWrite'
  <2>1. /\ at[t] = "in" /\ Up(Home[t]) /\ seen[t] # Nobody
        /\ writes' = Append(writes, seen[t]) /\ seen' = [seen EXCEPT ![t] = Len(writes) + 1]
        /\ at' = at /\ link' = link /\ session' = session
    BY <1>5 DEF Write
  <2>2. seen[t] = Len(writes)
    BY <1>0, <2>1 DEF SeenInv
  <2>3. writes \in Seq(Nat) /\ seen[t] \in Nat
    BY <1>0, <2>2 DEF LockTypeOK
  <2>4. Len(writes') = Len(writes) + 1 /\ writes'[Len(writes) + 1] = Len(writes)
        /\ \A n \in 1..Len(writes) : writes'[n] = writes[n]
    BY <2>1, <2>2, <2>3
  <2>5. NoLostWrite'
    BY <1>0, <2>4 DEF NoLostWrite
  <2>6. ASSUME NEW u \in Threads, u # t, at[u] = "in", Up(Home[u])
        PROVE  FALSE
    BY <2>1, <2>6, Alone
  <2>7. SeenInv'
    BY <1>0, <2>1, <2>4, <2>6 DEF LockTypeOK, SeenInv
  <2> QED
    BY <2>5, <2>7
<1>6. ASSUME NEW p \in Processes, TickEnds(p)  PROVE SeenInv' /\ NoLostWrite'
  BY <1>0, <1>6 DEF TickEnds, SeenInv, NoLostWrite
<1>7. ASSUME NEW s \in Sessions, NEW new \in {"cut", "gone"}, link' = [link EXCEPT ![s] = new],
             at' = at, seen' = seen, writes' = writes, session' = session
      PROVE  SeenInv' /\ NoLostWrite'
  <2>1. \A r \in Sessions : link'[r] = "up" => link[r] = "up"
    BY <1>0, <1>7 DEF LockTypeOK
  <2>2. \A u \in Threads : Session(Home[u]) \in Sessions
    BY <1>0, SessionFacts DEF LockTypeOK
  <2>3. \A u \in Threads : Up(Home[u])' => Up(Home[u])
    BY <1>7, <2>1, <2>2
  <2> QED
    BY <1>0, <1>a, <1>7, <2>3 DEF LockTypeOK, SeenInv
<1>8. ASSUME NEW p \in Processes, Cut(p)  PROVE SeenInv' /\ NoLostWrite'
  <2>1. Session(p) \in Sessions
    BY <1>0, SessionFacts DEF LockTypeOK
  <2> QED
    BY <1>7, <1>8, <2>1 DEF Cut
<1>9. ASSUME NEW s \in Sessions, Close(s)  PROVE SeenInv' /\ NoLostWrite'
  BY <1>7, <1>9 DEF Close
<1>10. ASSUME NEW p \in Processes, Restart(p)  PROVE SeenInv' /\ NoLostWrite'
  <2> DEFINE old == IF Postgres /\ Up(p) THEN "cut" ELSE IF Postgres THEN link[Session(p)] ELSE "gone"
  <2>1. old \in {"unused", "up", "cut", "gone"} /\ Connected(p, old)
    BY <1>0, <1>10, SessionFacts DEF Restart, LockTypeOK
  <2>2. /\ writes' = writes
        /\ at' = [u \in Threads |-> IF Home[u] = p THEN "out" ELSE at[u]]
        /\ seen' = [u \in Threads |-> IF Home[u] = p THEN Nobody ELSE seen[u]]
    BY <1>10 DEF Restart
  <2> HIDE DEF old
  <2>3. ASSUME NEW u \in Threads, Home[u] # p, Up(Home[u])'
        PROVE  Up(Home[u])
    <3>2. session'[Home[u]] = session[Home[u]]
      BY <1>0, <2>1, <2>3, Again
    <3>3. Session(Home[u]) \in Sessions /\ Session(Home[u]) # <<p, session[p] + 1>>
          /\ Session(Home[u]) # <<p, session[p]>>
      BY <1>0, <2>3, SessionFacts DEF LockTypeOK
    <3>4. link'[Session(Home[u])] = link[Session(Home[u])]
      BY <1>0, <2>1, <3>3, Again
    <3> QED
      BY <2>3, <3>2, <3>4
  <2> QED
    BY <1>0, <1>a, <2>2, <2>3 DEF LockTypeOK, SeenInv
<1>11. CASE UNCHANGED lockVars
  BY <1>0, <1>11 DEF lockVars, SeenInv, NoLostWrite
<1> QED
  BY <1>1, <1>2, <1>3, <1>4, <1>5, <1>6, <1>8, <1>9, <1>10, <1>11 DEF LockNext, LockStep

LEMMA Inductive == LockInv /\ [LockNext]_lockVars => LockInv'
BY TypeStep, BalancedStep, HeldStep, SessionStep, SeenStep DEF LockInv

LEMMA Invariant == LockSpec => []LockInv
BY InitInv, Inductive, PTL DEF LockSpec

-----------------------------------------------------------------------------
\* Type correctness of every reachable state.
THEOREM LockType == LockSpec => []LockTypeOK
<1>1. LockInv => LockTypeOK
  BY DEF LockInv
<1> QED
  BY <1>1, Invariant, PTL

\* However threads, processes, lost connections and crashes interleave, every
\* write made under the lock was made from what the write before it left
\* (dblock.StoreLock with postgres.hold and let_go).
THEOREM WritesKept == LockSpec => []NoLostWrite
<1>1. LockInv => NoLostWrite
  BY DEF LockInv
<1> QED
  BY <1>1, Invariant, PTL

\* A process's thread lock is taken exactly while one of its threads is taking or
\* holding the store's lock: no refused, failed or abandoned acquire leaves it.
THEOREM LocksBalanced == LockSpec => []Balanced
<1>1. LockInv => Balanced
  BY DEF LockInv
<1> QED
  BY <1>1, Invariant, PTL

\* A process whose connection is up has the database's lock exactly while it is
\* in the section.
THEOREM LockHeld == LockSpec => []HeldInSection
<1>1. LockInv => HeldInSection
  BY DEF LockInv
<1> QED
  BY <1>1, Invariant, PTL

-----------------------------------------------------------------------------
(* The clock's role.                                                         *)

\* The connection a process was given the role on has the clock's lock for as long
\* as the database has that connection; on a file, which loses no connection, a
\* process has it for as long as a round lasts.
ClockInv(p) ==
    /\ leads[p] = Nobody \/ \E n \in 1..session[p] : leads[p] = <<p, n>>
    /\ leads[p] \in KeptSessions => leader = leads[p]
    /\ ticking[p] => leads[p] # Nobody
    /\ ~Postgres => Up(p) /\ (ticking[p] => leader = Session(p))

\* The connections of two processes differ, whichever of them they are.
LEMMA OthersConnection ==
    ASSUME LockTypeOK, NEW p \in Processes, NEW q \in Processes, p # q, ClockInv(q), leads[q] # Nobody
    PROVE  leads[q] \in Sessions /\ leads[q] # Session(p) /\ leads[q] # <<p, session[p] + 1>>
<1>1. PICK n \in 1..session[q] : leads[q] = <<q, n>>
  BY DEF ClockInv
<1>2. leads[q] \in Sessions
  BY DEF LockTypeOK
<1> QED
  BY <1>1, <1>2 DEF Session

LEMMA ClockStep ==
    ASSUME LockTypeOK, \A p \in Processes : ClockInv(p), [LockNext]_lockVars
    PROVE  \A p \in Processes : ClockInv(p)'
<1>0. /\ \A p \in Processes : /\ session[p] \in 1..MaxSessions /\ Session(p) \in Sessions
                              /\ link[Session(p)] \in {"unused", "up", "cut", "gone"}
      /\ \A t \in Threads : Home[t] \in Processes
      /\ link \in [Sessions -> {"unused", "up", "cut", "gone"}]
      /\ leads \in [Processes -> Sessions \cup {Nobody}]
      /\ ticking \in [Processes -> BOOLEAN]
  BY HomeAssumption, SessionFacts DEF LockTypeOK
<1>11. Nobody \notin Sessions
  BY SessionFacts
<1>1. CASE UNCHANGED <<session, link, leader, leads, ticking>>
  BY <1>1 DEF ClockInv, KeptSessions, Up, Session
<1>2. ASSUME NEW t \in Threads, Lead(t)
      PROVE  \A p \in Processes : ClockInv(p)'
  <2>1. PICK h \in Processes : h = Home[t]
    BY <1>0
  <2>2. /\ Session(h) # Nobody
        /\ \A q \in Processes : q # h => ticking'[q] = ticking[q]
        /\ UNCHANGED <<session, link>>
    BY <1>0, <1>2, <2>1, SessionFacts DEF Lead
  <2>3. CASE Leads(h) /\ UNCHANGED <<leader, leads>>
    <3>1. ASSUME NEW q \in Processes
          PROVE  ClockInv(q)'
      <4>1. leads[h] = Session(h)
        BY <2>3 DEF Leads
      <4>2. CASE q = h
        BY <1>0, <2>2, <2>3, <4>1, <4>2 DEF ClockInv, KeptSessions, Up, Session
      <4>3. CASE q # h
        BY <1>0, <2>2, <2>3, <4>3 DEF ClockInv, KeptSessions, Up, Session
      <4> QED
        BY <4>2, <4>3
    <3> QED
      BY <3>1
  <2>4. CASE ~Leads(h)
    <3>1. /\ leader' = Session(h) /\ leads'[h] = Session(h)
          /\ leader \in {Nobody, Session(h)} /\ Up(h)
          /\ \A q \in Processes : q # h => leads'[q] = leads[q]
      BY <1>0, <1>2, <2>1, <2>4 DEF Lead
    <3>2. ASSUME NEW q \in Processes
          PROVE  ClockInv(q)'
      <4>1. CASE q = h
        <5>1. session[h] \in Nat \ {0}
          <6>1. session[h] \in 1..MaxSessions
            BY <1>0
          <6> QED
            BY <6>1, BoundsAssumption
        <5>2. session[h] \in 1..session[h] /\ Session(h) = <<h, session[h]>>
          BY <5>1 DEF Session
        <5> QED
          BY <1>0, <2>2, <3>1, <4>1, <5>2 DEF ClockInv, KeptSessions, Up, Session
      <4>2. CASE q # h
        <5>1. leads[q] # Nobody => leads[q] # Session(h)
          BY <4>2, OthersConnection
        <5>2. leads[q] = Nobody \/ leads[q] \notin KeptSessions
          BY <3>1, <5>1 DEF ClockInv
        <5>3. Session(q) # Session(h) /\ Session(q) # Nobody
          BY <1>0, <4>2, SessionFacts
        <5>4. Postgres \/ ~ticking[q]
          BY <3>1, <5>3 DEF ClockInv
        <5> QED
          BY <1>11, <2>2, <3>1, <4>2, <5>2, <5>4 DEF ClockInv, KeptSessions, Up, Session
      <4> QED
        BY <4>1, <4>2
    <3> QED
      BY <3>2
  <2> QED
    BY <1>2, <2>1, <2>3, <2>4 DEF Lead
<1>3. ASSUME NEW h \in Processes, NEW old \in {"unused", "up", "cut", "gone"}, Connected(h, old),
             NEW q \in Processes,
             q # h => leads'[q] = leads[q] /\ ticking'[q] = ticking[q],
             leader' = leader \/ (~Postgres /\ leader = Session(h)),
             \/ leads'[h] = Nobody /\ ~ticking'[h]
             \/ Postgres /\ old = link[Session(h)] /\ UNCHANGED <<leader, leads, ticking>>
      PROVE  ClockInv(q)'
  <2>1. /\ session'[h] = session[h] + 1
        /\ \A p \in Processes : p # h => session'[p] = session[p]
        /\ link'[<<h, session[h] + 1>>] = "up" /\ link'[<<h, session[h]>>] = old
        /\ \A s \in Sessions : s # <<h, session[h] + 1>> /\ s # <<h, session[h]>> => link'[s] = link[s]
    BY <1>0, <1>3, Again DEF Connected, Session
  <2>2. session[h] \in Nat
    <3>1. session[h] \in 1..MaxSessions
      BY <1>0
    <3> QED
      BY <3>1, BoundsAssumption
  <2>3. CASE q = h /\ leads'[h] = Nobody /\ ~ticking'[h]
    <3>1. leads'[q] = Nobody /\ ~ticking'[q] /\ leads'[q] \notin KeptSessions'
      BY <1>11, <2>3 DEF KeptSessions
    <3>2. Up(q)'
      BY <2>1, <2>3 DEF Up, Session
    <3> QED
      BY <3>1, <3>2 DEF ClockInv
  <2>4. CASE q = h /\ Postgres /\ old = link[Session(h)] /\ UNCHANGED <<leader, leads, ticking>>
    <3>1. CASE leads[h] = Nobody
      BY <1>11, <2>1, <2>4, <3>1 DEF ClockInv, KeptSessions, Up, Session
    <3>2. CASE leads[h] # Nobody
      <4>1. PICK n \in 1..session[h] : leads[h] = <<h, n>>
        BY <2>4, <3>2 DEF ClockInv
      <4>2. n \in 1..(session[h] + 1) /\ n # session[h] + 1
        BY <2>2
      <4>3. leads[h] \in Sessions
        BY <1>0, <3>2
      <4>4. link'[leads[h]] = link[leads[h]]
        <5>1. CASE n = session[h]
          BY <2>1, <2>4, <4>1, <5>1 DEF Session
        <5>2. CASE n # session[h]
          BY <2>1, <4>1, <4>2, <4>3, <5>2
        <5> QED
          BY <5>1, <5>2
      <4> QED
        BY <1>11, <2>1, <2>4, <4>1, <4>2, <4>4 DEF ClockInv, KeptSessions, Up, Session
    <3> QED
      BY <3>1, <3>2
  <2>5. CASE q # h
    <3>1. /\ Session(q) \in Sessions /\ Session(q) # Nobody /\ Session(q) # Session(h)
          /\ Session(q) # <<h, session[h] + 1>> /\ Session(h) = <<h, session[h]>>
      BY <1>0, <2>5, SessionFacts DEF Session
    <3>2. session'[q] = session[q] /\ link'[Session(q)] = link[Session(q)]
      BY <2>1, <2>5, <3>1
    <3>3. leads[q] # Nobody => leads[q] # Session(h) /\ link'[leads[q]] = link[leads[q]]
      BY <1>3, <2>1, <2>5, <3>1, OthersConnection
    <3>4. leads'[q] = leads[q] /\ ticking'[q] = ticking[q]
      BY <1>3, <2>5
    <3>5. CASE leader' = leader
      BY <1>11, <3>2, <3>3, <3>4, <3>5 DEF ClockInv, KeptSessions, Up, Session
    <3>6. CASE ~Postgres /\ leader = Session(h)
      <4>1. leads[q] = Nobody \/ leads[q] \notin KeptSessions
        BY <3>3, <3>6 DEF ClockInv
      <4>2. ~ticking[q] /\ Up(q)
        BY <3>1, <3>6 DEF ClockInv
      <4> QED
        BY <1>11, <3>2, <3>3, <3>4, <3>6, <4>1, <4>2 DEF ClockInv, KeptSessions, Up, Session
    <3> QED
      BY <1>3, <3>5, <3>6
  <2> QED
    BY <1>3, <2>3, <2>4, <2>5
<1>4. ASSUME NEW t \in Threads, Reconnect(t)
      PROVE  \A p \in Processes : ClockInv(p)'
  <2>1. PICK h \in Processes : h = Home[t]
    BY <1>0
  <2>2. /\ Connected(h, link[Session(h)]) /\ UNCHANGED <<leader, leads, ticking>>
        /\ Postgres
    BY <1>4, <2>1 DEF Reconnect, ClockInv
  <2> QED
    BY <1>0, <1>3, <2>2
<1>5. ASSUME NEW h \in Processes, Restart(h)
      PROVE  \A p \in Processes : ClockInv(p)'
  <2> DEFINE old == IF Postgres /\ Up(h) THEN "cut" ELSE IF Postgres THEN link[Session(h)] ELSE "gone"
  <2>1. old \in {"unused", "up", "cut", "gone"} /\ Connected(h, old)
    BY <1>0, <1>5 DEF Restart
  <2> HIDE DEF old
  <2>2. ASSUME NEW q \in Processes
        PROVE  /\ q # h => leads'[q] = leads[q] /\ ticking'[q] = ticking[q]
               /\ leader' = leader \/ (~Postgres /\ leader = Session(h))
               /\ leads'[h] = Nobody /\ ~ticking'[h]
    BY <1>0, <1>5, BoundsAssumption, PostgresAssumption DEF Restart
  <2> QED
    BY <1>3, <2>1, <2>2
<1>6. ASSUME NEW h \in Processes, TickEnds(h)
      PROVE  \A p \in Processes : ClockInv(p)'
  BY <1>0, <1>6 DEF TickEnds, ClockInv, KeptSessions, Up, Session
<1>7. ASSUME NEW h \in Processes, Cut(h)
      PROVE  \A p \in Processes : ClockInv(p)'
  BY <1>0, <1>7 DEF Cut, ClockInv, KeptSessions, Up, Session
<1>8. ASSUME NEW s \in Sessions, Close(s)
      PROVE  \A p \in Processes : ClockInv(p)'
  BY <1>0, <1>8 DEF Close, Freed, ClockInv, KeptSessions, Up, Session
<1>9. ASSUME NEW t \in Threads,
             \/ \E b \in BOOLEAN : Acquire(t, b)
             \/ Take(t) \/ GiveUp(t) \/ Unreachable(t) \/ GivenToNobody(t)
             \/ Nest(t) \/ Unnest(t) \/ Release(t) \/ Read(t) \/ Write(t)
      PROVE  UNCHANGED <<session, link, leader, leads, ticking>>
  BY <1>9 DEF Acquire, Take, GiveUp, Leaves, Unreachable, GivenToNobody, Nest, Unnest, Release, Read, Write
<1>10. CASE UNCHANGED lockVars
  BY <1>1, <1>10 DEF lockVars
<1> QED
  BY <1>1, <1>2, <1>4, <1>5, <1>6, <1>7, <1>8, <1>9, <1>10 DEF LockNext, LockStep

ClocksInv == LockTypeOK /\ \A p \in Processes : ClockInv(p)

LEMMA ClockInvariant == LockSpec => []ClocksInv
<1>1. LockInit => \A p \in Processes : ClockInv(p)
  <2>1. ASSUME LockInit, NEW p \in Processes
        PROVE  ClockInv(p)
    <3>1. session[p] = 1 /\ <<p, 1>> \in Sessions /\ <<p, 1>> # Nobody
      BY <2>1, BoundsAssumption, SessionFacts DEF LockInit
    <3> QED
      BY <2>1, <3>1 DEF LockInit, ClockInv
  <2> QED
    BY <2>1
<1>2. LockInit => ClocksInv
  BY <1>1, InitInv DEF LockInv, ClocksInv
<1>3. ClocksInv /\ [LockNext]_lockVars => ClocksInv'
  BY ClockStep, TypeStep DEF ClocksInv
<1> QED
  BY <1>2, <1>3, PTL DEF LockSpec

\* Whatever connections were lost, closed and made again: a round of the clock that
\* starts on a connection the database has still has the clock's lock, and no other
\* process has a round under way but on a connection the database has closed (lead,
\* which answers from memory without asking).
THEOREM RoundsAreLed == LockSpec => ClockLed
<1>1. ClocksInv /\ [LockNext]_lockVars
      => [\A p \in Processes :
             ~ticking[p] /\ ticking'[p] /\ Session(p) \in KeptSessions =>
                 /\ leader' = Session(p)
                 /\ \A q \in Processes \ {p} : ticking[q] => leads[q] \notin KeptSessions]_lockVars
  <2>1. ASSUME LockTypeOK, \A p \in Processes : ClockInv(p), LockNext,
               NEW p \in Processes, ~ticking[p], ticking'[p], Session(p) \in KeptSessions
        PROVE  /\ leader' = Session(p)
               /\ \A q \in Processes \ {p} : ticking[q] => leads[q] \notin KeptSessions
    <3>1. ticking \in [Processes -> BOOLEAN] /\ session \in [Processes -> 1..MaxSessions]
      BY <2>1 DEF LockTypeOK
    <3>2. PICK t \in Threads : Lead(t)
      BY <2>1, <3>1 DEF LockNext, LockStep, TickEnds, Cut, Restart, Close, Acquire, Take, GiveUp, Leaves, Reconnect,
                        Unreachable, GivenToNobody, Nest, Unnest, Release, Read, Write
    <3>3. p = Home[t]
      BY <2>1, <3>1, <3>2 DEF Lead
    <3>4. Session(p) # Nobody
      BY <3>1, SessionFacts
    <3>5. leader' = Session(p) /\ leader \in {Nobody, Session(p)}
      BY <2>1, <3>2, <3>3, <3>4 DEF Lead, Leads, ClockInv
    <3>6. ASSUME NEW q \in Processes, q # p, ticking[q]
          PROVE  leads[q] \notin KeptSessions
      <4>1. leads[q] # Nobody
        BY <2>1, <3>6 DEF ClockInv
      <4>2. leads[q] # Session(p)
        BY <2>1, <3>6, <4>1, OthersConnection
      <4> QED
        BY <2>1, <3>5, <4>1, <4>2 DEF ClockInv
    <3> QED
      BY <3>5, <3>6
  <2> QED
    BY <2>1 DEF ClocksInv
<1> QED
  BY <1>1, ClockInvariant, PTL DEF LockSpec, ClockLed

\* On a SQLite file one process at a time runs the server's clock, through any
\* number of crashes and restarts.
THEOREM OneClockOnAFile ==
    ASSUME ~Postgres
    PROVE  LockSpec => []OneClock
<1>1. ClocksInv => OneClock
  <2>1. ASSUME \A p \in Processes : ClockInv(p), NEW p \in Processes, NEW q \in Processes, ticking[p], ticking[q]
        PROVE  p = q
    <3>1. Session(p) = Session(q)
      BY <2>1 DEF ClockInv
    <3> QED
      BY <3>1
  <2> QED
    BY <2>1 DEF OneClock, ClocksInv
<1> QED
  BY <1>1, ClockInvariant, PTL

-----------------------------------------------------------------------------
(* The revision table. Every revision saved by this code can be opened. The     *)
(* inductive invariant adds one part to the properties the runs check:          *)
(* ChainInv, which is EveryKeptRowOpens with the range of its witness.          *)

\* The rows from f to r are kept, f whole, within the window _doc_at reads.
Chain(f, r) == f \in 1..r /\ Reaches(f, r)

ChainInv == /\ Legacy..revision \subseteq Kept
            /\ \A r \in Kept : \E f \in 1..r : Reaches(f, r)

IInv == TypeOK /\ Legacy <= revision /\ ChainInv /\ RowsFit

\* A whole copy among the last FullEvery rows is fewer than FullEvery rows
\* from the latest when every row after it is kept: the count _keep makes over
\* rows bounds the distance _doc_at reads over revisions.
LEMMA RecentIsNear ==
    ASSUME NEW f \in Nat, NEW n \in Nat, f <= n,
           NEW K, IsFiniteSet(K), f + 1 .. n \subseteq K,
           Cardinality({s \in K : s > f}) < FullEvery
    PROVE  n - f < FullEvery
<1>1. (f + 1)..n \subseteq {s \in K : s > f}
  OBVIOUS
<1>2. IsFiniteSet({s \in K : s > f})
  BY FS_Subset
<1>3. Cardinality((f + 1)..n) <= Cardinality({s \in K : s > f})
  BY <1>1, <1>2, FS_Subset
<1>4. Cardinality((f + 1)..n) = IF f + 1 > n THEN 0 ELSE n - (f + 1) + 1
  BY FS_Interval
<1>5. Cardinality({s \in K : s > f}) \in Nat
  BY <1>2, FS_CardinalityType
<1> QED
  BY <1>3, <1>4, <1>5, FullEveryAssumption

LEMMA InitIInv == Init => IInv
<1> SUFFICES ASSUME Init PROVE IInv
  OBVIOUS
<1> USE LegacyAssumption
<1>0. PICK whole \in SUBSET (1..Legacy) :
          /\ Legacy \in whole
          /\ rows = [r \in whole |-> [kind |-> "full", data |-> saved[r]]]
  BY DEF Init
<1>1. TypeOK
  BY <1>0 DEF Init, TypeOK, Kept, Row, Idle
<1>2. ChainInv
  <2>1. Legacy..revision \subseteq Kept
    BY <1>0 DEF Init, Kept
  <2>2. ASSUME NEW r \in Kept PROVE Reaches(r, r) /\ r \in 1..r
    BY <2>2, <1>0, FullEveryAssumption DEF Reaches, Kept, Full
  <2> QED
    BY <2>1, <2>2 DEF ChainInv
<1>3. RowsFit
  BY <1>0 DEF Init, RowsFit, Kept, Full
<1> QED
  BY <1>1, <1>2, <1>3 DEF IInv, Init

\* The heart: the row _keep makes for the next revision is one _doc_at opens.
LEMMA CommitIInv ==
    ASSUME IInv, NEW doc \in Docs, NEW small \in BOOLEAN, Commit(doc, small),
           putting' = putting \/ putting' = Idle
    PROVE  IInv'
<1>a. PICK new : new = revision + 1
  OBVIOUS
<1>b. PICK row : row = KeepRow(new, dataset, doc, small)
  OBVIOUS
<1> USE <1>a, <1>b
<1>1. /\ revision \in Nat \ {0}  /\ revision' = new  /\ dataset' = doc
      /\ dataset \in Docs /\ Kept \subseteq 1..revision
      /\ Legacy <= revision /\ revision \in Kept
  BY LegacyAssumption DEF IInv, TypeOK, Commit, ChainInv
<1>2. /\ Kept' = Kept \cup {new}
      /\ rows'[new] = row
      /\ \A r \in Kept : rows'[r] = rows[r]
  BY <1>1 DEF Commit, Kept
<1>3. /\ saved' \in [1..new -> Docs] /\ saved'[new] = doc
      /\ \A r \in 1..revision : saved'[r] = saved[r]
  BY <1>1 DEF Commit, IInv, TypeOK
<1>4. \/ row = [kind |-> "full", data |-> doc]
      \/ /\ row = [kind |-> "delta", data |-> [from |-> dataset, to |-> doc]]
         /\ MayBeDelta(new)
  BY DEF KeepRow
<1>5. TypeOK'
  <2>1. row \in Row
    BY <1>1, <1>4 DEF Row, Patch
  <2>2. putting' = Idle \/ putting' \in [rev : 1..new, doc : Docs]
    BY <1>1 DEF IInv, TypeOK
  <2> QED
    BY <1>1, <1>2, <1>3, <2>1, <2>2 DEF TypeOK, IInv
<1>6. \A f, r : (r \in Kept /\ f \in 1..r /\ Reaches(f, r)) => Reaches(f, r)'
  BY <1>1, <1>2 DEF Reaches, Full
<1>7. \E f \in 1..new : Reaches(f, new)'
  <2>1. CASE row.kind = "full"
    <3>1. new \in 1..new /\ new - new <= FullEvery /\ new..new \subseteq Kept'
      BY <1>1, <1>2, FullEveryAssumption
    <3> QED
      BY <2>1, <3>1, <1>2 DEF Reaches, Full
  <2>2. CASE MayBeDelta(new)
    <3>1. PICK g \in Recent : Full(g)
      BY <2>2 DEF MayBeDelta
    <3>2. PICK f \in 1..revision : Reaches(f, revision)
      BY <1>1 DEF IInv, ChainInv
    <3>3. /\ g \in Kept /\ g \in 1..revision
          /\ Cardinality({s \in Kept : s > g}) < FullEvery
      BY <3>1, <1>1 DEF Recent
    <3>4. IsFiniteSet(Kept)
      <4>1. IsFiniteSet(1..revision)
        BY <1>1, FS_Interval
      <4> QED
        BY <4>1, <1>1, FS_Subset
    <3>5. CASE g >= f
      <4>1. (g + 1)..revision \subseteq Kept /\ g..revision \subseteq Kept
        BY <3>2, <3>3, <3>5 DEF Reaches
      <4>2. revision - g < FullEvery
        <5>1. g \in Nat /\ revision \in Nat /\ g <= revision
          BY <3>3, <1>1
        <5> QED
          BY <5>1, <3>3, <3>4, <4>1, RecentIsNear
      <4>3. Reaches(g, new)'
        BY <4>1, <4>2, <3>1, <3>3, <1>1, <1>2, FullEveryAssumption DEF Reaches, Full
      <4> QED
        BY <4>3, <3>3, <1>1
    <3>6. CASE g < f
      <4>1. (f + 1)..revision \subseteq Kept
        BY <3>2 DEF Reaches
      <4>2. {s \in Kept : s > f} \subseteq {s \in Kept : s > g}
        <5>1. ASSUME NEW s \in Kept, s > f PROVE s > g
          <6>1. s \in 1..revision /\ g \in 1..revision /\ f \in 1..revision
            BY <1>1, <3>3
          <6> QED
            BY <6>1, <5>1, <3>6, <1>1
        <5> QED
          BY <5>1
      <4>3. Cardinality({s \in Kept : s > f}) < FullEvery
        <5>1. IsFiniteSet({s \in Kept : s > g})
          BY <3>4, FS_Subset
        <5>2. Cardinality({s \in Kept : s > f}) <= Cardinality({s \in Kept : s > g})
          BY <5>1, <4>2, FS_Subset
        <5>3. IsFiniteSet({s \in Kept : s > f})
          BY <3>4, FS_Subset
        <5> QED
          BY <5>1, <5>2, <5>3, <3>3, FS_CardinalityType, FullEveryAssumption
      <4>4. revision - f < FullEvery
        <5>1. f \in Nat /\ revision \in Nat /\ f <= revision
          BY <3>2, <1>1
        <5> QED
          BY <5>1, <3>4, <4>1, <4>3, RecentIsNear
      <4>5. Reaches(f, new)'
        BY <4>4, <3>2, <1>1, <1>2, FullEveryAssumption DEF Reaches, Full
      <4> QED
        BY <4>5, <3>2, <1>1
    <3> QED
      BY <3>5, <3>6, <3>2, <3>3
  <2> QED
    BY <2>1, <2>2, <1>4
<1>8. ChainInv'
  <2>1. (Legacy..revision \subseteq Kept)'
    BY <1>1, <1>2, LegacyAssumption DEF IInv, ChainInv
  <2>2. ASSUME NEW r \in Kept' PROVE \E f \in 1..r : Reaches(f, r)'
    <3>1. CASE r = new
      BY <3>1, <1>7
    <3>2. CASE r \in Kept
      BY <3>2, <1>6 DEF IInv, ChainInv
    <3> QED
      BY <3>1, <3>2, <1>2
  <2> QED
    BY <2>1, <2>2 DEF ChainInv
<1>9. RowsFit'
  <2>1. dataset' = saved'[revision']
    BY <1>1, <1>3
  <2>2. ASSUME NEW r \in Kept'
        PROVE IF Full(r)' THEN rows'[r].data = saved'[r]
              ELSE r - 1 \in Kept' /\ rows'[r].data = [from |-> saved'[r - 1], to |-> saved'[r]]
    <3>1. CASE r = new
      BY <3>1, <1>1, <1>2, <1>3, <1>4 DEF Full, MayBeDelta, IInv, RowsFit
    <3>2. CASE r \in Kept
      BY <3>2, <1>1, <1>2, <1>3 DEF Full, IInv, RowsFit
    <3> QED
      BY <3>1, <3>2, <1>2
  <2> QED
    BY <2>1, <2>2 DEF RowsFit
<1> QED
  BY <1>1, <1>5, <1>8, <1>9, LegacyAssumption DEF IInv

LEMMA NextIInv == IInv /\ [Next]_vars => IInv'
<1> SUFFICES ASSUME IInv, [Next]_vars PROVE IInv'
  OBVIOUS
<1>0. ASSUME UNCHANGED <<revision, dataset, rows, saved>>,
             putting' = Idle \/ putting' \in [rev : 1..revision, doc : Docs]
      PROVE  IInv'
  BY <1>0 DEF IInv, TypeOK, ChainInv, RowsFit, Kept, Full, Reaches
<1>1. ASSUME NEW doc \in Docs, NEW small \in BOOLEAN, Save(doc, small) PROVE IInv'
  BY <1>1, CommitIInv DEF Save
<1>2. ASSUME NEW r \in 1..revision, RestoreRead(r) PROVE IInv'
  <2>1. putting' \in [rev : 1..revision, doc : Docs]
    BY <1>2 DEF RestoreRead
  <2> QED
    BY <2>1, <1>2, <1>0 DEF RestoreRead
<1>3. ASSUME NEW small \in BOOLEAN, RestoreSave(small) PROVE IInv'
  <2>1. putting.doc \in Docs
    BY <1>3 DEF RestoreSave, IInv, TypeOK
  <2>2. CASE Commit(putting.doc, small)
    BY <2>1, <2>2, <1>3, CommitIInv DEF RestoreSave
  <2>3. CASE UNCHANGED <<revision, dataset, rows, saved>>
    BY <2>3, <1>3, <1>0 DEF RestoreSave
  <2> QED
    BY <1>3, <2>2, <2>3 DEF RestoreSave
<1>4. CASE RestoreRefused
  BY <1>4, <1>0 DEF RestoreRefused
<1>5. CASE UNCHANGED vars
  <2>1. putting' = Idle \/ putting' \in [rev : 1..revision, doc : Docs]
    BY <1>5 DEF IInv, TypeOK, vars
  <2> QED
    BY <2>1, <1>5, <1>0 DEF vars
<1> QED
  BY <1>1, <1>2, <1>3, <1>4, <1>5 DEF Next

-----------------------------------------------------------------------------
\* A set of revisions that is not empty has a first.
LEMMA FirstOf ==
    ASSUME NEW T, T \subseteq Nat, T # {}
    PROVE  \E x \in T : \A y \in T : x <= y
<1>1. PICK R : R = OpToRel(<, Nat)
  OBVIOUS
<1>2. IsWellFoundedOn(R, Nat)
  BY <1>1, NatLessThanWellFounded
<1>3. PICK x \in T : \A y \in T : ~(<<y, x>> \in R)
  BY <1>2, WFMin
<1>4. \A y \in Nat : y < x => <<y, x>> \in R
  BY <1>1 DEF OpToRel
<1>5. x \in Nat /\ \A y \in T : y \in Nat /\ ~(y < x)
  BY <1>3, <1>4
<1> QED
  BY <1>5

\* The nearest whole copy before a revision that can be opened.
LEMMA Nearest ==
    ASSUME TypeOK, NEW r \in 1..revision, Openable(r)
    PROVE  /\ NearestFull(r) \in 1..r /\ Reaches(NearestFull(r), r)
           /\ \A g \in (NearestFull(r) + 1)..r : ~Full(g)
<1> DEFINE T == {r - f : f \in {g \in 1..r : Reaches(g, r)}}
<1>1. r \in Nat /\ T \subseteq Nat /\ T # {}
  BY DEF TypeOK, Openable
<1>2. PICK d \in T : \A e \in T : d <= e
  BY <1>1, FirstOf
<1>3. PICK f \in 1..r : Reaches(f, r) /\ d = r - f
  BY <1>2
<1>4. \A g \in (f + 1)..r : ~Full(g)
  <2> SUFFICES ASSUME NEW g \in (f + 1)..r, Full(g) PROVE FALSE
    OBVIOUS
  <2>1. g \in 1..r /\ Reaches(g, r)
    BY <1>1, <1>3, FullEveryAssumption DEF Reaches
  <2>2. r - g \in T
    BY <2>1
  <2>3. r - f <= r - g
    BY <1>2, <1>3, <2>2
  <2> QED
    BY <1>1, <1>3, <2>1, <2>3
<1> QED
  BY <1>3, <1>4 DEF NearestFull

\* Rebuilding a revision gives what was saved, however long the chain: what was
\* saved meets the equation the rebuilding is defined by, and a first revision
\* where the two differ would differ by a row that does not fit.
LEMMA OpensRight ==
    ASSUME TypeOK, RowsFit, NEW r \in 1..revision, Openable(r)
    PROVE  DocAt(r) = saved[r]
<1>1. PICK first : first = NearestFull(r)
  OBVIOUS
<1>2. /\ first \in 1..r /\ Reaches(first, r)
      /\ \A g \in (first + 1)..r : ~Full(g)
  BY <1>1, Nearest
<1>3. r \in Nat /\ first \in Nat /\ first <= r /\ first..r \subseteq Kept /\ Full(first)
  BY <1>2 DEF TypeOK, Reaches
<1> DEFINE Step(f) == [i \in first..r |-> IF i = first THEN rows[i].data
                                          ELSE ApplyPatch(f[i - 1], rows[i].data)]
           doc == CHOOSE f : f = Step(f)
<1>4. DocAt(r) = doc[r]
  BY <1>1 DEF DocAt
<1>5. PICK g : g = [i \in first..r |-> saved[i]]
  OBVIOUS
<1>6. \A i \in first..r : i # first =>
         rows[i].data = [from |-> saved[i - 1], to |-> saved[i]]
  BY <1>2, <1>3 DEF RowsFit
<1>7. rows[first].data = saved[first]
  <2>1. first \in Kept /\ Full(first)
    BY <1>3
  <2> QED
    BY <2>1 DEF RowsFit, Full
<1>8. g = Step(g)
  <2>1. \A i \in first..r : i # first => i - 1 \in first..r /\ g[i - 1] = saved[i - 1]
    BY <1>3, <1>5
  <2>2. \A i \in first..r : i # first => ApplyPatch(g[i - 1], rows[i].data) = saved[i]
    <3> SUFFICES ASSUME NEW i \in first..r, i # first
                 PROVE  ApplyPatch(g[i - 1], rows[i].data) = saved[i]
      OBVIOUS
    <3>1. PICK p : p = [from |-> saved[i - 1], to |-> saved[i]]
      OBVIOUS
    <3>2. ApplyPatch(g[i - 1], p) = saved[i]
      BY <2>1, <3>1 DEF ApplyPatch
    <3> QED
      BY <1>6, <3>1, <3>2
  <2> QED
    BY <1>5, <1>7, <2>2
<1>9. doc = Step(doc)
  <2> HIDE DEF Step
  <2> QED
    BY <1>8, Zenon
<1>10. PICK d : d = doc
  OBVIOUS
<1>11. d = Step(d)
  BY <1>9, <1>10
<1> HIDE DEF doc
<1>a. /\ d[first] = saved[first]
      /\ \A i \in first..r : i # first => d[i] = ApplyPatch(d[i - 1], rows[i].data)
  <2>1. first \in first..r
    BY <1>3
  <2> QED
    BY <2>1, <1>7, <1>11
<1> DEFINE T == {i \in first..r : d[i] # saved[i]}
<1>12. T = {}
  <2> SUFFICES ASSUME T # {} PROVE FALSE
    OBVIOUS
  <2>1. PICK x \in T : \A y \in T : x <= y
    <3>1. T \subseteq Nat
      BY <1>3
    <3> QED
      BY <3>1, FirstOf
  <2>2. x # first /\ x \in first..r
    BY <1>a, <2>1
  <2>3. x - 1 \in first..r /\ x - 1 \notin T
    BY <1>3, <2>1, <2>2
  <2>4. d[x] = saved[x]
    <3>1. d[x - 1] = saved[x - 1]
      BY <2>3
    <3>2. PICK p : p = [from |-> saved[x - 1], to |-> saved[x]]
      OBVIOUS
    <3>3. d[x] = ApplyPatch(saved[x - 1], p)
      BY <1>6, <1>a, <2>2, <3>1, <3>2
    <3> QED
      BY <3>2, <3>3 DEF ApplyPatch
  <2> QED
    BY <2>1, <2>4
<1>13. d[r] = saved[r]
  BY <1>2, <1>3, <1>12
<1> QED
  BY <1>4, <1>10, <1>13

\* The list the history makes says of a revision whether a row of it is kept:
\* every delta has its row before it.
LEMMA ListedAreKept ==
    ASSUME TypeOK, RowsFit
    PROVE  Offered = Kept
<1>1. revision \in Nat /\ Kept \subseteq 1..revision
  BY DEF TypeOK
<1> DEFINE Step(f) == [r \in 0..revision |-> r \in Kept /\ (Full(r) \/ f[r - 1])]
           listed == CHOOSE f : f = Step(f)
<1>2. Offered = {r \in 1..revision : listed[r]}
  BY DEF Offered
<1>3. PICK g : g = [r \in 0..revision |-> r \in Kept]
  OBVIOUS
<1>4. \A r \in 0..revision : r \in Kept /\ ~Full(r) => r - 1 \in 0..revision /\ r - 1 \in Kept
  <2> SUFFICES ASSUME NEW r \in 0..revision, r \in Kept, ~Full(r)
               PROVE  r - 1 \in 0..revision /\ r - 1 \in Kept
    OBVIOUS
  <2>1. r - 1 \in Kept
    BY DEF RowsFit
  <2> QED
    BY <1>1, <2>1
<1>5. g = Step(g)
  <2>1. \A r \in 0..revision : (r \in Kept /\ (Full(r) \/ g[r - 1])) = (r \in Kept)
    <3> SUFFICES ASSUME NEW r \in 0..revision
                 PROVE (r \in Kept /\ (Full(r) \/ g[r - 1])) = (r \in Kept)
      OBVIOUS
    <3>1. CASE r \in Kept /\ ~Full(r)
      <4>1. r - 1 \in 0..revision /\ r - 1 \in Kept
        BY <1>4, <3>1
      <4>2. g[r - 1] = TRUE
        BY <1>3, <4>1
      <4> QED
        BY <3>1, <4>2
    <3>2. CASE r \in Kept /\ Full(r)
      BY <3>2
    <3>3. CASE r \notin Kept
      BY <3>3
    <3> QED
      BY <3>1, <3>2, <3>3
  <2> QED
    BY <1>3, <2>1
<1>6. listed = Step(listed)
  <2> HIDE DEF Step
  <2> QED
    BY <1>5, Zenon
<1>7. PICK l : l = listed
  OBVIOUS
<1>8. l = Step(l)
  BY <1>6, <1>7
<1> HIDE DEF listed
<1>9. \A r \in 0..revision : l[r] = (r \in Kept /\ (Full(r) \/ l[r - 1]))
  BY <1>8
<1>10. \A r \in 0..revision : l[r] => r \in Kept
  BY <1>9
<1> DEFINE T == {r \in Kept : ~l[r]}
<1>11. T = {}
  <2> SUFFICES ASSUME T # {} PROVE FALSE
    OBVIOUS
  <2>1. PICK x \in T : \A y \in T : x <= y
    <3>1. T \subseteq Nat
      BY <1>1, 1..revision \subseteq Nat
    <3> QED
      BY <3>1, FirstOf
  <2>2. x \in Kept /\ x \in 0..revision /\ ~l[x]
    BY <1>1, <2>1
  <2>3. ~Full(x) /\ ~l[x - 1]
    BY <1>9, <2>2
  <2>4. x - 1 \in Kept
    BY <1>4, <2>2, <2>3
  <2>5. x - 1 \in T /\ x \in Nat
    BY <1>1, <2>2, <2>3, <2>4
  <2>6. x <= x - 1
    BY <2>1, <2>5
  <2> QED
    BY <2>5, <2>6
<1>12. {r \in 1..revision : l[r]} = Kept
  <2>1. \A r \in 1..revision : l[r] <=> r \in Kept
    BY <1>10, <1>11
  <2> QED
    BY <1>1, <2>1
<1> QED
  BY <1>2, <1>7, <1>12

\* Every row kept can be opened, so the list offers just what opens.
LEMMA OffersRight ==
    ASSUME TypeOK, RowsFit, \A r \in Kept : Openable(r)
    PROVE  OfferedExactlyOpenable
<1>1. \A r \in 1..revision : Openable(r) => r \in Kept
  BY DEF Openable, Reaches, TypeOK
<1>2. Offered = Kept /\ Kept \subseteq 1..revision
  BY ListedAreKept DEF TypeOK
<1> QED
  BY <1>1, <1>2 DEF OfferedExactlyOpenable

\* What a reader of the history sees is every row kept, as it was saved.
KeptAsSaved == Opened = [r \in Kept |-> saved[r]]

LEMMA OpenedAreSaved == IInv => KeptAsSaved
<1> SUFFICES ASSUME IInv PROVE Opened = [r \in Kept |-> saved[r]]
  BY DEF KeptAsSaved
<1>1. {r \in 1..revision : Openable(r)} = Kept
  <2>1. \A r \in 1..revision : Openable(r) => r \in Kept
    BY DEF Openable, Reaches, IInv, TypeOK
  <2>2. \A r \in Kept : r \in 1..revision /\ Openable(r)
    BY DEF IInv, TypeOK, ChainInv, Openable
  <2> QED
    BY <2>1, <2>2
<1>2. \A r \in Kept : DocAt(r) = saved[r]
  <2>1. \A r \in Kept : r \in 1..revision /\ Openable(r)
    BY <1>1
  <2> QED
    BY <2>1, OpensRight DEF IInv
<1> QED
  BY <1>1, <1>2 DEF Opened

-----------------------------------------------------------------------------
\* Type correctness of the kept revisions (company_revisions as _keep fills it).
THEOREM TypeCorrect == Spec => []TypeOK
<1>1. Init => IInv
  BY InitIInv
<1>2. IInv /\ [Next]_vars => IInv'
  BY NextIInv
<1>3. IInv => TypeOK
  BY DEF IInv
<1> QED
  BY <1>1, <1>2, <1>3, PTL DEF Spec

\* Whatever FULL_EVERY is, the rows _keep decides to keep as deltas are within
\* the FULL_EVERY + 1 rows _doc_at reads: every revision kept can be opened.
THEOREM EverySaveOpens == Spec => []EveryKeptRowOpens
<1>1. Init => IInv
  BY InitIInv
<1>2. IInv /\ [Next]_vars => IInv'
  BY NextIInv
<1>3. IInv => EveryKeptRowOpens
  BY DEF IInv, ChainInv, EveryKeptRowOpens, Openable
<1> QED
  BY <1>1, <1>2, <1>3, PTL DEF Spec

\* Each row kept is the revision, or leads from the one before it to it: the
\* chain a revision is rebuilt from fits at every link.
THEOREM EveryRowFits == Spec => []RowsFit
<1>1. Init => IInv
  BY InitIInv
<1>2. IInv /\ [Next]_vars => IInv'
  BY NextIInv
<1>3. IInv => RowsFit
  BY DEF IInv
<1> QED
  BY <1>1, <1>2, <1>3, PTL DEF Spec

\* Nothing that could be opened is lost, by a save, a put-back or its refusal.
THEOREM NothingIsLost == Spec => NothingKeptIsLost
<1>1. Init => IInv
  BY InitIInv
<1>2. IInv /\ [Next]_vars => IInv'
  BY NextIInv
<1>3. IInv /\ [Next]_vars =>
        [\A r \in 1..revision : Openable(r) => Openable(r)' /\ saved'[r] = saved[r]]_vars
  <2> SUFFICES ASSUME IInv, Next, NEW r \in 1..revision, Openable(r)
               PROVE  Openable(r)' /\ saved'[r] = saved[r]
    OBVIOUS
  <2>1. ASSUME UNCHANGED <<revision, dataset, rows, saved>>
        PROVE  Openable(r)' /\ saved'[r] = saved[r]
    BY <2>1 DEF Openable, Reaches, Kept, Full
  <2>2. ASSUME NEW doc, NEW small, Commit(doc, small)
        PROVE  Openable(r)' /\ saved'[r] = saved[r]
    <3>1. \A k \in Kept : k \in Kept' /\ rows'[k] = rows[k]
      BY <2>2 DEF Commit, Kept, IInv, TypeOK
    <3>2. saved'[r] = saved[r]
      BY <2>2 DEF Commit, IInv, TypeOK
    <3> QED
      BY <3>1, <3>2 DEF Openable, Reaches, Full
  <2> QED
    BY <2>1, <2>2 DEF Next, Save, RestoreRead, RestoreSave, RestoreRefused
<1> QED
  BY <1>1, <1>2, <1>3, PTL DEF Spec, NothingKeptIsLost

\* A revision opened is the company as it was saved, however long the chain.
THEOREM OpensRightly == Spec => []OpensAsSaved
<1>1. Init => IInv
  BY InitIInv
<1>2. IInv /\ [Next]_vars => IInv'
  BY NextIInv
<1>3. IInv => OpensAsSaved
  BY OpensRight DEF IInv, OpensAsSaved
<1> QED
  BY <1>1, <1>2, <1>3, PTL DEF Spec

\* The history offers just the revisions that open, though it looks back
\* without a limit and opening does not.
THEOREM OfferedRightly == Spec => []OfferedExactlyOpenable
<1>1. Init => IInv
  BY InitIInv
<1>2. IInv /\ [Next]_vars => IInv'
  BY NextIInv
<1>3. IInv => OfferedExactlyOpenable
  <2> SUFFICES ASSUME IInv PROVE OfferedExactlyOpenable
    OBVIOUS
  <2>1. \A r \in Kept : Openable(r)
    BY DEF IInv, ChainInv, Openable
  <2> QED
    BY <2>1, OffersRight DEF IInv
<1> QED
  BY <1>1, <1>2, <1>3, PTL DEF Spec

-----------------------------------------------------------------------------
\* What is put back is a revision still kept, as it was saved.
PutInv == putting # Idle => /\ putting.rev \in Kept
                            /\ putting.doc = saved[putting.rev]

\* Only reading a revision makes a put-back, and nothing changes a revision
\* until it is saved.
LEMMA NextPutInv == IInv /\ PutInv /\ [Next]_vars => PutInv'
<1> SUFFICES ASSUME IInv, PutInv, [Next]_vars PROVE PutInv'
  OBVIOUS
<1>1. ASSUME putting' = Idle PROVE PutInv'
  BY <1>1 DEF PutInv, Idle
<1>2. ASSUME NEW doc, NEW small, Save(doc, small) PROVE PutInv'
  <2>1. Kept \subseteq Kept' /\ putting' = putting
    BY <1>2 DEF Save, Commit, Kept
  <2>2. \A r \in Kept : saved'[r] = saved[r]
    BY <1>2 DEF Save, Commit, IInv, TypeOK
  <2> QED
    BY <2>1, <2>2 DEF PutInv, Idle
<1>3. ASSUME NEW r \in 1..revision, RestoreRead(r) PROVE PutInv'
  <2>1. DocAt(r) = saved[r]
    BY <1>3, OpensRight DEF RestoreRead, IInv
  <2>2. r \in Kept /\ Kept' = Kept /\ saved' = saved
    BY <1>3 DEF RestoreRead, Openable, Reaches, Kept
  <2> QED
    BY <1>3, <2>1, <2>2 DEF RestoreRead, PutInv
<1>4. CASE UNCHANGED vars
  BY <1>4 DEF vars, PutInv, Kept, Idle
<1> QED
  BY <1>1, <1>2, <1>3, <1>4 DEF Next, RestoreSave, RestoreRefused

\* The history offers exactly what opens, all saved since every revision is kept among it: a revision seen in the
\* history is never refused, and none that could be opened is left out (_keep, _doc_at and _kept agree).
THEOREM HistoryIsRight == Spec => []HistoryOpens
<1>1. EveryKeptRowOpens /\ OfferedExactlyOpenable => HistoryOpens
  BY DEF HistoryOpens
<1> QED
  BY <1>1, EverySaveOpens, OfferedRightly, PTL

\* A put-back saves the revision it was asked for, as that was saved.
THEOREM PutsBackTheRevision == Spec => []PutBackIsTheRevision
<1>1. Init => IInv /\ PutInv
  BY InitIInv DEF Init, PutInv
<1>2. IInv /\ PutInv /\ [Next]_vars => (IInv /\ PutInv)'
  BY NextIInv, NextPutInv
<1>3. IInv /\ PutInv => PutBackIsTheRevision
  BY DEF PutInv, PutBackIsTheRevision
<1> QED
  BY <1>1, <1>2, <1>3, PTL DEF Spec

-----------------------------------------------------------------------------
LEMMA InitTable == Init => Table!Init
<1> SUFFICES ASSUME Init PROVE Table!Init
  OBVIOUS
<1>1. IInv
  BY InitIInv
<1>2. PICK t : t = Opened
  OBVIOUS
<1>3. t = [r \in Kept |-> saved[r]]
  BY <1>1, <1>2, OpenedAreSaved DEF KeptAsSaved
<1>4. /\ revision \in Nat \ {0} /\ Kept \subseteq 1..revision
      /\ revision \in Kept /\ saved \in [1..revision -> Docs]
  BY <1>1, LegacyAssumption DEF IInv, TypeOK, ChainInv
<1>5. /\ revision \in DOMAIN t /\ DOMAIN t \subseteq 1..revision
      /\ t \in [DOMAIN t -> Docs]
  BY <1>3, <1>4
<1>6. putting.rev = 0
  BY DEF Init, Idle
<1> QED
  BY <1>2, <1>4, <1>5, <1>6 DEF Table!Init

\* What a commit is to the table: the document saved, at the end.
LEMMA CommitAppends ==
    ASSUME IInv, IInv', NEW doc \in Docs, NEW small \in BOOLEAN, Commit(doc, small),
           KeptAsSaved'
    PROVE  Table!Append(doc)
<1>1. PICK t, u : t = Opened /\ u = Opened'
  OBVIOUS
<1>2. t = [r \in Kept |-> saved[r]] /\ u = [r \in Kept' |-> saved'[r]]
  BY <1>1, OpenedAreSaved DEF KeptAsSaved
<1>3. /\ revision \in Nat \ {0} /\ Kept \subseteq 1..revision
      /\ revision \in Kept /\ dataset = saved[revision]
  BY LegacyAssumption DEF IInv, TypeOK, ChainInv, RowsFit
<1>4. /\ revision' = revision + 1 /\ doc # dataset
      /\ Kept' = Kept \cup {revision + 1}
      /\ saved' = [r \in 1..(revision + 1) |-> IF r = revision + 1 THEN doc ELSE saved[r]]
  BY DEF Commit, Kept
<1>5. doc # t[revision]
  BY <1>2, <1>3, <1>4
<1>6. u = [r \in DOMAIN t \cup {revision + 1} |-> IF r = revision + 1 THEN doc ELSE t[r]]
  <2>1. DOMAIN t = Kept
    BY <1>2
  <2>2. \A r \in Kept \cup {revision + 1} :
           saved'[r] = IF r = revision + 1 THEN doc ELSE t[r]
    BY <1>2, <1>3, <1>4
  <2> QED
    BY <1>2, <1>4, <2>1, <2>2
<1> QED
  BY <1>1, <1>4, <1>5, <1>6 DEF Table!Append

LEMMA NextTable ==
    ASSUME IInv, IInv', PutInv, [Next]_vars,
           KeptAsSaved'
    PROVE  [Table!Next]_(Table!tableVars)
<1>1. ASSUME UNCHANGED <<revision, rows, saved>> PROVE Opened' = Opened
  <2>1. Opened' = [r \in Kept |-> saved[r]]
    BY <1>1 DEF Kept, KeptAsSaved
  <2> QED
    BY <2>1, OpenedAreSaved DEF KeptAsSaved
<1>2. putting = Idle <=> putting.rev = 0
  <2>1. putting = Idle => putting.rev = 0
    BY DEF Idle
  <2>2. putting \in [rev : 1..revision, doc : Docs] => putting.rev # 0
    BY DEF IInv, TypeOK
  <2> QED
    BY <2>1, <2>2 DEF IInv, TypeOK
<1>3. ASSUME NEW doc \in Docs, NEW small \in BOOLEAN, Save(doc, small)
      PROVE  Table!Next
  <2>1. Table!Append(doc)
    BY <1>3, CommitAppends DEF Save
  <2> QED
    BY <1>3, <2>1 DEF Save, Table!Save, Table!Next
<1>4. ASSUME NEW r \in 1..revision, RestoreRead(r) PROVE Table!Next
  <2>1. r \in DOMAIN Opened
    BY <1>4 DEF RestoreRead, Opened
  <2>2. putting.rev = 0 /\ putting'.rev = r /\ Opened' = Opened /\ revision' = revision
    BY <1>1, <1>2, <1>4 DEF RestoreRead
  <2> QED
    BY <2>1, <2>2 DEF Table!Ask, Table!Next
<1>5. ASSUME putting # Idle, putting' = Idle, UNCHANGED <<revision, dataset, rows, saved>>
      PROVE  Table!Next
  BY <1>1, <1>2, <1>5 DEF Idle, Table!PutBack, Table!Next
<1>6. ASSUME NEW small \in BOOLEAN, RestoreSave(small) PROVE Table!Next
  <2>1. putting # Idle /\ putting' = Idle /\ putting.doc \in Docs
    BY <1>6 DEF RestoreSave, IInv, TypeOK
  <2>2. CASE Commit(putting.doc, small)
    <3>1. Table!Append(putting.doc)
      BY <2>1, <2>2, CommitAppends
    <3>2. putting.doc = Opened[putting.rev]
      <4>1. putting.rev \in Kept /\ putting.doc = saved[putting.rev]
        BY <2>1 DEF PutInv
      <4> QED
        BY <4>1, OpenedAreSaved DEF KeptAsSaved
    <3>3. Table!Append(Opened[putting.rev])
      BY <3>1, <3>2
    <3> QED
      BY <1>2, <2>1, <3>3 DEF Idle, Table!PutBack, Table!Next
  <2>3. CASE UNCHANGED <<revision, dataset, rows, saved>>
    BY <1>5, <2>1, <2>3
  <2> QED
    BY <1>6, <2>2, <2>3 DEF RestoreSave
<1>7. CASE RestoreRefused
  BY <1>5, <1>7 DEF RestoreRefused
<1>8. CASE UNCHANGED vars
  BY <1>1, <1>8 DEF vars, Table!tableVars
<1> QED
  BY <1>3, <1>4, <1>6, <1>7, <1>8 DEF Next

\* The rows, their deltas and the windows over them are a plain table of whole
\* documents to everybody who saves, opens and puts back.
THEOREM ChainIsATable == Spec => ImplementsTable
<1>1. Init => IInv /\ PutInv
  BY InitIInv DEF Init, PutInv
<1>2. IInv /\ PutInv /\ [Next]_vars => (IInv /\ PutInv)'
  BY NextIInv, NextPutInv
<1>3. IInv => KeptAsSaved
  BY OpenedAreSaved
<1>4. IInv' => KeptAsSaved'
  BY <1>3, PTL
<1>5. IInv /\ PutInv /\ [Next]_vars => [Table!Next]_(Table!tableVars)
  BY <1>2, <1>4, NextTable
<1>6. Init => Table!Init
  BY InitTable
<1> QED
  BY <1>1, <1>2, <1>5, <1>6, PTL DEF Spec, ImplementsTable, Table!Spec
===============================================================================
