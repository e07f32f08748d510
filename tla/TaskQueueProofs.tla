--------------------------- MODULE TaskQueueProofs ---------------------------
(***************************************************************************)
(* Theorems about TaskQueue, for any number of commands, however many of   *)
(* them overlap and wherever they are killed.                              *)
(***************************************************************************)
EXTENDS TaskQueue, FiniteSetTheorems, TLAPS

Locations == {"unborn", "add", "flush_add", "start", "flush_start", "execute",
              "finish", "flush_finish", "exit", "dead", "torn"}

\* A queue with the status of one task put in.
With(queue, p, s) == [t \in DOMAIN queue \cup {p} |-> IF t = p THEN s ELSE queue[t]]

\* A queue is a function from commands to statuses.
LEMMA QueueIsFunction ==
  ASSUME NEW q \in Queue
  PROVE  DOMAIN q \subseteq Procs /\ q = [t \in DOMAIN q |-> q[t]]
         /\ \A t \in DOMAIN q : q[t] \in Statuses
BY DEF Queue

\* It stays one when a task is added or marked.
LEMMA WithIsQueue ==
  ASSUME NEW q \in Queue, NEW p \in Procs, NEW s \in Statuses
  PROVE  With(q, p, s) \in Queue
<1> DEFINE T == DOMAIN q \cup {p}
<1>1. T \in SUBSET Procs
  BY QueueIsFunction
<1>2. With(q, p, s) \in [T -> Statuses]
  BY QueueIsFunction DEF With
<1>. QED  BY <1>1, <1>2 DEF Queue

\* The empty queue is a queue.
LEMMA EmptyIsQueue == Empty \in Queue /\ DOMAIN Empty = {}
<1>1. Empty \in [{} -> Statuses]
  BY DEF Empty
<1>. QED  BY <1>1 DEF Queue, Empty

\* The order of the statuses.
LEMMA Ranks ==
  /\ Rank["queued"] = 0 /\ Rank["running"] = 1
  /\ \A s \in Final : Rank[s] = 2
  /\ \A s \in Statuses : Rank[s] \in 0 .. 2 /\ (Rank[s] = 2 <=> s \in Final)
BY DEF Rank, Statuses, Final

-----------------------------------------------------------------------------
\* What a process knows of its own task, by where it stands: the task is in its
\* queue from the add on, and its status there is the last one marked.
OwnAt(p) ==
  /\ pc[p] \in {"unborn", "add"} => p \notin DOMAIN tasks[p]
  /\ pc[p] \in Locations \ {"unborn", "add", "dead", "torn"} => p \in DOMAIN tasks[p]
  /\ pc[p] \in {"unborn", "add", "flush_add", "start", "flush_start", "execute"} =>
       verdict[p] = "none"
  /\ pc[p] \in {"flush_add", "start"} => tasks[p][p] = "queued"
  /\ pc[p] \in {"flush_start", "execute", "finish"} => tasks[p][p] = "running"
  /\ pc[p] \in {"finish", "flush_finish"} => verdict[p] \in Final
  /\ pc[p] = "flush_finish" => tasks[p][p] = verdict[p]

Own == \A p \in Procs : OwnAt(p)

\* The inductive invariant of the copies: a copy is behind its owner's, and
\* OwnAt says how far the owner is.
StaleInv == TypeOK /\ Own /\ CopiesStaleAtMost

\* What a mark leaves: the status of one's own task and an emptied file, and
\* nothing of any other process.
Marked(p, to, s) ==
  /\ pc'[p] = to
  /\ pc' \in [Procs -> Locations]
  /\ tasks' \in [Procs -> Queue]
  /\ DOMAIN tasks'[p] = DOMAIN tasks[p] \cup {p}
  /\ tasks'[p][p] = s
  /\ \A t \in DOMAIN tasks[p] \ {p} : tasks'[p][t] = tasks[p][t]
  /\ \A q \in Procs \ {p} : tasks'[q] = tasks[q] /\ pc'[q] = pc[q]
  /\ file' = Empty
  /\ file' \in Queue

LEMMA ChangeEffect ==
  ASSUME TypeOK, NEW p \in Procs, NEW from \in Locations, NEW to \in Locations,
         NEW s \in Statuses, Change(p, from, to, s)
  PROVE  pc[p] = from /\ Marked(p, to, s)
<1>1. With(tasks[p], p, s) \in Queue
  BY WithIsQueue DEF TypeOK
<1>2. tasks' = [tasks EXCEPT ![p] = With(tasks[p], p, s)]
  BY DEF Change, With
<1>3. pc' \in [Procs -> Locations] /\ pc[p] = from /\ pc'[p] = to
      /\ \A q \in Procs \ {p} : pc'[q] = pc[q]
  BY DEF Change, Goto, TypeOK, Locations
<1>4. tasks'[p] = With(tasks[p], p, s) /\ \A q \in Procs \ {p} : tasks'[q] = tasks[q]
  BY <1>2 DEF TypeOK
<1>5. tasks' \in [Procs -> Queue]
  BY <1>1, <1>2 DEF TypeOK
<1>6. file' = Empty /\ file' \in Queue
  BY EmptyIsQueue DEF Change
<1>. QED  BY <1>2, <1>3, <1>4, <1>5, <1>6 DEF With, Marked

\* The end of a write touches no queue.
LEMMA FlushEffect ==
  ASSUME TypeOK, NEW p \in Procs, NEW from, NEW to \in Locations, Flush(p, from, to)
  PROVE  /\ pc[p] = from /\ pc' = [pc EXCEPT ![p] = to] /\ pc' \in [Procs -> Locations]
         /\ file' = tasks[p] \/ (file # Empty /\ file' = Empty)
         /\ file' \in Queue /\ tasks' = tasks /\ verdict' = verdict
BY EmptyIsQueue DEF Flush, Goto, TypeOK, Locations

\* Type correctness, one step.
LEMMA TypeStep ==
  ASSUME TypeOK, Own, Next PROVE TypeOK'
<1>1. overlapped' \in BOOLEAN
  BY DEF Next, Observe, TypeOK
<1>2. PICK p \in Procs : Step(p) \/ Crash(p)
  BY DEF Next
<1>3. CASE Load(p)
  BY <1>1, <1>3 DEF Load, Goto, TypeOK
<1>4. CASE AddTask(p)
  BY <1>1, <1>4, ChangeEffect DEF AddTask, Marked, TypeOK, Locations, Statuses
<1>5. CASE FlushAdd(p)
  BY <1>1, <1>5, FlushEffect DEF FlushAdd, TypeOK, Locations
<1>6. CASE MarkRunning(p)
  BY <1>1, <1>6, ChangeEffect DEF MarkRunning, Marked, TypeOK, Locations, Statuses
<1>7. CASE FlushRunning(p)
  BY <1>1, <1>7, FlushEffect DEF FlushRunning, TypeOK, Locations
<1>8. CASE Execute(p)
  BY <1>1, <1>8 DEF Execute, Goto, TypeOK
<1>9. CASE MarkFinal(p)
  <2>1. pc[p] = "finish"
    BY <1>9 DEF MarkFinal, Change, Goto
  <2>2. verdict[p] \in Statuses
    BY <2>1 DEF Own, OwnAt, Final, Statuses
  <2>3. Marked(p, "flush_finish", verdict[p])
    BY <1>9, <2>2, ChangeEffect DEF MarkFinal, Locations
  <2>. QED  BY <1>1, <1>9, <2>3 DEF MarkFinal, Marked, TypeOK, Locations
<1>10. CASE FlushFinal(p)
  BY <1>1, <1>10, FlushEffect DEF FlushFinal, TypeOK, Locations
<1>11. CASE Crash(p)
  BY <1>1, <1>11 DEF Crash, TypeOK
<1>. QED  BY <1>2, <1>3, <1>4, <1>5, <1>6, <1>7, <1>8, <1>9, <1>10, <1>11 DEF Step

\* OwnAt, one step: the process that moves.
LEMMA OwnMover ==
  ASSUME StaleInv, NEW p \in Procs, Step(p) \/ Crash(p)
  PROVE  OwnAt(p)'
<1>0. TypeOK /\ OwnAt(p)
  BY DEF StaleInv, Own
<1>1. CASE Load(p)
  <2>1. pc[p] = "unborn" /\ pc'[p] = "add" /\ tasks'[p] = file /\ verdict' = verdict
    BY <1>0, <1>1 DEF Load, Goto, TypeOK
  <2>2. p \notin DOMAIN file
    BY <1>0, <2>1 DEF OwnAt, StaleInv, CopiesStaleAtMost, Behind
  <2>3. verdict[p] = "none"
    BY <1>0, <2>1 DEF OwnAt
  <2>4. p \notin DOMAIN tasks'[p]
    BY <2>1, <2>2
  <2>. QED  BY <2>1, <2>3, <2>4 DEF OwnAt, Locations
<1>2. CASE AddTask(p)
  <2>1. pc[p] = "add" /\ Marked(p, "flush_add", "queued") /\ verdict' = verdict
    BY <1>0, <1>2, ChangeEffect DEF AddTask, Locations, Statuses
  <2>2. pc'[p] = "flush_add" /\ tasks'[p][p] = "queued" /\ p \in DOMAIN tasks'[p]
    BY <2>1 DEF Marked
  <2>. QED  BY <1>0, <2>1, <2>2 DEF OwnAt
<1>3. CASE FlushAdd(p)
  <2>1. pc[p] = "flush_add" /\ pc'[p] \in {"exit", "start"} /\ tasks' = tasks
        /\ verdict' = verdict
    BY <1>0, <1>3, FlushEffect DEF FlushAdd, Locations, TypeOK
  <2>. QED  BY <1>0, <2>1 DEF OwnAt, Locations
<1>4. CASE MarkRunning(p)
  <2>1. pc[p] = "start" /\ Marked(p, "flush_start", "running") /\ verdict' = verdict
    BY <1>0, <1>4, ChangeEffect DEF MarkRunning, Locations, Statuses
  <2>2. pc'[p] = "flush_start" /\ tasks'[p][p] = "running" /\ p \in DOMAIN tasks'[p]
    BY <2>1 DEF Marked
  <2>. QED  BY <1>0, <2>1, <2>2 DEF OwnAt
<1>5. CASE FlushRunning(p)
  <2>1. pc[p] = "flush_start" /\ pc'[p] = "execute" /\ tasks' = tasks /\ verdict' = verdict
    BY <1>0, <1>5, FlushEffect DEF FlushRunning, Locations, TypeOK
  <2>. QED  BY <1>0, <2>1 DEF OwnAt, Locations
<1>6. CASE Execute(p)
  <2>1. pc[p] = "execute" /\ pc'[p] = "finish" /\ tasks' = tasks /\ verdict'[p] \in Final
    BY <1>0, <1>6 DEF Execute, Goto, TypeOK
  <2>2. p \in DOMAIN tasks[p] /\ tasks[p][p] = "running"
    BY <1>0, <2>1 DEF OwnAt, Locations
  <2>3. p \in DOMAIN tasks'[p] /\ tasks'[p][p] = "running"
    BY <2>1, <2>2
  <2>. QED  BY <2>1, <2>3 DEF OwnAt, Locations
<1>7. CASE MarkFinal(p)
  <2>1. pc[p] = "finish"
    BY <1>7 DEF MarkFinal, Change, Goto
  <2>2. verdict[p] \in Final /\ verdict[p] \in Statuses
    BY <1>0, <2>1 DEF OwnAt, Final, Statuses
  <2>3. Marked(p, "flush_finish", verdict[p]) /\ verdict' = verdict
    BY <1>0, <1>7, <2>2, ChangeEffect DEF MarkFinal, Locations
  <2>4. pc'[p] = "flush_finish" /\ tasks'[p][p] = verdict'[p] /\ p \in DOMAIN tasks'[p]
    BY <2>3 DEF Marked
  <2>. QED  BY <2>2, <2>3, <2>4 DEF OwnAt, Locations
<1>8. CASE FlushFinal(p)
  <2>1. pc[p] = "flush_finish" /\ pc'[p] = "exit" /\ tasks' = tasks /\ verdict' = verdict
    BY <1>0, <1>8, FlushEffect DEF FlushFinal, Locations, TypeOK
  <2>. QED  BY <1>0, <2>1 DEF OwnAt, Locations
<1>9. CASE Crash(p)
  <2>1. pc'[p] \in {"dead", "torn"}
    BY <1>0, <1>9 DEF Crash, TypeOK
  <2>. QED  BY <2>1 DEF OwnAt, Locations
<1>. QED  BY <1>1, <1>2, <1>3, <1>4, <1>5, <1>6, <1>7, <1>8, <1>9 DEF Step

\* A step of one process leaves the place, the queue and the verdict of the others.
LEMMA OthersKept ==
  ASSUME TypeOK, NEW p \in Procs, Step(p) \/ Crash(p), NEW q \in Procs \ {p}
  PROVE  pc'[q] = pc[q] /\ tasks'[q] = tasks[q] /\ verdict'[q] = verdict[q]
<1>1. CASE Load(p)
  BY <1>1 DEF Load, Goto, TypeOK
<1>2. CASE AddTask(p) \/ MarkRunning(p) \/ MarkFinal(p)
  BY <1>2 DEF AddTask, MarkRunning, MarkFinal, Change, Goto, TypeOK
<1>3. CASE FlushAdd(p) \/ FlushRunning(p) \/ FlushFinal(p)
  BY <1>3 DEF FlushAdd, FlushRunning, FlushFinal, Flush, Goto, TypeOK
<1>4. CASE Execute(p)
  BY <1>4 DEF Execute, Goto, TypeOK
<1>5. CASE Crash(p)
  BY <1>5 DEF Crash, TypeOK
<1>. QED  BY <1>1, <1>2, <1>3, <1>4, <1>5 DEF Step

LEMMA OwnStep == StaleInv /\ Next => Own'
<1> SUFFICES ASSUME StaleInv, Next, NEW q \in Procs PROVE OwnAt(q)'
  BY DEF Own
<1>1. PICK p \in Procs : Step(p) \/ Crash(p)
  BY DEF Next
<1>2. CASE q = p
  BY <1>1, <1>2, OwnMover
<1>3. CASE q # p
  <2>1. OwnAt(q) /\ TypeOK
    BY DEF StaleInv, Own
  <2>2. pc'[q] = pc[q] /\ tasks'[q] = tasks[q] /\ verdict'[q] = verdict[q]
    BY <1>1, <1>3, <2>1, OthersKept
  <2>. QED  BY <2>1, <2>2 DEF OwnAt
<1>. QED  BY <1>2, <1>3

-----------------------------------------------------------------------------
\* The owner of a task moves on: the copies behind it stay behind it, and the
\* queue it has just marked agrees with it.
LEMMA BehindChange ==
  ASSUME StaleInv, NEW p \in Procs, NEW to \in Locations, NEW s \in Statuses,
         Marked(p, to, s), verdict' = verdict,
         p \in DOMAIN tasks[p] => Rank[tasks[p][p]] <= Rank[s],
         s \in Final => s = verdict[p]
  PROVE  CopiesStaleAtMost'
<1>0. TypeOK /\ \A q \in Procs : tasks[q] \in Queue
  BY DEF StaleInv, TypeOK
<1> DEFINE old == tasks[p]
           new == tasks'[p]
<1>1. /\ DOMAIN new = DOMAIN old \cup {p} /\ new[p] = s
      /\ \A t \in DOMAIN old \ {p} : new[t] = old[t]
      /\ \A q \in Procs \ {p} : tasks'[q] = tasks[q]
      /\ file' = Empty
  BY DEF Marked
<1>2. ASSUME NEW q \in Procs, NEW t \in DOMAIN tasks[q]
      PROVE  /\ t \in DOMAIN tasks'[t]
             /\ Rank[tasks[q][t]] <= Rank[tasks'[t][t]]
             /\ tasks[q][t] \in Final => tasks[q][t] = verdict[t]
  <2>1. /\ t \in Procs /\ t \in DOMAIN tasks[t]
        /\ Rank[tasks[q][t]] <= Rank[tasks[t][t]]
        /\ tasks[q][t] \in Final => tasks[q][t] = verdict[t]
    BY <1>0, QueueIsFunction DEF StaleInv, CopiesStaleAtMost, Behind
  <2>2. tasks[q][t] \in Statuses /\ tasks[t][t] \in Statuses
    BY <1>0, <2>1, QueueIsFunction
  <2>3. CASE t # p
    BY <1>1, <2>1, <2>3
  <2>4. CASE t = p
    <3>1. Rank[tasks[q][t]] \in 0 .. 2 /\ Rank[tasks[t][t]] \in 0 .. 2 /\ Rank[s] \in 0 .. 2
      BY <2>2, Ranks
    <3>2. tasks'[t][t] = s /\ t \in DOMAIN tasks'[t]
      BY <1>1, <2>4
    <3>3. Rank[tasks[t][t]] <= Rank[s]
      BY <2>1, <2>4
    <3>. QED  BY <2>1, <3>1, <3>2, <3>3
  <2>. QED  BY <2>3, <2>4
<1>3. Behind(file)'
  BY <1>1, EmptyIsQueue DEF Behind
<1>4. ASSUME NEW q \in Procs PROVE Behind(tasks[q])'
  <2>1. CASE q # p
    <3>1. tasks'[q] = tasks[q]
      BY <1>1, <2>1
    <3>. QED  BY <1>2, <3>1 DEF Behind
  <2>2. CASE q = p
    <3>1. ASSUME NEW t \in DOMAIN new
          PROVE  /\ t \in DOMAIN tasks'[t]
                 /\ Rank[new[t]] <= Rank[tasks'[t][t]]
                 /\ new[t] \in Final => new[t] = verdict[t]
      <4>1. CASE t = p
        <5>1. Rank[s] \in 0 .. 2
          BY Ranks
        <5>. QED  BY <1>1, <4>1, <5>1
      <4>2. CASE t # p
        BY <1>1, <1>2, <4>2
      <4>. QED  BY <4>1, <4>2
    <3>. QED  BY <2>2, <3>1 DEF Behind
  <2>. QED  BY <2>1, <2>2
<1>. QED  BY <1>3, <1>4 DEF CopiesStaleAtMost

\* CopiesStaleAtMost, one step.
LEMMA StaleStep ==
  ASSUME StaleInv, Next PROVE CopiesStaleAtMost'
<1>0. TypeOK /\ Own /\ CopiesStaleAtMost
  BY DEF StaleInv
<1>1. PICK p \in Procs : Step(p) \/ Crash(p)
  BY DEF Next
<1>2. OwnAt(p) /\ file \in Queue /\ \A q \in Procs : tasks[q] \in Queue
  BY <1>0 DEF Own, TypeOK
<1>3. ASSUME tasks' = tasks, verdict' = verdict,
             file' = file \/ file' = Empty \/ file' = tasks[p]
      PROVE  CopiesStaleAtMost'
  <2>1. Behind(file')
    BY <1>0, <1>3, EmptyIsQueue DEF CopiesStaleAtMost, Behind
  <2>. QED  BY <1>0, <1>3, <2>1 DEF CopiesStaleAtMost, Behind
<1>4. CASE Load(p)
  <2>1. pc[p] = "unborn" /\ verdict' = verdict /\ file' = file /\ tasks'[p] = file
        /\ \A q \in Procs \ {p} : tasks'[q] = tasks[q]
    BY <1>0, <1>4 DEF Load, Goto, TypeOK
  <2>2. p \notin DOMAIN tasks[p]
    BY <1>2, <2>1 DEF OwnAt
  <2>3. ASSUME NEW queue \in Queue, Behind(queue), NEW t \in DOMAIN queue
        PROVE  /\ t \in DOMAIN tasks'[t]
               /\ Rank[queue[t]] <= Rank[tasks'[t][t]]
               /\ queue[t] \in Final => queue[t] = verdict[t]
    <3>1. /\ t \in Procs /\ t \in DOMAIN tasks[t]
          /\ Rank[queue[t]] <= Rank[tasks[t][t]]
          /\ queue[t] \in Final => queue[t] = verdict[t]
      BY <2>3, QueueIsFunction DEF Behind
    <3>2. tasks'[t] = tasks[t]
      BY <2>1, <2>2, <3>1
    <3>. QED  BY <3>1, <3>2
  <2>4. Behind(file)'
    BY <1>0, <1>2, <2>1, <2>3 DEF CopiesStaleAtMost, Behind
  <2>5. ASSUME NEW q \in Procs PROVE Behind(tasks[q])'
    <3>1. CASE q = p
      BY <2>1, <2>4, <3>1 DEF Behind
    <3>2. CASE q # p
      BY <1>0, <1>2, <2>1, <2>3, <3>2 DEF CopiesStaleAtMost, Behind
    <3>. QED  BY <3>1, <3>2
  <2>. QED  BY <2>4, <2>5 DEF CopiesStaleAtMost
<1>5. CASE AddTask(p)
  <2>1. Marked(p, "flush_add", "queued") /\ pc[p] = "add" /\ verdict' = verdict
    BY <1>0, <1>5, ChangeEffect DEF AddTask, Locations, Statuses
  <2>2. p \notin DOMAIN tasks[p]
    BY <1>2, <2>1 DEF OwnAt
  <2>. QED  BY <2>1, <2>2, BehindChange DEF Locations, Statuses, Final
<1>6. CASE FlushAdd(p) \/ FlushRunning(p) \/ FlushFinal(p)
  BY <1>3, <1>6 DEF FlushAdd, FlushRunning, FlushFinal, Flush
<1>7. CASE MarkRunning(p)
  <2>1. Marked(p, "flush_start", "running") /\ pc[p] = "start" /\ verdict' = verdict
    BY <1>0, <1>7, ChangeEffect DEF MarkRunning, Locations, Statuses
  <2>2. Rank[tasks[p][p]] <= Rank["running"]
    BY <1>2, <2>1, Ranks DEF OwnAt
  <2>. QED  BY <2>1, <2>2, BehindChange DEF Locations, Statuses, Final
<1>8. CASE Execute(p)
  <2>1. /\ pc[p] = "execute" /\ tasks' = tasks /\ file' = file
        /\ \A q \in Procs \ {p} : verdict'[q] = verdict[q]
    BY <1>0, <1>8 DEF Execute, Goto, TypeOK
  <2>2. ASSUME NEW queue \in Queue, Behind(queue), NEW t \in DOMAIN queue, queue[t] \in Final
        PROVE  queue[t] = verdict'[t]
    <3>1. t \in Procs /\ queue[t] \in Statuses /\ Rank[queue[t]] = 2
      BY <2>2, QueueIsFunction, Ranks
    <3>2. Rank[tasks[p][p]] = 1
      BY <1>2, <2>1, Ranks DEF OwnAt
    <3>3. t # p
      BY <2>2, <3>1, <3>2 DEF Behind
    <3>. QED  BY <2>1, <2>2, <3>1, <3>3 DEF Behind
  <2>3. Behind(file)'
    BY <1>0, <1>2, <2>1, <2>2 DEF CopiesStaleAtMost, Behind
  <2>4. ASSUME NEW q \in Procs PROVE Behind(tasks[q])'
    BY <1>0, <1>2, <2>1, <2>2 DEF CopiesStaleAtMost, Behind
  <2>. QED  BY <2>3, <2>4 DEF CopiesStaleAtMost
<1>9. CASE MarkFinal(p)
  <2>1. pc[p] = "finish" /\ verdict' = verdict
    BY <1>9 DEF MarkFinal, Change, Goto
  <2>2. verdict[p] \in Final /\ verdict[p] \in Statuses /\ tasks[p][p] = "running"
    BY <1>2, <2>1 DEF OwnAt, Final, Statuses
  <2>3. Marked(p, "flush_finish", verdict[p])
    BY <1>0, <1>9, <2>2, ChangeEffect DEF MarkFinal, Locations
  <2>4. Rank[tasks[p][p]] <= Rank[verdict[p]]
    BY <2>2, Ranks
  <2>. QED  BY <2>1, <2>2, <2>3, <2>4, BehindChange DEF Locations
<1>10. CASE Crash(p)
  BY <1>3, <1>10 DEF Crash
<1>. QED  BY <1>1, <1>4, <1>5, <1>6, <1>7, <1>8, <1>9, <1>10 DEF Step

\* The inductive invariant holds.
THEOREM StaleInvariant == Spec => []StaleInv
<1>1. Init => StaleInv
  BY EmptyIsQueue DEF Init, StaleInv, TypeOK, Own, OwnAt, Locations, CopiesStaleAtMost, Behind
<1>2. StaleInv /\ [Next]_vars => StaleInv'
  <2> SUFFICES ASSUME StaleInv, [Next]_vars PROVE StaleInv'
    OBVIOUS
  <2>1. CASE Next
    BY <2>1, TypeStep, OwnStep, StaleStep DEF StaleInv
  <2>2. CASE UNCHANGED vars
    BY <2>2 DEF vars, StaleInv, TypeOK, Own, OwnAt, CopiesStaleAtMost, Behind
  <2>. QED  BY <2>1, <2>2
<1>. QED  BY <1>1, <1>2, PTL DEF Spec

\* Type correctness of the file and of the commands' copies of it (TaskQueue._tasks,
\* tasks.json), for any number of commands.
THEOREM TypeCorrect == Spec => []TypeOK
BY StaleInvariant, PTL DEF StaleInv

\* However many commands overlap and wherever they are killed, a copy of a task
\* is stale at most: never ahead of the command that runs it, and final only with
\* the verdict of its run.
THEOREM CopiesAreStaleAtMost == Spec => []CopiesStaleAtMost
BY StaleInvariant, PTL DEF StaleInv

-----------------------------------------------------------------------------
\* Every command that has ended finds its verdict in the queue, or "queued".
Tells(queue, where, how) ==
  \A t \in DOMAIN queue : where[t] = "exit" =>
    queue[t] = IF how[t] = "none" THEN "queued" ELSE how[t]

\* As long as no two commands have run at a time: one runs at most, it and the
\* file tell the verdicts, and unless a write was torn both have every task whose
\* add returned - the file except during a write, when it is empty.
SoloInv ==
  ~overlapped =>
    /\ \A r, q \in Running : r = q
    /\ Tells(file, pc, verdict)
    /\ \A r \in Running : Tells(tasks[r], pc, verdict)
    /\ Writing # {} => file = Empty
    /\ (\A p \in Procs : pc[p] # "torn") =>
         /\ Writing = {} => acked \subseteq DOMAIN file
         /\ \A r \in Running : acked \subseteq DOMAIN tasks[r]

\* A set of at most one element.
LEMMA AtMostOne ==
  ASSUME NEW S, IsFiniteSet(S), ~(Cardinality(S) > 1), NEW a \in S, NEW b \in S
  PROVE  a = b
<1>1. /\ IsFiniteSet(S \ {a}) /\ Cardinality(S \ {a}) = Cardinality(S) - 1
      /\ Cardinality(S) \in Nat /\ Cardinality(S \ {a}) \in Nat
  BY FS_RemoveElement, FS_CardinalityType
<1>2. Cardinality(S \ {a}) = 0
  BY <1>1
<1>3. S \ {a} = {}
  BY <1>1, <1>2, FS_EmptySet
<1>. QED  BY <1>3

\* With no overlap after the step there was none before, and only the process
\* that moves runs, before or after.
LEMMA Alone ==
  ASSUME StaleInv, SoloInv, TypeOK', Observe, ~overlapped',
         NEW p \in Procs, Step(p) \/ Crash(p)
  PROVE  ~overlapped /\ Running \subseteq {p} /\ Running' \subseteq {p}
<1>0. TypeOK
  BY DEF StaleInv
<1>1. ~overlapped /\ ~(Cardinality(Running') > 1)
  BY DEF Observe
<1>2. IsFiniteSet(Running')
  BY QueueAssumption, FS_Subset DEF Running
<1>3. \A r, q \in Running' : r = q
  BY <1>1, <1>2, AtMostOne
<1>4. \A q \in Procs \ {p} : q \in Running <=> q \in Running'
  BY <1>0, OthersKept DEF Running
<1>5. p \in Running \/ p \in Running'
  <2>1. CASE Load(p)
    BY <1>0, <2>1 DEF Load, Goto, Running, TypeOK
  <2>2. CASE Crash(p)
    BY <2>2 DEF Crash
  <2>3. CASE AddTask(p) \/ FlushAdd(p) \/ MarkRunning(p) \/ FlushRunning(p) \/ Execute(p)
             \/ MarkFinal(p) \/ FlushFinal(p)
    BY <2>3 DEF AddTask, FlushAdd, MarkRunning, FlushRunning, Execute, MarkFinal, FlushFinal,
                Change, Flush, Goto, Running
  <2>. QED  BY <2>1, <2>2, <2>3 DEF Step
<1>6. \A r, q \in Running : r = q
  BY <1>1 DEF SoloInv
<1>7. Running \subseteq Procs /\ Running' \subseteq Procs
  BY DEF Running
<1>. QED  BY <1>1, <1>3, <1>4, <1>5, <1>6, <1>7

\* What a queue tells it still tells after a step of p that does not end p.
LEMMA TellsKept ==
  ASSUME TypeOK, NEW p \in Procs, Step(p) \/ Crash(p), NEW queue \in Queue,
         Tells(queue, pc, verdict), pc'[p] # "exit"
  PROVE  Tells(queue, pc', verdict')
<1> SUFFICES ASSUME NEW t \in DOMAIN queue, pc'[t] = "exit"
             PROVE  queue[t] = IF verdict'[t] = "none" THEN "queued" ELSE verdict'[t]
  BY DEF Tells
<1>1. t \in Procs \ {p}
  BY QueueIsFunction
<1>2. pc'[t] = pc[t] /\ verdict'[t] = verdict[t]
  BY <1>1, OthersKept
<1>. QED  BY <1>2 DEF Tells

\* SoloInv, one step.
LEMMA SoloStep ==
  ASSUME StaleInv, StaleInv', SoloInv, Next PROVE SoloInv'
<1> SUFFICES ASSUME ~overlapped'
             PROVE  /\ \A r, q \in Running' : r = q
                    /\ Tells(file', pc', verdict')
                    /\ \A r \in Running' : Tells(tasks'[r], pc', verdict')
                    /\ Writing' # {} => file' = Empty
                    /\ (\A q \in Procs : pc'[q] # "torn") =>
                         /\ Writing' = {} => acked' \subseteq DOMAIN file'
                         /\ \A r \in Running' : acked' \subseteq DOMAIN tasks'[r]
  BY DEF SoloInv
<1>0. TypeOK /\ TypeOK' /\ Own /\ Observe
  BY DEF StaleInv, Next
<1>1. PICK p \in Procs : Step(p) \/ Crash(p)
  BY DEF Next
<1>2. ~overlapped /\ Running \subseteq {p} /\ Running' \subseteq {p}
  BY <1>0, <1>1, Alone
<1>3. /\ \A r, q \in Running' : r = q
      /\ Writing \subseteq Running /\ Writing' \subseteq Running'
  BY <1>2 DEF Running, Writing
<1>4. /\ Tells(file, pc, verdict)
      /\ \A r \in Running : Tells(tasks[r], pc, verdict)
      /\ Writing # {} => file = Empty
      /\ (\A q \in Procs : pc[q] # "torn") =>
           /\ Writing = {} => acked \subseteq DOMAIN file
           /\ \A r \in Running : acked \subseteq DOMAIN tasks[r]
  BY <1>2 DEF SoloInv
<1>5. OwnAt(p) /\ file \in Queue /\ tasks[p] \in Queue /\ tasks'[p] \in Queue
  BY <1>0 DEF Own, TypeOK
<1>6. Tells(Empty, pc', verdict')
  BY EmptyIsQueue DEF Tells
<1>7. \A q \in Procs \ {p} : pc'[q] = pc[q] /\ verdict'[q] = verdict[q]
  BY <1>0, <1>1, OthersKept
<1>8. ASSUME pc[p] # "torn", \A q \in Procs : pc'[q] # "torn"
      PROVE  \A q \in Procs : pc[q] # "torn"
  BY <1>7, <1>8
<1> DEFINE Good == /\ Tells(file', pc', verdict')
                   /\ \A r \in Running' : Tells(tasks'[r], pc', verdict')
                   /\ Writing' # {} => file' = Empty
                   /\ (\A q \in Procs : pc'[q] # "torn") =>
                        /\ Writing' = {} => acked' \subseteq DOMAIN file'
                        /\ \A r \in Running' : acked' \subseteq DOMAIN tasks'[r]
\* A process marks its task: the file is emptied, its queue keeps what it told.
<1>9. ASSUME NEW to \in {"flush_add", "flush_start", "flush_finish"}, NEW s \in Statuses,
             Marked(p, to, s), verdict' = verdict, acked' = acked,
             pc[p] \in {"add", "start", "finish"}
      PROVE  Good
  <2>1. p \in Running /\ p \in Writing' /\ Running' = {p} /\ pc'[p] # "exit" /\ file' = Empty
    BY <1>2, <1>9 DEF Marked, Running, Writing
  <2>2. Tells(tasks[p], pc', verdict')
    BY <1>0, <1>1, <1>4, <1>5, <2>1, TellsKept
  <2>3. Tells(tasks'[p], pc', verdict')
    BY <1>9, <2>1, <2>2 DEF Marked, Tells
  <2>4. ASSUME \A q \in Procs : pc'[q] # "torn" PROVE acked' \subseteq DOMAIN tasks'[p]
    BY <1>4, <1>8, <1>9, <2>1, <2>4 DEF Marked
  <2>. QED  BY <1>6, <2>1, <2>3, <2>4
\* A process ends a write: the file is its queue, for it was empty before.
<1>10. ASSUME NEW from \in {"flush_add", "flush_start", "flush_finish"},
              NEW to \in {"start", "execute", "exit"}, Flush(p, from, to),
              acked' \in {acked, acked \cup {p}},
              to = "exit" => tasks[p][p] = IF verdict[p] = "none" THEN "queued" ELSE verdict[p]
       PROVE  Good
  <2>1. pc[p] = from /\ pc'[p] = to /\ tasks' = tasks /\ verdict' = verdict
        /\ (file' = tasks[p] \/ (file # Empty /\ file' = Empty))
    BY <1>0, <1>10 DEF Flush, Goto, TypeOK
  <2>2. p \in Running /\ p \in Writing /\ file = Empty
    BY <1>4, <1>10, <2>1 DEF Running, Writing
  <2>3. file' = tasks[p] /\ p \in DOMAIN tasks[p]
    BY <1>5, <1>10, <2>1, <2>2 DEF OwnAt, Locations
  <2>4. Writing' = {}
    BY <1>2, <1>3, <1>10, <2>1 DEF Writing
  <2>5. Tells(tasks[p], pc', verdict')
    <3>1. CASE to = "exit"
      <4> SUFFICES ASSUME NEW t \in DOMAIN tasks[p], pc'[t] = "exit"
                   PROVE  tasks[p][t] = IF verdict[t] = "none" THEN "queued" ELSE verdict[t]
        BY <2>1 DEF Tells
      <4>1. CASE t = p
        BY <1>10, <3>1, <4>1
      <4>2. CASE t # p
        <5>1. t \in Procs /\ pc[t] = "exit"
          BY <1>5, <1>7, <4>2, QueueIsFunction
        <5>. QED  BY <1>4, <2>2, <5>1 DEF Tells
      <4>. QED  BY <4>1, <4>2
    <3>2. CASE to # "exit"
      BY <1>0, <1>1, <1>4, <1>5, <2>1, <2>2, <3>2, TellsKept
    <3>. QED  BY <3>1, <3>2
  <2>6. ASSUME \A q \in Procs : pc'[q] # "torn" PROVE acked' \subseteq DOMAIN tasks[p]
    <3>1. pc[p] # "torn"
      BY <1>10, <2>1
    <3>. QED  BY <1>4, <1>8, <1>10, <2>2, <2>3, <2>6, <3>1
  <2>. QED  BY <1>2, <2>1, <2>3, <2>4, <2>5, <2>6
<1>11. CASE Load(p)
  <2>1. pc[p] = "unborn" /\ pc'[p] = "add" /\ tasks'[p] = file /\ file' = file
        /\ verdict' = verdict /\ acked' = acked
    BY <1>0, <1>11 DEF Load, Goto, TypeOK
  <2>2. Writing = {} /\ Writing' = {} /\ Running' = {p}
    BY <1>2, <1>3, <2>1 DEF Running, Writing
  <2>3. Tells(file, pc', verdict')
    BY <1>0, <1>1, <1>4, <1>5, <2>1, TellsKept
  <2>4. ASSUME \A q \in Procs : pc'[q] # "torn" PROVE acked \subseteq DOMAIN file
    BY <1>4, <1>8, <2>1, <2>2, <2>4
  <2>. QED  BY <1>3, <2>1, <2>2, <2>3, <2>4
<1>12. CASE AddTask(p)
  <2>1. Marked(p, "flush_add", "queued") /\ pc[p] = "add" /\ verdict' = verdict
        /\ acked' = acked
    BY <1>0, <1>12, ChangeEffect DEF AddTask, Locations, Statuses
  <2>. QED  BY <1>3, <1>9, <2>1 DEF Statuses
<1>13. CASE FlushAdd(p)
  <2>1. pc[p] = "flush_add" /\ acked' = acked \cup {p}
        /\ (Flush(p, "flush_add", "exit") \/ Flush(p, "flush_add", "start"))
    BY <1>13 DEF FlushAdd, Flush, Goto
  <2>2. tasks[p][p] = "queued" /\ verdict[p] = "none"
    BY <1>5, <2>1 DEF OwnAt
  <2>. QED  BY <1>3, <1>10, <2>1, <2>2
<1>14. CASE MarkRunning(p)
  <2>1. Marked(p, "flush_start", "running") /\ pc[p] = "start" /\ verdict' = verdict
        /\ acked' = acked
    BY <1>0, <1>14, ChangeEffect DEF MarkRunning, Locations, Statuses
  <2>. QED  BY <1>3, <1>9, <2>1 DEF Statuses
<1>15. CASE FlushRunning(p)
  BY <1>3, <1>10, <1>15 DEF FlushRunning
<1>16. CASE Execute(p)
  <2>1. pc[p] = "execute" /\ pc'[p] = "finish" /\ tasks' = tasks /\ file' = file /\ acked' = acked
    BY <1>0, <1>16 DEF Execute, Goto, TypeOK
  <2>2. p \in Running /\ Writing = {} /\ Writing' = {}
    BY <1>2, <1>3, <2>1 DEF Running, Writing
  <2>3. Tells(file, pc', verdict') /\ Tells(tasks[p], pc', verdict')
    BY <1>0, <1>1, <1>4, <1>5, <2>1, <2>2, TellsKept
  <2>4. ASSUME \A q \in Procs : pc'[q] # "torn"
        PROVE  acked \subseteq DOMAIN file /\ acked \subseteq DOMAIN tasks[p]
    BY <1>4, <1>8, <2>1, <2>2, <2>4
  <2>. QED  BY <1>2, <1>3, <2>1, <2>2, <2>3, <2>4
<1>17. CASE MarkFinal(p)
  <2>1. pc[p] = "finish" /\ verdict' = verdict /\ acked' = acked
    BY <1>17 DEF MarkFinal, Change, Goto
  <2>2. verdict[p] \in Statuses
    BY <1>5, <2>1 DEF OwnAt, Final, Statuses
  <2>3. Marked(p, "flush_finish", verdict[p])
    BY <1>0, <1>17, <2>2, ChangeEffect DEF MarkFinal, Locations
  <2>. QED  BY <1>3, <1>9, <2>1, <2>2, <2>3
<1>18. CASE FlushFinal(p)
  <2>1. pc[p] = "flush_finish" /\ acked' = acked /\ Flush(p, "flush_finish", "exit")
    BY <1>18 DEF FlushFinal, Flush, Goto
  <2>2. tasks[p][p] = verdict[p] /\ verdict[p] # "none"
    BY <1>5, <2>1 DEF OwnAt, Final
  <2>. QED  BY <1>3, <1>10, <2>1, <2>2
\* A killed process runs no more; only one that was writing leaves a torn file.
<1>19. CASE Crash(p)
  <2>1. p \in Running /\ pc'[p] \in {"dead", "torn"} /\ file' = file /\ tasks' = tasks
        /\ acked' = acked /\ verdict' = verdict /\ (p \in Writing => pc'[p] = "torn")
    BY <1>0, <1>19 DEF Crash, TypeOK
  <2>2. Running' = {} /\ Writing' = {}
    BY <1>2, <1>3, <2>1 DEF Running
  <2>3. Tells(file, pc', verdict')
    BY <1>0, <1>1, <1>4, <1>5, <2>1, TellsKept
  <2>4. ASSUME \A q \in Procs : pc'[q] # "torn" PROVE acked \subseteq DOMAIN file
    <3>1. p \notin Writing /\ pc[p] # "torn"
      BY <2>1, <2>4 DEF Running
    <3>2. Writing = {}
      BY <1>2, <1>3, <3>1
    <3>. QED  BY <1>4, <1>8, <2>4, <3>1, <3>2
  <2>. QED  BY <1>3, <2>1, <2>2, <2>3, <2>4
<1>. QED  BY <1>1, <1>11, <1>12, <1>13, <1>14, <1>15, <1>16, <1>17, <1>18, <1>19 DEF Step

\* The inductive invariant of commands that run one after the other.
THEOREM SoloInvariant == Spec => []SoloInv
<1>1. Init => SoloInv
  BY EmptyIsQueue DEF Init, SoloInv, Tells, Running, Writing
<1>2. StaleInv /\ StaleInv' /\ SoloInv /\ [Next]_vars => SoloInv'
  <2> SUFFICES ASSUME StaleInv, StaleInv', SoloInv, [Next]_vars PROVE SoloInv'
    OBVIOUS
  <2>1. CASE Next
    BY <2>1, SoloStep
  <2>2. CASE UNCHANGED vars
    BY <2>2 DEF vars, SoloInv, Tells, Running, Writing
  <2>. QED  BY <2>1, <2>2
<1>. QED  BY <1>1, <1>2, StaleInvariant, PTL DEF Spec

\* "durable task entries": with no two commands at a time and no write torn by a
\* kill, a task whose add returned is in the file whenever it is not being written.
THEOREM AckedIsStored == Spec => []AckedStored
<1>1. SoloInv => AckedStored
  BY DEF SoloInv, AckedStored
<1>. QED  BY <1>1, SoloInvariant, PTL

\* With no two commands at a time, the file tells how each ended command's run
\* ended.
THEOREM VerdictIsStored == Spec => []VerdictStored
<1>1. SoloInv => VerdictStored
  BY DEF SoloInv, VerdictStored, Tells
<1>. QED  BY <1>1, SoloInvariant, PTL

=============================================================================
