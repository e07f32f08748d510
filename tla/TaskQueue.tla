----------------------------- MODULE TaskQueue -----------------------------
(***************************************************************************)
(* The JSON task queue (cli/task_queue.py) as its two clients drive it:    *)
(* "riks task <goal> [--execute]" (cli/main.py, cmd_task) and the MCP tool *)
(* task_execute (mcp/handlers.py).  Each command is one process that       *)
(* reads the file once and from then on rewrites all of it; a process may  *)
(* be killed between any two steps.                                        *)
(***************************************************************************)
EXTENDS Integers, FiniteSets

CONSTANTS
  Procs,        \* the commands of one behaviour, each queueing one task
  AtOnce        \* how many of them may overlap

ASSUME QueueAssumption == IsFiniteSet(Procs) /\ AtOnce \in Nat \ {0}

Statuses == {"queued", "running", "done", "failed", "timeout"}

Final == {"done", "failed", "timeout"}

\* A command's task has a fresh uuid: it is named after the command.  A queue
\* maps the tasks it holds to their status.
Queue == UNION {[T -> Statuses] : T \in SUBSET Procs}

\* A missing file, and one caught between its truncation and its last byte:
\* _load takes both for an empty queue ("start fresh on corruption").
Empty == [t \in {} |-> "queued"]

VARIABLES
  file,    \* what a process that loads tasks.json now would read
  tasks,   \* each process's self._tasks
  pc,      \* where each process stands
  verdict, \* how execute_goal ended, for each process
  acked,   \* the tasks whose add returned, and so was printed or answered
  overlapped  \* history: whether two commands ran at a time

vars == <<file, tasks, pc, verdict, acked, overlapped>>

Init ==
  /\ file = Empty
  /\ tasks = [p \in Procs |-> Empty]
  /\ pc = [p \in Procs |-> "unborn"]
  /\ verdict = [p \in Procs |-> "none"]
  /\ acked = {}
  /\ overlapped = FALSE

Running == {p \in Procs : pc[p] \notin {"unborn", "exit", "dead", "torn"}}

Writing == {p \in Procs : pc[p] \in {"flush_add", "flush_start", "flush_finish"}}

Goto(p, from, to) == pc[p] = from /\ pc' = [pc EXCEPT ![p] = to]

-----------------------------------------------------------------------------
\* Mutated form of Load: the file is not read.
LoadNothing(p) ==
  /\ Cardinality(Running) < AtOnce
  /\ Goto(p, "unborn", "add")
  /\ UNCHANGED <<file, tasks, verdict, acked>>

\* TaskQueue()
Load(p) ==
  /\ Cardinality(Running) < AtOnce
  /\ Goto(p, "unborn", "add")
  /\ tasks' = [tasks EXCEPT ![p] = file]
  /\ UNCHANGED <<file, verdict, acked>>

\* A change of the process's own task, up to the point where write_text has
\* truncated the file ...
Change(p, from, to, status) ==
  /\ Goto(p, from, to)
  /\ tasks' = [tasks EXCEPT ![p] =
                 [t \in DOMAIN tasks[p] \cup {p} |-> IF t = p THEN status ELSE tasks[p][t]]]
  /\ file' = Empty

\* ... and the end of write_text.  Over what another process has written since
\* the truncation, the shorter text leaves the tail of the longer one.
Flush(p, from, to) ==
  /\ Goto(p, from, to)
  /\ file' = tasks[p] \/ (file # Empty /\ file' = Empty)
  /\ UNCHANGED <<tasks, verdict>>

AddTask(p) == Change(p, "add", "flush_add", "queued") /\ UNCHANGED <<verdict, acked>>

\* With --execute and in the MCP tool the command goes on.  Its tenant is the
\* one that add has just written, so the check of cmd_task against it passes.
FlushAdd(p) ==
  /\ Flush(p, "flush_add", "exit") \/ Flush(p, "flush_add", "start")
  /\ acked' = acked \cup {p}

\* Mutated form of MarkRunning: the task is done before it runs.
MarkEarly(p) == Change(p, "start", "flush_start", "done") /\ UNCHANGED <<verdict, acked>>

MarkRunning(p) == Change(p, "start", "flush_start", "running") /\ UNCHANGED <<verdict, acked>>

FlushRunning(p) == Flush(p, "flush_start", "execute") /\ UNCHANGED acked

\* execute_goal returns, times out or raises ToolExecutionError.
Execute(p) ==
  /\ Goto(p, "execute", "finish")
  /\ \E how \in Final : verdict' = [verdict EXCEPT ![p] = how]
  /\ UNCHANGED <<file, tasks, acked>>

\* Mutated form of MarkFinal: every run ends as done.
MarkDone(p) == Change(p, "finish", "flush_finish", "done") /\ UNCHANGED <<verdict, acked>>

MarkFinal(p) == Change(p, "finish", "flush_finish", verdict[p]) /\ UNCHANGED <<verdict, acked>>

FlushFinal(p) == Flush(p, "flush_finish", "exit") /\ UNCHANGED acked

\* The process is killed, perhaps between truncation and write.
Crash(p) ==
  /\ p \in Running
  /\ pc' = [pc EXCEPT ![p] = IF p \in Writing THEN "torn" ELSE "dead"]
  /\ UNCHANGED <<file, tasks, verdict, acked>>

Step(p) ==
  \/ Load(p) \/ AddTask(p) \/ FlushAdd(p) \/ MarkRunning(p) \/ FlushRunning(p)
  \/ Execute(p) \/ MarkFinal(p) \/ FlushFinal(p)

Observe == overlapped' = (overlapped \/ Cardinality(Running') > 1)

Next == (\E p \in Procs : Step(p) \/ Crash(p)) /\ Observe

Spec == Init /\ [][Next]_vars

-----------------------------------------------------------------------------
\* Type invariant of the file and of the processes.
TypeOK ==
  /\ file \in Queue
  /\ tasks \in [Procs -> Queue]
  /\ pc \in [Procs -> {"unborn", "add", "flush_add", "start", "flush_start", "execute",
                       "finish", "flush_finish", "exit", "dead", "torn"}]
  /\ verdict \in [Procs -> Final \cup {"none"}]
  /\ acked \subseteq Procs
  /\ overlapped \in BOOLEAN

Rank == [s \in Statuses |-> CASE s = "queued" -> 0 [] s = "running" -> 1 [] OTHER -> 2]

\* "durable task entries", "append-only": of commands that run one after the
\* other, a task whose add returned is in the file whenever no process is
\* writing it - unless a command was killed inside a write, after which the
\* next command takes the torn file for an empty queue.
AckedStored ==
  (~overlapped /\ Writing = {} /\ \A p \in Procs : pc[p] # "torn") => acked \subseteq DOMAIN file

\* A command that ended left in the file the verdict of its run, or "queued"
\* when it ran nothing, if no other command ran beside it.
VerdictStored ==
  ~overlapped =>
    \A p \in DOMAIN file : pc[p] = "exit" =>
      file[p] = IF verdict[p] = "none" THEN "queued" ELSE verdict[p]

\* Overlap and crashes make copies of a task stale, never wrong: no copy is
\* ahead of the process that runs the task, and a final status is its verdict.
Behind(queue) ==
  \A p \in DOMAIN queue :
    /\ p \in DOMAIN tasks[p]
    /\ Rank[queue[p]] <= Rank[tasks[p][p]]
    /\ queue[p] \in Final => queue[p] = verdict[p]

CopiesStaleAtMost ==
  /\ Behind(file)
  /\ \A p \in Procs : Behind(tasks[p])
=============================================================================
