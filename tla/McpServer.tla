------------------------------ MODULE McpServer ------------------------------
(***************************************************************************)
(* The stdio loop of mcp/server.py, which reads a line, answers it and     *)
(* reads the next, and the one tool of handlers.py that takes time and     *)
(* leaves something behind: task_execute.  A line is its number, whether   *)
(* it has an id, and what dispatch finds in it.                            *)
(***************************************************************************)
EXTENDS Integers, Sequences, FiniteSets

CONSTANT MaxLines  \* bound on the lines of a behaviour

VARIABLES
  loop,     \* where the server stands
  lines,    \* what it has read
  replies,  \* what it has written
  tasks,    \* the dict of the task queue of the call under way
  stored,   \* tasks.json
  cut,      \* history: the lines under way when the process ended
  wiped     \* history: a write of tasks.json ended after its truncation

vars == <<loop, lines, replies, tasks, stored, cut, wiped>>

Null == 0
Now == Len(lines)

Init ==
  /\ loop = "reading" /\ lines = <<>> /\ replies = <<>>
  /\ tasks = <<>> /\ stored = <<>>
  /\ cut = {} /\ wiped = FALSE

\* A JsonRpcError ("invalid", "failed") is answered with or without an id, with
\* null for one that is not there; a result and an unexpected exception
\* ("raised") only with one.
Answers(line, id, outcome) ==
  IF ~line.hasId /\ outcome \notin {"invalid", "failed"}
    THEN <<>>
    ELSE <<[id |-> IF line.hasId THEN id ELSE Null, outcome |-> outcome]>>

Read(line) ==
  /\ loop = "reading" /\ Now < MaxLines
  /\ lines' = Append(lines, line)

\* Everything but task_execute: its answer follows at once.  "invalid" stands
\* for text that is not JSON or not JSON-RPC 2.0, an unknown method or tool, a
\* missing parameter, and a tenant or a value that a tool refuses; "raised" for
\* parameters of another shape and stores that fail.
Dispatch(hasId, outcome) ==
  LET line == [hasId |-> hasId, task |-> FALSE] IN
    /\ Read(line)
    /\ replies' = replies \o Answers(line, Now + 1, outcome)
    /\ UNCHANGED <<loop, tasks, stored, cut, wiped>>

\* A line that is not UTF-8: readline raises, and nothing catches it.
Undecodable ==
  /\ Read([hasId |-> FALSE, task |-> FALSE])
  /\ loop' = "down"
  /\ UNCHANGED <<replies, tasks, stored, cut, wiped>>

EndOfInput ==
  /\ loop = "reading" /\ loop' = "down"
  /\ UNCHANGED <<lines, replies, tasks, stored, cut, wiped>>

-----------------------------------------------------------------------------
(* task_execute *)

Reply(outcome) ==
  /\ loop' = "reading"
  /\ replies' = replies \o Answers(lines[Now], Now, outcome)

OpenQueue(hasId) ==
  /\ Read([hasId |-> hasId, task |-> TRUE])
  /\ loop' = "adding"
  /\ tasks' = stored
  /\ UNCHANGED <<replies, stored, cut, wiped>>

Save(status) ==
  /\ tasks' = [n \in DOMAIN tasks \cup {Now} |-> IF n = Now THEN status ELSE tasks[n]]
  /\ stored' = tasks'

AddTask ==
  /\ loop = "adding" /\ loop' = "marking"
  /\ Save("queued")
  /\ UNCHANGED <<lines, replies, cut, wiped>>

MarkRunning ==
  /\ loop = "marking" /\ loop' = "executing"
  /\ Save("running")
  /\ UNCHANGED <<lines, replies, cut, wiped>>

\* Mutated form of SaveVerdict: what timed out is not written.
SaveVerdictUntimed(verdict) ==
  /\ loop = "executing" /\ loop' = "replying"
  /\ tasks' = [tasks EXCEPT ![Now] = verdict]
  /\ stored' = IF verdict = "timeout" THEN stored ELSE tasks'
  /\ UNCHANGED <<lines, replies, cut, wiped>>

\* execute_goal returned or raised ToolExecutionError.
SaveVerdict(verdict) ==
  /\ loop = "executing" /\ loop' = "replying"
  /\ Save(verdict)
  /\ UNCHANGED <<lines, replies, cut, wiped>>

Finish ==
  /\ loop = "replying"
  /\ Reply(tasks[Now])
  /\ UNCHANGED <<lines, tasks, stored, cut, wiped>>

\* It raised something else: no thread could be started.
ExecuteRaises ==
  /\ loop = "executing"
  /\ Reply("raised")
  /\ UNCHANGED <<lines, tasks, stored, cut, wiped>>

\* A write fails before it has truncated the file, or after: the next _load
\* starts fresh on what it finds then.
WriteEnds(wipes) ==
  /\ stored' = IF wipes THEN <<>> ELSE stored
  /\ wiped' = (wiped \/ wipes)

Saving == {"adding", "marking", "executing"}

SaveFails(wipes) ==
  /\ loop \in Saving
  /\ WriteEnds(wipes)
  /\ Reply("raised")
  /\ UNCHANGED <<lines, tasks, cut>>

Kill(wipes) ==
  /\ loop # "down" /\ loop' = "down"
  /\ wipes => loop \in Saving
  /\ cut' = IF loop = "reading" THEN cut ELSE cut \cup {Now}
  /\ WriteEnds(wipes)
  /\ UNCHANGED <<lines, replies, tasks>>

\* The client starts the server again, and counts its requests on.
Start ==
  /\ loop = "down" /\ loop' = "reading"
  /\ UNCHANGED <<lines, replies, tasks, stored, cut, wiped>>

Verdicts == {"done", "timeout", "failed"}

Next ==
  \/ \E hasId \in BOOLEAN :
       \/ \E outcome \in {"result", "void", "invalid", "raised"} : Dispatch(hasId, outcome)
       \/ OpenQueue(hasId)
  \/ Undecodable \/ EndOfInput
  \/ AddTask \/ MarkRunning \/ ExecuteRaises \/ Finish \/ \E v \in Verdicts : SaveVerdict(v)
  \/ \E wipes \in BOOLEAN : SaveFails(wipes) \/ Kill(wipes)
  \/ Start

-----------------------------------------------------------------------------
AnswersTo(n) == {i \in DOMAIN replies : replies[i].id = n}

\* A client can rely on what it is told (mcp/server.py main, dispatch;
\* handlers.py task_execute): every request with an id that did not end the
\* process has one answer, in the order of the requests; a task has the status
\* its answer names as long as no write of the queue was cut short, and another
\* only if it was not answered or answered with an internal error.
RepliesTrue ==
  /\ \A i, j \in DOMAIN replies :
       i < j /\ Null \notin {replies[i].id, replies[j].id} => replies[i].id < replies[j].id
  /\ loop = "reading" =>
       \A n \in DOMAIN lines :
         lines[n].hasId => Cardinality(AnswersTo(n)) = IF n \in cut THEN 0 ELSE 1
  /\ \A i \in DOMAIN replies :
       replies[i].outcome \in Verdicts /\ replies[i].id # Null =>
         IF replies[i].id \in DOMAIN stored
           THEN stored[replies[i].id] = replies[i].outcome
           ELSE wiped
  /\ loop = "reading" =>
       \A n \in DOMAIN stored :
         n \in cut \/ stored[n] \in Verdicts
           \/ \A i \in AnswersTo(n) : replies[i].outcome = "raised"

=============================================================================
