------------------------------ MODULE MCLibrary ------------------------------
(***************************************************************************)
(* The parts that share no state with one another, each checked from its   *)
(* own initial states: a behaviour is a behaviour of one of them, its      *)
(* subject, and the others stay where they begin.                          *)
(***************************************************************************)
EXTENDS RateLimiter

CONSTANTS
  N, Missing, TaskCategories,           \* Decomposer
  Entities, MaxRels, MaxDepth,          \* KnowledgeGraph
  Categories, Severities, FailedTasks, MaxReport, MaxCalls,  \* Reflection
  MaxVersion, Keep, Retries, MaxTime,   \* Backups, StartupGate
  Chats, Sizes, MaxMessages, MaxTokens, \* ChatFlow
  MaxLines, Names                       \* McpServer, ToolSchemas

ASSUME LibraryAssumption ==
  /\ Keep \in Int /\ N \in Nat /\ IsFiniteSet(Entities)
  /\ MaxMessages \in Nat \ {0} /\ MaxTokens \in Int

VARIABLES
  subject,
  deps, status, at, seen, recStack, frames, validated, plan, completed, round,
  entities, relationships, entityTable, relationshipTable,
  search, visited, queue, results, answered,
  lessons, mistakes, file, report, saving, reported, calls,
  content, version, writer,
  time, snapshots, backup, complete,
  mcp, loaded, disturbed,
  window, phase, block,
  loop, lines, replies, tasks, stored, cut, wiped,
  tool, written, call, asked

Tasking ==
  INSTANCE Decomposer
    WITH Categories <- TaskCategories, visited <- seen, verdict <- validated
Graph == INSTANCE KnowledgeGraph
Lessons == INSTANCE Reflection
Backup == INSTANCE Backups
Gate == INSTANCE StartupGate
Chat == INSTANCE ChatFlow
Stdio == INSTANCE McpServer
Schema == INSTANCE ToolSchemas

tasking == <<deps, status, at, seen, recStack, frames, validated, plan, completed, round>>
knowledge == <<entities, relationships, entityTable, relationshipTable,
               search, visited, queue, results, answered>>
reflection == <<lessons, mistakes, file, report, saving, reported, calls>>
directory == <<content, version, writer>>
backups == <<time, snapshots, backup, complete>>
gate == <<mcp, loaded, disturbed>>
chat == <<window, phase, block>>
stdio == <<loop, lines, replies, tasks, stored, cut, wiped>>
tools == <<tool, written, call, asked>>

LibraryVars == <<subject, limiter, tasking, knowledge, reflection, directory, backups, gate,
                 chat, stdio, tools>>

LibraryInit ==
  /\ subject \in {"limiter", "tasks", "graph", "lessons", "backups", "gate", "chat", "stdio", "tools"}
  /\ LimiterInit /\ Tasking!Init /\ Graph!Init /\ Lessons!Init /\ Backup!Init /\ Gate!Init /\ Chat!Init
  /\ Stdio!Init /\ Schema!Init

LibraryNext ==
  /\ UNCHANGED subject
  /\ \/ /\ subject = "limiter" /\ LimiterNext
        /\ UNCHANGED <<tasking, knowledge, reflection, directory, backups, gate, chat, stdio, tools>>
     \/ /\ subject = "tasks" /\ Tasking!Next
        /\ UNCHANGED <<limiter, knowledge, reflection, directory, backups, gate, chat, stdio, tools>>
     \/ /\ subject = "graph" /\ Graph!Next
        /\ UNCHANGED <<limiter, tasking, reflection, directory, backups, gate, chat, stdio, tools>>
     \/ /\ subject = "lessons" /\ Lessons!Next
        /\ UNCHANGED <<limiter, tasking, knowledge, directory, backups, gate, chat, stdio, tools>>
     \/ /\ subject = "backups" /\ Backup!Next
        /\ UNCHANGED <<limiter, tasking, knowledge, reflection, gate, chat, stdio, tools>>
     \/ /\ subject = "gate" /\ Gate!Next
        /\ UNCHANGED <<limiter, tasking, knowledge, reflection, backups, chat, stdio, tools>>
     \/ /\ subject = "chat" /\ Chat!Next
        /\ UNCHANGED <<limiter, tasking, knowledge, reflection, directory, backups, gate, stdio, tools>>
     \/ /\ subject = "stdio" /\ Stdio!Next
        /\ UNCHANGED <<limiter, tasking, knowledge, reflection, directory, backups, gate, chat, tools>>
     \/ /\ subject = "tools" /\ Schema!Next
        /\ UNCHANGED <<limiter, tasking, knowledge, reflection, directory, backups, gate, chat, stdio>>

LibrarySpec == LibraryInit /\ [][LibraryNext]_LibraryVars

-----------------------------------------------------------------------------
\* validate_graph foretells what plan_execution does with a graph, and a plan
\* respects every dependency.
VerdictForetellsPlan == Tasking!VerdictForetellsPlan

\* expand returns what is within its depth, once each; find_path a shortest
\* path, or none exactly when there is none.
SearchesExact == Graph!SearchesExact

\* No lesson's return is counted without its mistake, in memory or in a file.
RepeatsCounted == Lessons!RepeatsCounted

\* A backup that succeeded is whole until Keep newer ones are there.
CompleteKept == Backup!CompleteKept

\* The MCP server takes no torn queue for an empty one.
FreshStartExplained == Gate!FreshStartExplained

\* A chat is given the question of every chat answered before it began, if the
\* block has room.
AnsweredRemembered == Chat!AnsweredRemembered

\* Every request of the MCP server has its one answer, and a task the status
\* that its answer names.
RepliesTrue == Stdio!RepliesTrue

\* Tools and calls keep their meaning through the providers' formats.
MeaningKept == Schema!MeaningKept

=============================================================================
