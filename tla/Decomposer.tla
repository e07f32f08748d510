----------------------------- MODULE Decomposer -----------------------------
(***************************************************************************)
(* Task graphs (tasks/decomposer.py): how a graph comes to be, the         *)
(* depth-first search that validates it and the rounds that plan it, two   *)
(* algorithms that never look at each other's answer.  The search is cut   *)
(* into its loop iterations; in a list of dependencies it may meet the     *)
(* members in any order.                                                   *)
(***************************************************************************)
EXTENDS Integers, FiniteSets, Sequences, SequencesExt

CONSTANTS
  N,           \* tasks 1 .. N, in the order of graph.tasks
  Missing,     \* an id that no task has
  Categories   \* what a task's name starts with

VARIABLES
  deps,      \* dependencies of each task
  status,    \* PENDING, RUNNING or DONE
  at,        \* where the decomposer stands
  visited,   \* has_cycle: visited ...
  recStack,  \* ... rec_stack ...
  frames,    \* ... and the recursive calls, innermost first
  verdict,   \* what validate_graph answered
  plan,      \* the plan so far
  completed, \* plan_execution's own set of planned ids
  round      \* its iteration

search == <<visited, recStack, frames, verdict>>
rounds == <<plan, completed, round>>
vars == <<deps, status, at, search, rounds>>

Tasks == 1 .. N

Init ==
  /\ deps = [t \in Tasks |-> {}]
  /\ status = [t \in Tasks |-> "PENDING"]
  /\ at = "empty"
  /\ visited = {} /\ recStack = {} /\ frames = <<>> /\ verdict = "none"
  /\ plan = <<>> /\ completed = {} /\ round = 0

\* infer_dependencies: each task waits for the one before it in its category.
Inferred(category) ==
  [t \in Tasks |->
    LET before == {s \in 1 .. t - 1 : category[s] = category[t]}
    IN  {s \in before : \A u \in before : u <= s}]

\* decompose, by pattern or by model: the extracted tasks name no dependencies.
Decompose(category) ==
  /\ at = "empty"
  /\ deps' = Inferred(category)
  /\ at' = "idle"
  /\ UNCHANGED <<status, search, rounds>>

\* A graph that the caller puts together.
Assemble(graph) ==
  /\ at = "empty"
  /\ deps' = graph
  /\ at' = "idle"
  /\ UNCHANGED <<status, search, rounds>>

-----------------------------------------------------------------------------
(* validate_graph: it reads no status, so a caller validates before planning. *)

Validate ==
  /\ at = "idle" /\ verdict = "none" /\ round = 0
  /\ at' = "validating"
  /\ UNCHANGED <<deps, status, search, rounds>>

\* A dependency that names no task is visited too, and has none of its own.
Open(id) ==
  /\ visited' = visited \cup {id}
  /\ recStack' = recStack \cup {id}
  /\ frames' = <<[id |-> id, todo |-> IF id \in Tasks THEN deps[id] ELSE {}]>> \o frames

\* has_cycle from the next task, in the order of the list, that no search has met.
NextRoot ==
  /\ at = "validating" /\ frames = <<>>
  /\ \E t \in Tasks \ visited : 1 .. t - 1 \subseteq visited /\ Open(t)
  /\ UNCHANGED <<deps, status, at, verdict, rounds>>

Descend ==
  /\ at = "validating" /\ frames # <<>>
  /\ \E d \in Head(frames).todo \ visited : Open(d)
  /\ UNCHANGED <<deps, status, at, verdict, rounds>>

PassOver ==
  /\ at = "validating" /\ frames # <<>>
  /\ \E d \in Head(frames).todo \cap visited :
       /\ d \notin recStack
       /\ frames' = [frames EXCEPT ![1].todo = @ \ {d}]
  /\ UNCHANGED <<deps, status, at, visited, recStack, verdict, rounds>>

CycleFound ==
  /\ at = "validating" /\ frames # <<>>
  /\ Head(frames).todo \cap recStack # {}
  /\ verdict' = "cycle"
  /\ at' = "idle"
  /\ UNCHANGED <<deps, status, visited, recStack, frames, rounds>>

\* Mutated form of Return: the id stays on the recursion stack.
ReturnMarked ==
  /\ at = "validating" /\ frames # <<>> /\ Head(frames).todo = {}
  /\ frames' = Tail(frames)
  /\ UNCHANGED <<deps, status, at, visited, recStack, verdict, rounds>>

Return ==
  /\ at = "validating" /\ frames # <<>> /\ Head(frames).todo = {}
  /\ recStack' = recStack \ {Head(frames).id}
  /\ frames' = Tail(frames)
  /\ UNCHANGED <<deps, status, at, visited, verdict, rounds>>

CheckMissing ==
  /\ at = "validating" /\ frames = <<>> /\ Tasks \subseteq visited
  /\ verdict' = IF \E t \in Tasks : ~ deps[t] \subseteq Tasks THEN "missing" ELSE "valid"
  /\ at' = "idle"
  /\ UNCHANGED <<deps, status, visited, recStack, frames, rounds>>

-----------------------------------------------------------------------------
(* plan_execution, alone or inside execute                                 *)

StartPlan(caller) ==
  /\ at = "idle" /\ round = 0
  /\ at' = caller
  /\ completed' = {}
  /\ UNCHANGED <<deps, status, search, plan, round>>

Planning == at \in {"planning", "executing"}

CanExecute(t) == deps[t] \subseteq completed
Ready == {t \in Tasks : status[t] = "PENDING" /\ CanExecute(t)}

\* The tasks in the order of graph.tasks.
InOrder(tasks) ==
  CHOOSE s \in [1 .. Cardinality(tasks) -> tasks] :
    \A i, j \in DOMAIN s : i < j => s[i] < s[j]

PlanRound ==
  /\ Planning /\ round < N + 1 /\ Ready # {}
  /\ plan' = plan \o InOrder(Ready)
  /\ status' = [t \in Tasks |-> IF t \in Ready THEN "RUNNING" ELSE status[t]]
  /\ completed' = completed \cup Ready
  /\ round' = round + 1
  /\ UNCHANGED <<deps, at, search>>

\* execute marks what is running as done: it runs nothing yet.
PlanEnds ==
  /\ Planning /\ (round = N + 1 \/ Ready = {})
  /\ status' = [t \in Tasks |-> IF at = "executing" /\ status[t] = "RUNNING"
                                  THEN "DONE" ELSE status[t]]
  /\ at' = "planned"
  /\ UNCHANGED <<deps, search, rounds>>

Graphs == [Tasks -> SUBSET (Tasks \cup {Missing})]

Next ==
  \/ at = "empty" /\ \E c \in [Tasks -> Categories] : Decompose(c)
  \/ at = "empty" /\ \E g \in Graphs : Assemble(g)
  \/ Validate \/ NextRoot \/ Descend \/ PassOver \/ CycleFound \/ Return \/ CheckMissing
  \/ StartPlan("planning") \/ StartPlan("executing") \/ PlanRound \/ PlanEnds

-----------------------------------------------------------------------------
\* The verdict of validate_graph foretells what plan_execution does with the
\* graph: a valid one is planned to the last task, any other leaves tasks out;
\* and in a plan each task comes after everything it depends on.
VerdictForetellsPlan ==
  /\ at = "planned" /\ verdict # "none" =>
       (verdict = "valid" <=> ToSet(plan) = Tasks)
  /\ \A i \in DOMAIN plan : deps[plan[i]] \subseteq {plan[j] : j \in 1 .. i - 1}

=============================================================================
