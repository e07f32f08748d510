---------------------------- MODULE ToolExecutor ----------------------------
(***************************************************************************)
(* execute_goal (tools/executor.py): a goal runs in a worker thread, the   *)
(* caller joins the worker for at most a timeout, and cancellation is      *)
(* cooperative, through one stop event shared by every call of the         *)
(* process.  A worker that outlives its call keeps running.                *)
(***************************************************************************)
EXTENDS Integers, FiniteSets

CONSTANTS
  Calls,    \* the calls of execute_goal made in one behaviour
  Callers   \* how many of them may be in progress at a time

ASSUME ExecutorAssumption == IsFiniteSet(Calls) /\ Callers \in Nat \ {0}

\* A tool may consult the stop event now and then, may be able to finish by
\* itself, and is called with a timeout or with None.
Goals == [polls : BOOLEAN, finishes : BOOLEAN, timeout : BOOLEAN]

VARIABLES
  stop,     \* _stop_event.is_set()
  phase,    \* where each call stands in execute_goal
  goal,     \* what it executes
  alive,    \* the calls whose worker thread is running
  holder,   \* what the worker put in the call's holder
  outcome,  \* how execute_goal ended
  orphans,  \* _orphan_thread_count
  overlapped  \* history: the calls during which another call was in progress

vars == <<stop, phase, goal, alive, holder, outcome, orphans, overlapped>>

NoGoal == [polls |-> FALSE, finishes |-> TRUE, timeout |-> FALSE]

Init ==
  /\ stop = FALSE
  /\ phase = [c \in Calls |-> "unborn"]
  /\ goal = [c \in Calls |-> NoGoal]
  /\ alive = {}
  /\ holder = [c \in Calls |-> "empty"]
  /\ outcome = [c \in Calls |-> "none"]
  /\ orphans = 0
  /\ overlapped = {}

InProgress == {c \in Calls : phase[c] \notin {"unborn", "returned"}}

Enter(c, from, to) == phase[c] = from /\ phase' = [phase EXCEPT ![c] = to]

Return(c, from, how) ==
  /\ Enter(c, from, "returned")
  /\ outcome' = [outcome EXCEPT ![c] = how]

-----------------------------------------------------------------------------
(* The caller                                                              *)

\* Mutated form of Begin: the event keeps the state of the last call.
BeginUncleared(c, g) ==
  /\ Cardinality(InProgress) < Callers
  /\ Enter(c, "unborn", "start")
  /\ goal' = [goal EXCEPT ![c] = g]
  /\ UNCHANGED <<stop, alive, holder, outcome, orphans>>

\* parse_goal found a tool: the stop event is reset for this call ...
Begin(c, g) ==
  /\ Cardinality(InProgress) < Callers
  /\ Enter(c, "unborn", "start")
  /\ goal' = [goal EXCEPT ![c] = g]
  /\ stop' = FALSE
  /\ UNCHANGED <<alive, holder, outcome, orphans>>

\* ... or it raised, before the event was touched.
BadGoal(c) ==
  /\ Cardinality(InProgress) < Callers
  /\ Return(c, "unborn", "error")
  /\ UNCHANGED <<stop, goal, alive, holder, orphans>>

StartWorker(c) ==
  /\ Enter(c, "start", "join")
  /\ alive' = alive \cup {c}
  /\ UNCHANGED <<stop, goal, holder, outcome, orphans>>

\* The join returns in time: the holder's error is raised, or its result is
\* returned, the empty string standing in for a missing one.
Finish(c) ==
  /\ c \notin alive
  /\ Return(c, "join", IF holder[c] = "error" THEN "error" ELSE "done")
  /\ UNCHANGED <<stop, goal, alive, holder, orphans>>

\* The timeout elapses and is_alive() says that the worker still runs.
WindowElapses(c) ==
  /\ goal[c].timeout
  /\ c \in alive
  /\ Enter(c, "join", "signal")
  /\ UNCHANGED <<stop, goal, alive, holder, outcome, orphans>>

\* Mutated form of SignalStop: the event is not set.
SignalNothing(c) ==
  /\ Enter(c, "signal", "grace")
  /\ UNCHANGED <<stop, goal, alive, holder, outcome, orphans>>

SignalStop(c) ==
  /\ Enter(c, "signal", "grace")
  /\ stop' = TRUE
  /\ UNCHANGED <<goal, alive, holder, outcome, orphans>>

\* Mutated forms of GraceOver: the second join has no timeout; a result that
\* arrives in the grace is returned.
GraceUnbounded(c) ==
  /\ c \notin alive
  /\ Return(c, "grace", "timeout")
  /\ UNCHANGED <<stop, goal, alive, holder, orphans>>

GraceAccepts(c) ==
  /\ Return(c, "grace", IF c \in alive THEN "timeout" ELSE "done")
  /\ orphans' = IF c \in alive THEN orphans + 1 ELSE orphans
  /\ UNCHANGED <<stop, goal, alive, holder>>

\* The second join is over, whether the worker ended or the grace did.
GraceOver(c) ==
  /\ Return(c, "grace", "timeout")
  /\ orphans' = IF c \in alive THEN orphans + 1 ELSE orphans
  /\ UNCHANGED <<stop, goal, alive, holder>>

-----------------------------------------------------------------------------
(* The worker                                                              *)

EndWorker(c, found) ==
  /\ c \in alive
  /\ alive' = alive \ {c}
  /\ holder' = [holder EXCEPT ![c] = found]
  /\ UNCHANGED <<stop, phase, goal, outcome, orphans>>

\* The tool returns its result or raises an Exception.
ToolEnds(c) == goal[c].finishes /\ \E found \in {"result", "error"} : EndWorker(c, found)

\* The tool raises SystemExit or another BaseException: _run does not catch
\* it, the thread dies and the holder stays empty.
ToolExits(c) == goal[c].finishes /\ EndWorker(c, "empty")

\* A tool that polls finds the event set and returns what it has.
ToolCancelled(c) == goal[c].polls /\ stop /\ EndWorker(c, "partial")

-----------------------------------------------------------------------------
Caller(c) ==
  \/ StartWorker(c) \/ Finish(c) \/ WindowElapses(c) \/ SignalStop(c) \/ GraceOver(c)

Worker(c) == ToolEnds(c) \/ ToolExits(c) \/ ToolCancelled(c)

Observe ==
  overlapped' = overlapped \cup (IF Cardinality(InProgress') > 1 THEN InProgress' ELSE {})

Next ==
  /\ \E c \in Calls : (\E g \in Goals : Begin(c, g)) \/ BadGoal(c) \/ Caller(c) \/ Worker(c)
  /\ Observe

Spec == Init /\ [][Next]_vars

\* A caller in execute_goal goes on, its two joins being bounded when there is
\* a timeout; a tool that polls looks at the event again and again.  Nothing
\* makes a tool finish by itself, and nobody has to call again.
FairSpec ==
  Spec /\ \A c \in Calls : WF_vars(Caller(c) /\ Observe) /\ WF_vars(ToolCancelled(c) /\ Observe)

-----------------------------------------------------------------------------
\* Type invariant of the calls and of the module-level state they share.
TypeOK ==
  /\ stop \in BOOLEAN
  /\ phase \in [Calls -> {"unborn", "start", "join", "signal", "grace", "returned"}]
  /\ goal \in [Calls -> Goals]
  /\ alive \subseteq Calls
  /\ holder \in [Calls -> {"empty", "result", "partial", "error"}]
  /\ outcome \in [Calls -> {"none", "done", "error", "timeout"}]
  /\ orphans \in Nat
  /\ overlapped \subseteq Calls

\* What a cancelled tool left behind is never reported as a success (execute_goal,
\* task "done").  The event that cancels it is shared: the call is safe from the
\* timeouts of the calls before it, but not of one that runs beside it.
PartialNotDone ==
  \A c \in Calls \ overlapped : outcome[c] = "done" => holder[c] # "partial"

\* "A fresh, cleared event is returned on every execute_goal call": a call that
\* runs by itself does not find it set before its own timeout, whatever earlier
\* calls and their surviving workers did to it.
FreshEvent == \A c \in Calls \ overlapped : phase[c] = "join" => ~stop

\* "A misbehaving tool cannot block the caller indefinitely": a call with a
\* timeout returns.
TimedCallReturns ==
  \A c \in Calls : (phase[c] = "start" /\ goal[c].timeout) ~> (phase[c] = "returned")

\* A worker that polls ends once its call's timeout has elapsed, unless
\* another call begins and resets the event first.
StopReachesWorker ==
  \A c \in Calls :
    (goal[c].polls /\ phase[c] = "signal") ~> (c \notin alive \/ \E d \in Calls : phase[d] = "start")

=============================================================================
