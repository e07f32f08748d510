# riks-context-engine: TLA+ models and proofs

Specifications of the stateful parts of `riks_context_engine`, model-checked with
TLC, and theorems about them checked with TLAPS. Every definition that stands for
code is tied to its source lines by `map` in `PROJECT.json`. Paths below are
relative to `src/src/riks_context_engine/` unless they start with `docs/`,
`README.md`, `scripts/` or `tests/`.

## 1. The system

A Python process (FastAPI server, MCP stdio server or CLI) keeps, per tenant, a
context window in memory and three memory stores on disk. The middlewares and the
WebSocket streamer of the HTTP server run on its event loop, its endpoints on a
thread pool; the MCP server and the CLI are sequential. Several processes may be
started on the same data directory.

| Component | State | Hard behaviour | What makes it correct | Module |
|---|---|---|---|---|
| Context window (`context/manager.py`) | message list, `is_pruned` flags, statistics | no lock: every statement boundary is a switch point between request threads | protected messages stay; the budget is restored; alone, an add prunes just what it must | ContextWindow, AtomicWindow, ContextRefinement |
| Summarizer (`context/summarizer.py`) | acts on the window | reads the window, waits for a model, writes the window | the summary survives; nothing protected is lost | ContextWindow |
| Chat context (`chat_context.py`) | the window | read, model call, write, in parallel chats | an answered question is remembered | ChatFlow |
| Task executor (`tools/executor.py`) | one module-level stop event, a thread per call | timeout against a late answer; one event for all calls; threads that outlive calls | a timed call returns; partial results are not successes; the stop arrives | ToolExecutor |
| Task queue (`cli/task_queue.py`, `cli/main.py`, `mcp/handlers.py`) | a JSON file, a list per process | overlapping processes, kills inside `write_text` | no acknowledged task is lost; statuses are the verdicts | TaskQueue |
| MCP server (`mcp/server.py`, `mcp/handlers.py`) | the stdio loop, the task queue | errors on each level, failed saves, kills | one true answer per request | McpServer, StartupGate |
| Episodic and procedural memory (`memory/episodic.py`, `procedural.py`) | dict per process, JSON file, lock file | copy before lock; failed writes; several processes | what was reported is on disk and stays there | JsonStore |
| Semantic memory (`memory/semantic.py`) | a SQLite table, a connection per thread | implicit transactions, the write lock, read-modify-write of counts | stored rows stay; no lock is left behind | SemanticStore |
| Export and import (`memory/export.py`) | the three stores | delete-all then add, one store after the other | an import that returns has taken effect | MemoryImport |
| Tier manager (`memory/tier_manager.py`) | access counter; two stores | moves in two steps with a crash in between; scanning counts as access | no entry is lost or multiplied; cycles end | Tiering |
| HTTP pipeline (`api/server.py`) | middlewares, rate-limit table | order of the middlewares; whole-second Retry-After | limits hold in every window | HttpRequests, RateLimiter |
| WebSocket streamer (`api/server.py`) | client tables | disconnect during a broadcast | who is there is served, who is gone is forgotten | WsStreamer |
| Audit log (`api/audit_log.py`) | log per tenant, file | threads and loop on one log; torn files | answered requests are in a log that opens, and stay | HttpRequests |
| Task decomposer (`tasks/decomposer.py`) | a graph | cycles and missing ids; two algorithms on one graph | the validation foretells the plan | Decomposer |
| Knowledge graph (`graph/knowledge_graph.py`) | dicts and tables | depth bounds, entities missing from the dict | searches agree with a definition | KnowledgeGraph |
| Reflection (`reflection/analyzer.py`) | lessons, mistake counts, file | colliding ids, saves inside a loop | counts agree; reported lessons are stored | Reflection |
| Tool formats (`abstractions/tool_calling.py`) | none beside the definition | chains of providers | meaning is kept | ToolSchemas |
| Integrity, backup (`integrity.py`, `scripts/backup.py`) | files, snapshots | another process writes meanwhile; retries; rotation | a good snapshot is kept; no torn queue is taken for an empty one | DataFiles, Backups, StartupGate |
| PostgreSQL store, tenant registries, telemetry, embeddings | see section 6 | | | not modelled |

Interactions: the endpoints call the tenant's window and memories from pool
threads (shared state, no lock but the JSON stores' file lock and SQLite's); the
tier manager and the import call the stores; chat calls window, memories and
model; both middlewares and handlers write the audit log; CLI and MCP share the
task queue's file and the executor; the MCP server checks the data files before it
opens them; the summarizer writes into the window that called it.

`PROJECT.json` lists every component with its status, and under `hazards` the
places where this code can go wrong in ways a unit test hardly reaches, with the
properties that watch each of them.

## 2. The modules

Each module names its abstractions where they are made. The step granularity is
the point: an action is one stretch of code within which no other actor's step can
change the outcome, and everything such a stretch does is in that one action.

Several modules carry **history variables** (`overlapped`, `mixed`, `met`, `raced`,
`hurt`, `broke`, ...), named as such where they are declared; no guard reads them.
With them one state space holds both the behaviours the documentation allows (one
writer, one thread) and those it does not, and a property can say exactly which
overlap of calls or which fault it needs to be absent.

**ContextWindow** (`MCContextWindow` for TLC). A message object is its position in
`attr`; the list `self.messages` is a set of positions, since nothing reorders it. A
thread in a method is at a `pc` location: `add` appends; `_update_stats` reads
the list twice
(`ListActive`, `SumTokens`) and stores (`WriteStats`); `_prune_if_needed` tests
(`CheckBudget`, `TestLoop`), chooses (`PickVictim`, `GiveUp`), marks (`MarkVictim`)
and counts (`Tally`), then updates the statistics again. A message's text is its
token count; importance is in hundredths; `pruning_score` is scaled to integers.
`_auto_save` is absent: a manager of the server has no `storage_path`. The
summarizer collects its candidates in one step (`CollectTier3`, one read of the
list) and applies the answer later (`ApplySummary`, `ApplyNoSignal`); its model call
is a free choice between a summary and `[no signal]`. Not in it: `prune_before`,
`load`, `_auto_save`, `validate_coherence`, which only the CLI's process uses.

**AtomicWindow** is what a caller who is alone expects: each method one step, and
an add that prunes at once a set (`Victims`) defined from the window only - the
candidates before which, in the order of the score, too much is left.
**ContextRefinement** maps one to the other: while a thread is on its way from the
append to the end of the loop, `Settled` counts as pruned what the loop has still
to prune. Once calls have overlapped the abstract window promises nothing.

**ToolExecutor**. A call goes through begin, start, join, signal, grace and return;
the worker ends with a result, an exception, an exit, or what it had when it saw
the stop event. The two timed joins are the choice between `Finish` and
`WindowElapses`, and `GraceOver` at any time. A goal is what matters of it: whether
it polls the event, can end by itself, and has a timeout.

**TaskQueue**. One process per command. A write is two steps, because `write_text`
truncates before it writes and `_load` takes a truncated file for an empty queue;
over a file that another process wrote meanwhile, the text may be torn. Ids are
fresh (uuid). Kills anywhere.

**McpServer**. Lines are read, dispatched and answered one at a time. `Dispatch`
stands for every tool but `task_execute` and for every way a line can be refused;
`Answers` is the table of who is answered, with which id. `task_execute` opens the
queue (`OpenQueue`), adds, marks, runs, stores the verdict (`SaveVerdict`) and answers
(`Finish`); a save may fail, before or after the file was truncated (`SaveFails`), or the
process be killed at any of these steps.

**JsonStore** (`MCJsonStore`). The dict per process, the file, the file lock. A call is
change of the dict, copy of the dict, wait for the lock, replacement of the file,
return. `told` is what callers know of each id. `CopyFails` is the RuntimeError of a
dict resized under iteration. `LockTimeout`, `WriteFails` and `Crash` are the error
paths. Ids are given, so colliding microsecond ids are out; the change of the dict
is one step, so the check-then-delete window between two threads is out;
`os.replace` is atomic, and power loss is out.

**SemanticStore** gives SQLite's behaviour as operators: what a connection sees, when
a write is refused, what a commit publishes, that a statement that raises leaves
the transaction it opened. **MemoryImport** (`MCMemoryImport`) extends it with the calls that use it -
`get` (select, update, commit), `add`, `delete`, and the import through three tiers,
failing at any of them - each as its statements. A thread between its statement
and its commit is assumed to be scheduled within the busy timeout of 10 s, unless
its call has ended: then it never is, and `LockedOut` is the timeout of the others.

**Tiering**. `auto_tier` as the steps between which the process may be killed:
look, add to one store, delete from the other. The text of a demoted row is its object,
or subject and predicate if it has none: `Triples` are the facts told with an object,
`partial` the entries that have no more of theirs. `disk` is the episodic file, `epi` its
dict; a failed save leaves them different. Scans take entries in any order; counts
saturate where no threshold tells them apart; `record_access` starts a cycle now
and then instead of at every tenth access.

**WsStreamer**. A coroutine step lasts from one suspending await to the next.
Nothing suspends inside the streamer's lock, which is thus never waited for. A
broadcast chooses its targets (`Broadcast`), then each `_send` runs as a task
(`StartSend`, `SkipSend`, `SpoilSend`, `SendEnds`, `SendFails`) while handlers go on
reading, answering (or failing to, `MessageSpoils`) and closing.

**HttpRequests** (`MCHttpRequests`). The request passes audit, tenant, key and rate limit in the order
in which Starlette runs them, then its handler. A `record` is append, truncation
and write under the log's lock, on the loop or on a pool thread; the loop does
nothing else while it writes (`LoopFree`). Saves may be refused, fail or be cut by a
kill; a log that does not load is started anew, and one whose file cannot be opened
(`OpenRaises`) takes no entry. **RateLimiter** has the window that
decides: check and record are two critical sections, but the middleware has no
await between them.

**ChatFlow** composes chats with a window of which it only assumes what
ContextWindowProofs proves: an add may prune anything unprotected. A context block
is a set of positions in the window: the loop that drops the oldest message while
the block is over budget keeps exactly the messages from which on it fits.

**Decomposer, KnowledgeGraph, Reflection.** Algorithms by loop iteration, over every
graph or report of the bounded size: the recursive cycle search and the planning
rounds of the decomposer; the two breadth-first searches, over dict and tables
with restarts; the analysis that adds, merges and saves lessons one by one, with
kills. Which tasks or lessons a text gives is a free choice. The references that
the properties compare with are not recursive, so that they can be reasoned about:
`Ball` is what walks of a length reach, `Returns` the set of a lesson's returns.

**DataFiles** is the data directory while another process writes it, in place for
`tasks.json` and `audit.json`. **Backups** copies, verifies, retries and rotates beside
it: `CopyFails` writes nothing, `CopyCorrupt` leaves what SQLite then finds corrupt where
an earlier run of the same second may have had a good copy. **StartupGate** has the
two predicates of the MCP server: `Problems` is what the start-up check refuses, `Loads`
what the first call makes of a file; `Foreign` content passes the one and not the
other, and comes from whoever replaces a damaged file (`Restore`).

**ToolSchemas**. A JSON object is a function from its keys. `Render` and `Import` are
the providers' formats, `Hop` a passage through one, `Relay` the same for calls. A
parameter's `default` is written and never rendered. `Only`
and `Over` stand for TLC's `:>` and `@@`, which the provers do not know.

**MCLibrary** gathers the parts that share no state with one another. A behaviour
belongs to one of them, its `subject`; the rest stay as they begin.

**ContextWindowProofs, TaskQueueProofs, JsonStoreProofs, TieringProofs,
HttpRequestsProofs, ToolExecutorProofs, MemoryImportProofs** hold the theorems of one
component each, the first also the refinement; **LibraryProofs** those of the rate
limiter, the WebSocket streamer and the parts of MCLibrary.

## 3. The runs

| Run | Instance | What it shows |
|---|---|---|
| ContextSafety | 2 threads, 3 messages, 3 kinds (TIER_0, grounding, neither), budget 1 | every interleaving of add, propagate, clear, reset and summarization |
| ContextReturns | 2 threads, 2 messages, 3 kinds, budget 1, fair | the pruning loop ends, also when the other thread adds and marks; a thread that is alone implements AtomicWindow |
| ContextVictimOrder | 1 thread, 2 messages | **violated**: the important message is pruned first |
| ExecutorCalls | 2 calls, both may run at once, fair | sequential and overlapping calls, with threads that outlive them |
| QueueCommands | 3 commands, 2 at a time, kills | what is guaranteed to commands in turn, and what is left of it when they overlap |
| JsonStores | 2 server threads, 1 MCP thread, 2 ids, faults | the file lock's guarantee, and the reports under a single writer |
| TieringCycles | 2 facts, 7 ids, thresholds 1 and 2, 1 fault, fair | moves lose nothing, end, and leave nothing cold |
| WsStream | 2 clients, 2 broadcasts, fair | the registry under every order of sends, answers and departures; every target is served, dead peers are dropped |
| HttpRequests | 3 requests, a tenant and nobody, 1 kill | audit log in memory and on disk |
| MemoryImports | 2 threads, 2 ids, 5 calls, 1 kill | imports beside other calls, with failures anywhere |
| Library | nine parts, see below | one or two properties for each |
| ReflectionOverwrites | 1 task, 2 categories, 4 calls | **violated**: a reported lesson is not stored |

The properties, each with its comment in its module:

- `ProtectedKept`: TIER_0 messages are never pruned; grounding messages only by a summarizer.
- `BudgetRestored`: when no thread has a test ahead of it, the window fits or holds only protected messages.
- `StatsExact`: as long as calls have not overlapped (and no summarizer is registered), the statistics are those of the list.
- `ImplementsAtomicWindow`: see above; `CallsReturn`.
- `SummaryKept`: a summary leaves the window only as a victim of the pruning loop, or with a pass that had chosen its message before the summary was stored (`late`).
- `PartialNotDone`, `FreshEvent` (for calls that ran alone, whatever threads earlier calls left behind), `TimedCallReturns`, `StopReachesWorker`.
- `AckedStored`, `VerdictStored` (commands in turn), `CopiesStaleAtMost` (any overlap, any kill).
- `SavedWhenReturning`, `ReportsHold`, `LockInUse`.
- `NoFactLost`: what a fact was told by (text, row without object; of a row with one, the object) is on disk at every moment. `OneCopy`, `NoneColdAfter`, `CycleEnds`.
- `GoneLeavesNothing`: the streamer's tables keep nothing of a client whose handler has ended. `OnlyLossUnregisters`: a client that is there is unregistered only by a payload that does not serialize, a broadcast's or that of the answer to its own message. `EveryTargetServed`, `DeadPeersLeave`.
- `AnsweredAudited`: an answered request is in the log of its tenant, unless that log could not be opened when the request was to be recorded. `AckedKept`: an entry whose `record` returned survives a restart, unless a kill found its file cut short.
- `StoredKept`, `ImportTakesEffect`, `CountsExactAlone`; `OnlyFailedInsertsLock`: only a thread whose INSERT failed holds the write lock between calls, and without one nobody keeps a transaction or is refused the lock.
- `WindowHonoured`, `RetrySuffices`: no interval as long as the window holds more than the limit; who waits a second more than Retry-After is admitted or was overtaken.
- `VerdictForetellsPlan`: validation and planning agree on every graph, and a plan respects dependencies. `SearchesExact`: both searches against a reference. `RepeatsCounted`: no lesson's return without its mistake, in memory or in a file a kill leaves.
- `CompleteKept`: a backup that reported success is whole until `Keep` newer ones exist, unless a later run of the same second copied a corrupt database over its own. `FreshStartExplained`: the MCP server starts with less than the queue in the file only if that was empty or of another shape when it was checked, or written since.
- `AnsweredRemembered`: a chat is shown the question of every chat answered before it began, if it fits a block.
- `RepliesTrue`: one answer per request, in order, and a stored task has the status its answer names.
- `MeaningKept`: parameters, types, values, required names and calls survive every chain of providers, and nothing is said that was not written; defaults are excepted, which no format says.

Each of them is broken by at least one small mutation of the model, listed under
`mutants`: a form of a mapped definition that a plausible mistake in the code
would give. The mutated operators stand just before the definition they mutate.

**Bounds.** Two threads are the fewest that interleave; the races in question are
between one thread's read and another's write. Three messages give a victim, a
message that stays and a protected one, and a second victim in one loop, with
budget 1 so that almost every add prunes; two, in ContextReturns, leave two
candidates to choose between. Two ids let one call remove what another
adds while a third party writes; three threads cover two in a process and one
outside. Three commands let a task be lost by an overlap of two and then be looked
for by a third. Two executor calls give a worker that outlives its call into the
next one, and two that overlap. Two facts and seven ids leave fresh ids for two
moves and the extra copy of one fault. Two clients and two broadcasts let a failing
send of one meet the other's, and a client's own answer. Three requests give a
record under way, one waiting and one after a restart. Five calls of two threads
are two overlapping imports with a call before, between and after. Four requests
in a window of 5 ticks with a limit of 2 give a refusal, a retry and an admission
at the boundary; 3 tasks with every dependency set, a missing id included, give
all cycles; 3 entities and depth 2 put a target inside, at and past the depth
bound; 3 chats make one begin after one answered while a third is under way; 3
lines put a request before and after one that fails; two names and a chain of any
length (the states repeat) cover the formats. The bounds in guards are `MaxMessages`
(ContextWindow), `MaxIds`, `MaxFaults`, `MaxCalls`, `Kills`, `Horizon`, `MaxRels`,
`MaxDepth`, `MaxReport`, `MaxVersion`, `MaxTime` and `MaxLines`; `Keep`, `Retries`,
ChatFlow's `MaxMessages` and `MaxTokens` are settings of the code. Deadlock is not
checked where calls, commands, requests or clients are used up: ExecutorCalls,
QueueCommands, WsStream, HttpRequests, MemoryImports, Library, ReflectionOverwrites.

**Fairness.** `WF(Advance)`: the interpreter goes on running a runnable thread; the
model client has a timeout of 30 s. `WF(Caller)`: the two joins of a call with a
timeout are bounded. `WF(ToolCancelled)`: a polling tool polls again. `WF(Cycle)`: a
cycle that has begun is one running thread. WsStreamer: `WF` on accepting and
answering and on each `_send` task, since the loop runs what is scheduled and a
transport drains or closes; `SF` on closing for a peer that has left, which had
finitely many messages on their way. Nothing makes a tool finish, a caller
call again, a client send or leave, or a killed process restart.

## 4. Where code and documentation differ

Shown by runs of their own (under `findings`):

1. ContextVictimOrder, `context/manager.py:47`: the score is the negated importance
   and the sort is ascending, so the most important candidate is pruned first.
   README.md:75: "Removes low-importance content first".
2. ReflectionOverwrites, `reflection/analyzer.py:416`: lesson ids are positions in one
   analysis, so the next analysis replaces stored lessons.

Shown by adding the named property to the named configuration (also under
`findings`, without a run):

3. `ReportsHoldInProcess` (JsonStores.cfg), `memory/episodic.py:71`: the entries are
   copied before the lock is taken, so of two concurrent saves the older copy may
   be written last. The single-writer rule of docs/ARCHITECTURE.md excludes it; the
   import endpoint does not obey it.
4. `ColdDemoted` (TieringCycles.cfg), `memory/tier_manager.py:112`: the scan's own `get`
   counts as an access before the count is compared, so `demote_threshold = 1`
   demotes nothing. docs/API.md:322.
5. `EveryRequestAudited` (HttpRequests.cfg), `api/audit_log.py:3`: a request whose
   handler raises is not recorded (`api/server.py:209`), nor one whose log cannot be
   opened: `record_request` swallows what `_load` lets escape (audit_log.py:274).
6. `MergeSkipsDuplicates` (MemoryImports.cfg), `memory/export.py:278`: the ids are read
   once, before the inserts; an id that another call stores meanwhile fails the
   import instead of being skipped (`api/server.py:1069`).
7. `CheckedIsWhole` (StartupGate, under the constants of Library.cfg), `integrity.py:79` against
   `cli/task_queue.py:47`: the check parses bytes, the queue wants text that holds tasks of
   this version and otherwise starts fresh. A file of another shape, or with a byte
   order mark, is "OK" (docs/BACKUP_RESTORE.md:40) and its tasks are gone.

Met while modelling; guards of the properties mark most of them:

- `clear` leaves `stats.pruning_count` alone (manager.py:315 "reset pruning stats").
- The summarizer selects by tier only and prunes grounding messages of TIER_3
  (docs/ARCHITECTURE.md:259 "never pruned"): the `summarizer` in `ProtectedKept`.
- Two overlapping passes of the summarizer may choose the same messages; the second
  then prunes the message that holds the summary of the first, and with it all that
  was kept of its block (summarizer.py:218-252): `late` in `SummaryKept`.
- Two overlapping adds may leave a stale `active_messages_count`, or prune twice
  for one overrun: `overlapped` in `StatsExact` and AtomicWindow's `Overlap`.
- The stop event is shared (executor.py:65 "a fresh, cleared event"): a call clears
  the stop that an earlier call's slow poller has not seen (the second alternative
  of `StopReachesWorker`), and one caller's timeout stops another's tool
  (`overlapped` in `PartialNotDone` and `FreshEvent`).
- A tool that raises SystemExit is reported as done with an empty result
  (executor.py:191 catches Exception only).
- Overlapping commands overwrite each other's tasks, and a kill inside `write_text`
  loses the queue at the next add (task_queue.py:1 "durable"): the guards of
  `AckedStored`.
- A demotion keeps of a row with an object the object alone; its subject and
  predicate are deleted with the row (tier_manager.py:124): `Triples` in `NoFactLost`.
- An entry promoted by a cycle may be demoted by the same cycle; no code reads
  `max_episodic`.
- An INSERT that fails leaves its transaction open until the thread's next commit
  (semantic.py:127), with the write lock when a constraint failed (an id that is
  there, a null in a manifest): `broke` in `OnlyFailedInsertsLock`. A thread left so
  may read an outdated snapshot, and its import skip what is gone: the exception in
  `ImportTakesEffect`.
- `unsubscribe` stores the value that stands for every session (server.py:504, 510).
- A payload that does not serialize unregisters clients that are there and stay
  connected (server.py:629-635): all targets of a broadcast, or the sender of a
  message whose lone surrogate the answer repeats: `spoiled` in `OnlyLossUnregisters`.
- The comments on the middlewares' order (server.py:200, 868-870) read the order of
  `add_middleware` the wrong way round.
- A notification that is refused is answered, with a null id (mcp/server.py:148,
  against 175-176), and a line that is not UTF-8 ends the loop (mcp/server.py:205).
- `semantic_write` stores in the tenant's database, `semantic_query` reads the shared
  one (mcp/handlers.py:161, 123).
- A parameter's `default` is in no provider's format (tool_calling.py:43, 47-87): the last
  conjunct of `SameParameter`, and the exception in `MeaningKept`.
- A property without a type becomes a "string" (tool_calling.py:229); top-level
  keywords of a schema are lost at the second hop; calls without an id all become
  "call_0" in OpenAI's format, and Anthropic's rendering drops ids.
- `integrity_check` is asked of a copy that already stands in the directory, and stays
  there if it fails (scripts/backup.py:61-65): a second run in one second may spoil
  the first one's backup. `CopyCorrupt`, and the exception in `CompleteKept`.
- Between the start-up check and the first call another process may write the files
  (mcp/server.py:258): `disturbed` in `FreshStartExplained`.
- Adding an entity again, with the same type and name, leaves the vector of its old
  properties in the cache (graph/knowledge_graph.py:416), which the ranking goes on using.
- A JSON file cut inside a multibyte character raises UnicodeDecodeError past the
  integrity check's own handler instead of being reported.

## 5. What is proved

Every safety invariant and action property of the passing runs is a theorem, for
every value of the constants that satisfies the module's assumptions (types of the
constants; finite sets; thread ids distinct from `Free`; ranks that identify ids;
a positive `MaxMessages` for a context block). No theorem bounds threads, messages,
processes, ids, facts, commands, clients, requests, tasks, entities, lines, versions
or faults. A type invariant (`TypeCorrect`, `LimiterTypeCorrect`, `StreamTypeCorrect`) is
proved with them; where none is listed, the invariant named here contains the types.

**Context window.** `ProtectedNeverPruned`: `ProtectedKept` alone is not inductive, a
thread marks later what it chose earlier. The invariant adds `ChoicesHold`: the
victim a thread holds is unprotected, the block it holds has no TIER_0 message. It
is kept because propagation neither creates nor removes protection
(`ProtectionStable`), which is why the code needs no second test at the mark.
`BudgetAlwaysRestored`: inductive given `TypeOK`; only `Add` enlarges the window, and it
leaves its thread with a test ahead (`BudgetAntitone`). `StatsAlwaysExact` adds
`Measured`: a thread that is alone stores what it measured, and every way back to a
caller leads through such a store. `SummariesKept` rests on `SummarizedLate`: of the
messages that a pass holds, those with a summary by now received it while the pass
waited for the model, so a pass that began later holds none.
`AtomicWindowImplemented`: every step maps to a step of AtomicWindow or to none. `Solo`
says that without overlap one thread is in a method and what it found is still
true. `VictimSplits` is the heart: the victims of a window are the first candidate
and the victims of the window without it, so marking one leaves `Settled` as it was;
`NoneWhenFits` and `NoneWhenProtected` end the loop.

**Executor.** `PartialNeverDone`, `EventFresh`. The event and the orphan threads are shared by
all calls; `Clear` keeps the event clear for a call that runs by itself until its own
timeout, `Cancelled` says that its worker has a partial result only after that, and
`Noted` that two calls in progress are both on record, so that a call which is not
has nobody to set the event.

**Task queue.** `CopiesAreStaleAtMost`, `AckedIsStored`, `VerdictIsStored`. `Own` says how far
each command is with its own task; with it a copy that is loaded, changed or
written stays behind its owner's (`BehindChange`). The two about commands in turn
rest on `SoloInv`: one command runs at most (`Alone`), it and the file tell the ended
commands' verdicts, and the file is empty during a write, so that the write's end
cannot be torn.

**Stores.** `ReportTrueOnReturn`, `LockNeverLeftBehind`: the invariant is `Shape`,
`LockOwned` (a thread at the file holds the lock), `Apart` (two calls at a time in a
process are on record) and `Carried` (a call's change is in the dict, then in its
copy, then in the file). `SingleWriterKeepsReports` adds `Agreed`: dict, copy and file
agree with every report.

**Tiering.** `FactsSurvive`: `NoFactLost` is not inductive, the next save drops entries of
the file that the dict lacks. The invariant states it over `Firm`, the table
together with the entries both in dict and file, that only facts of `Triples` are cut,
and adds `Moving`: during a move
the copy exists before the original goes. `CycleLeavesNoneCold` adds `Passed`: the rows
that the second scan is through with are warm. `MovesAreMoves` needs that, while nothing
fails, dict and file agree and each fact has one entry, a second only during its move.

**Imports.** `NothingStoredIsLost`, `ImportEffective`, `LockOnlyAfterFailedInsert`,
`AloneCountsExactly` rest on one invariant. `Exclusive` and `Changed` say what each
open transaction is about to publish: at most one thread writes, its view is the
table with its own change, so a commit never takes back what another published.
`Clean`: without a failed INSERT a transaction lasts from its statement to its commit,
and only who had one holds the lock outside of that.
`Halfway` carries `ImportTakesEffect` through an import's steps, `Counting` the count that
a `get` read to its write.

**HTTP.** `AnsweredIsAudited`, `AckedIsKept`: `Kept` relates file, memory and registry: a
torn file has its log in memory or was found by a kill, so no log is ever loaded
from one that was only torn by a failed save. `Recorded`: from the append on, the
entry is in the log that the registry has; a request that found no log is `missed`. `WindowIsHonoured`: the pruned log still
has every admission of the current window (`LogExact`). `WaitingIsEnough` adds that of
the admissions that a refused request met one leaves the window in the time that it
was told (`LeavesInTime`). `GoneIsForgotten` and `StaysRegistered` are inductive given
the types: sends that outlive a handler only ever remove, and only the handler
itself registers.

**Chat.** `AnswersRemembered`: no question is ever pruned (`ChatInv`), a message from
which on the window fits is among the recent ones and survives the trimming
(`RoomForAll`). The sizes of messages are left open: nothing rests on how tokens add up.

**MCP server.** `RepliesAlwaysTrue`: `UnderWay` says that the request under way is the
last line read, that nobody answered it yet, and that the queue in memory is the one
in the file, with the verdict in it before it is told (`VerdictWritten`); `AnsweredOrCut`
gives each earlier line its one answer or its cut, `VerdictsKept` and `StatusAnswered`
relate answers and file.

**Backups.** `BackupsKept`: every completed backup is whole (`Intact`) or has at least
`Keep` newer ones (`Superseded`); rotation keeps that so, since the newest
one it drops has `Keep` newer ones that stay (`RotationKeeps`). `NoneNewer` carries a run to its end: the copies that it made
are no older than what was whole when it began, and that is never newer than what is
whole now.

**Start-up check.** `TornNeverFresh`: from the check until the server stops, the file is
not torn unless somebody wrote it, and what the load drops is empty or of another shape.

**Planning.** `ValidationForetells`: a set is `Founded` if every part of it has a member
that depends on nobody of the part: no cycle, said without paths. The depth-first
search keeps `Founded(Finished)` and `FinishedClosed`, and its stack is a path
(`SearchStack`), so a back edge closes a `Circle`. The rounds plan nobody of a circle
and leave nobody who could run (`PlanSound`); counted by cardinalities they end
before the bound on them does.

**Graph searches.** `SearchesAlwaysExact`: the queue holds two distances at most, the
nearer first (`QueueOrdered`). `Level(k)`: while ids at distance k are taken, everything
within k is visited, what is visited lies within k + 1, what is farther than k
waits, and whoever waits no more has shown its neighbours. When the queue is used
up or beyond the depth, the visited set is the ball of that radius (`BallClosed`);
the target of a path, when it is first seen, is outside the ball of k and inside
that of k + 1 (`SearchArrives`).

**Lessons.** `RepeatsAlwaysCounted`: merging, adding and saving never give a lesson more
returns than its category has mistakes, in memory or in the file (`Counted`).

**Tool formats.** `MeaningAlwaysKept`: a definition renders to schemas that show what was
written, for the providers and for custom tools alike (`Shown`), and importing a
schema that shows it gives such a definition again (`PropertyKept`, `ImportShows`), so
the length of the chain does not matter.

Only model-checked: liveness (`CallsReturn`, `TimedCallReturns`, `StopReachesWorker`,
`CycleEnds`, `EveryTargetServed`, `DeadPeersLeave`), since fairness and ENABLED are outside
what the provers do. The two violated properties are counterexamples, which TLC finds.

## 6. Not modelled

- The PostgreSQL store: the interface of the SQLite store on one shared connection
  in autocommit mode; a call is one statement, or in `get` two whose lost counts
  SemanticStore shows already.
- The tenant registries: get-or-create in one critical section; nothing can come
  between its steps.
- Telemetry, embeddings, memory base types: output, calls to a service, data.
- `prune_before`, `load`, `_auto_save`, `validate_coherence` of the window and the context
  commands of the CLI: one thread, one process, load, change, save.
- Export formats, query ranking, `get_relevant_lessons`, the scores of semantic search:
  they read only, and what is similar to what is the embedding service's answer.
- Texts: goal parsing, task extraction, summary prompts, keyword tables; each is a
  free choice among its outcomes.

Left for later: the CLI's saved window beside a second command; an abstract
specification for the stores (a map with atomic calls) with JsonStore shown to
implement it under a single writer.
