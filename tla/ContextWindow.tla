--------------------------- MODULE ContextWindow ---------------------------
(***************************************************************************)
(* ContextWindowManager (context/manager.py) with its SemanticSummarizer   *)
(* (context/summarizer.py): one manager object shared by the threads that  *)
(* serve the HTTP requests of a tenant.  No method takes a lock, so a      *)
(* method is the sequence of steps between which CPython may switch to     *)
(* another thread.                                                         *)
(*                                                                         *)
(* A message object is its position in attr; the list self.messages keeps  *)
(* the objects in the order they were appended, so it is the set of their  *)
(* positions.  Its text is abstracted to the number of tokens that         *)
(* _estimate_tokens returns for it, its importance to hundredths.          *)
(***************************************************************************)
EXTENDS Integers, FiniteSets, Sequences

CONSTANTS
  Threads,      \* the worker threads that call the manager
  Kinds,        \* the messages a caller may add
  MaxContent,   \* no message holds more tokens than this
  Usable,       \* usable_tokens: max_tokens less the two buffers of 512
  MinMessages,  \* min_messages of the summarizer
  MaxMessages   \* bound: messages added in one behaviour

Tiers == 0..3

Kind == [tokens : 0..MaxContent, importance : 0..100,
         grounding : BOOLEAN, tier : Tiers]

ASSUME ContextAssumption ==
  /\ Kinds \subseteq Kind
  /\ MaxContent \in Nat
  /\ Usable \in Int
  /\ MinMessages \in Nat
  /\ MaxMessages \in Nat

VARIABLES
  attr,        \* every message object constructed so far
  messages,    \* the objects in self.messages
  pruned,      \* the objects whose is_pruned is set
  summarized,  \* the objects that carry a summary attribute
  stats,       \* self.stats
  events,      \* self._total_pruning_events
  pc,          \* where each thread stands in the method it runs
  local,       \* the local variables of that method
  summarizer,  \* whether set_summarizer was called
  overlapped,  \* history: a thread made a step while another was in a method
  late         \* history: the messages whose summary was stored when another
               \* pass had chosen them already

vars == <<attr, messages, pruned, summarized, stats, events, pc, local, summarizer,
          overlapped, late>>

NoStats == [current |-> 0, count |-> 0, active |-> 0, pruning |-> 0]

NoLocal == [victim |-> 0, marked |-> 0, tokens |-> 0, active |-> 0, block |-> {}]

-----------------------------------------------------------------------------
(* What the methods compute from the message list                          *)

Active == {m \in messages : m \notin pruned}

\* One element per token of an active message: the sum that
\* get_active_tokens takes is the size of this set.
TokenSlots == {s \in (1..Len(attr)) \X (1..MaxContent) :
                 s[1] \in Active /\ s[2] <= attr[s[1]].tokens}

ActiveTokens == Cardinality(TokenSlots)

\* needs_pruning: tokens_remaining() < 0
OverBudget == ActiveTokens > Usable

Protected(m) == attr[m].grounding \/ attr[m].tier = 0

\* pruning_score, scaled by 1000.  _inherited_importance is absent: the only
\* method that sets it gives importance the same value.
Score(m) == -(1000 * attr[m].importance) - attr[m].tokens

\* Mutated form of Candidates: should_preserve is not asked.
AnyCandidates == Active

Candidates == {m \in Active : ~Protected(m)}

\* Mutated form of IsVictim: of equal candidates the newest.
IsNewestVictim(v) ==
  /\ v \in Candidates
  /\ \A n \in Candidates : Score(v) < Score(n) \/ (Score(v) = Score(n) /\ v >= n)

\* candidates.sort is stable and ascending; the victim is candidates[0].
IsVictim(v) ==
  /\ v \in Candidates
  /\ \A n \in Candidates : Score(v) < Score(n) \/ (Score(v) = Score(n) /\ v <= n)

\* Mutated form of Tier3: whether a message holds a summary is not asked.
Tier3Again == {m \in Active : attr[m].tier >= 3}

Tier3 == {m \in Active : attr[m].tier >= 3 /\ m \notin summarized}

-----------------------------------------------------------------------------
Init ==
  /\ attr = <<>>
  /\ messages = {}
  /\ pruned = {}
  /\ summarized = {}
  /\ stats = NoStats
  /\ events = 0
  /\ pc = [t \in Threads |-> "idle"]
  /\ local = [t \in Threads |-> NoLocal]
  /\ summarizer = FALSE
  /\ overlapped = FALSE
  /\ late = {}

Goto(t, from, to) == pc[t] = from /\ pc' = [pc EXCEPT ![t] = to]

\* add: construct the message and append it
Add(t, k) ==
  /\ Len(attr) < MaxMessages
  /\ Goto(t, "idle", "count")
  /\ attr' = Append(attr, k)
  /\ messages' = messages \cup {Len(attr) + 1}
  /\ UNCHANGED <<pruned, summarized, stats, events, local, summarizer>>

\* _update_stats (count: called by add; recount: by _prune_if_needed and by
\* clear) lists the active messages, ...
ListActive(t) ==
  /\ Goto(t, "count", "sum") \/ Goto(t, "recount", "resum")
  /\ local' = [local EXCEPT ![t].active = Cardinality(Active)]
  /\ UNCHANGED <<attr, messages, pruned, summarized, stats, events, summarizer>>

\* ... goes through the list again for their tokens, ...
SumTokens(t) ==
  /\ Goto(t, "sum", "publish") \/ Goto(t, "resum", "republish")
  /\ local' = [local EXCEPT ![t].tokens = ActiveTokens]
  /\ UNCHANGED <<attr, messages, pruned, summarized, stats, events, summarizer>>

\* ... and stores what it read.
WriteStats(t) ==
  /\ Goto(t, "publish", "check") \/ Goto(t, "republish", "idle")
  /\ stats' = [stats EXCEPT !.current = local[t].tokens,
                            !.count = Cardinality(messages),
                            !.active = local[t].active]
  /\ local' = [local EXCEPT ![t].tokens = 0, ![t].active = 0]
  /\ UNCHANGED <<attr, messages, pruned, summarized, events, summarizer>>

\* Mutated form of CheckBudget: the cached count is tested.
CheckCachedBudget(t) ==
  /\ IF stats.current > Usable THEN Goto(t, "check", "loop") ELSE Goto(t, "check", "idle")
  /\ UNCHANGED <<attr, messages, pruned, summarized, stats, events, local, summarizer>>

\* _prune_if_needed: the early return, and the loop's condition
CheckBudget(t) ==
  /\ IF OverBudget THEN Goto(t, "check", "loop") ELSE Goto(t, "check", "idle")
  /\ UNCHANGED <<attr, messages, pruned, summarized, stats, events, local, summarizer>>

TestLoop(t) ==
  /\ IF OverBudget /\ messages # {} THEN Goto(t, "loop", "pick") ELSE Goto(t, "loop", "tally")
  /\ UNCHANGED <<attr, messages, pruned, summarized, stats, events, local, summarizer>>

PickVictim(t) ==
  /\ Goto(t, "pick", "mark")
  /\ \E v \in Candidates : IsVictim(v) /\ local' = [local EXCEPT ![t].victim = v]
  /\ UNCHANGED <<attr, messages, pruned, summarized, stats, events, summarizer>>

\* Mutated form of GiveUp: the break is missing.
TryAgain(t) ==
  /\ Candidates = {}
  /\ Goto(t, "pick", "loop")
  /\ UNCHANGED <<attr, messages, pruned, summarized, stats, events, local, summarizer>>

\* all that is left is protected: break
GiveUp(t) ==
  /\ Candidates = {}
  /\ Goto(t, "pick", "tally")
  /\ UNCHANGED <<attr, messages, pruned, summarized, stats, events, local, summarizer>>

MarkVictim(t) ==
  /\ Goto(t, "mark", "loop")
  /\ pruned' = pruned \cup {local[t].victim}
  /\ local' = [local EXCEPT ![t].victim = 0, ![t].marked = @ + 1]
  /\ UNCHANGED <<attr, messages, summarized, stats, events, summarizer>>

Tally(t) ==
  /\ Goto(t, "tally", "recount")
  /\ events' = events + 1
  /\ stats' = [stats EXCEPT !.pruning = @ + local[t].marked]
  /\ local' = [local EXCEPT ![t].marked = 0]
  /\ UNCHANGED <<attr, messages, pruned, summarized, summarizer>>

\* propagate_priority of m, whose parent_id the caller has set to p
Propagate(t, m, p) ==
  /\ pc[t] = "idle"
  /\ attr[p].tier > 0
  /\ attr[p].importance > attr[m].importance
  /\ attr' = [attr EXCEPT ![m].importance = attr[p].importance,
                          ![m].tier = IF @ <= attr[p].tier THEN @ ELSE attr[p].tier]
  /\ UNCHANGED <<messages, pruned, summarized, stats, events, pc, local, summarizer>>

\* Mutated form of Clear: _update_stats is not called.
ClearUncounted(t) ==
  /\ pc[t] = "idle"
  /\ messages' = {}
  /\ events' = 0
  /\ UNCHANGED <<attr, pruned, summarized, stats, pc, local, summarizer>>

\* clear keeps self.stats and lets _update_stats refresh it; the manager of a
\* server thread has no storage_path, so _auto_save returns at once.
Clear(t) ==
  /\ Goto(t, "idle", "recount")
  /\ messages' = {}
  /\ events' = 0
  /\ UNCHANGED <<attr, pruned, summarized, stats, local, summarizer>>

Reset(t) ==
  /\ pc[t] = "idle"
  /\ messages' = {}
  /\ stats' = NoStats
  /\ events' = 0
  /\ UNCHANGED <<attr, pruned, summarized, pc, local, summarizer>>

-----------------------------------------------------------------------------
(* Summarization                                                           *)

SetSummarizer(t) ==
  /\ pc[t] = "idle"
  /\ summarizer' = TRUE
  /\ UNCHANGED <<attr, messages, pruned, summarized, stats, events, pc, local>>


\* run_summarization: the candidates, grouped into a single block, are read
\* before the call to the LLM; force skips the minimum.
CollectTier3(t, force) ==
  /\ summarizer
  /\ Tier3 # {}
  /\ force \/ Cardinality(Tier3) >= MinMessages
  /\ Goto(t, "idle", "llm")
  /\ local' = [local EXCEPT ![t].block = Tier3]
  /\ UNCHANGED <<attr, messages, pruned, summarized, stats, events, summarizer>>

IsFirst(m, block) == m \in block /\ \A n \in block : m <= n

\* A summary: stored on the block's first message, the others are pruned.
ApplySummary(t) ==
  /\ Goto(t, "llm", "idle")
  /\ \E first \in local[t].block :
       /\ IsFirst(first, local[t].block)
       /\ summarized' = summarized \cup {first}
       /\ pruned' = pruned \cup (local[t].block \ {first})
  /\ local' = [local EXCEPT ![t].block = {}]
  /\ UNCHANGED <<attr, messages, stats, events, summarizer>>

\* "[no signal]": the whole block is pruned.
ApplyNoSignal(t) ==
  /\ Goto(t, "llm", "idle")
  /\ pruned' = pruned \cup local[t].block
  /\ local' = [local EXCEPT ![t].block = {}]
  /\ UNCHANGED <<attr, messages, summarized, stats, events, summarizer>>

-----------------------------------------------------------------------------
AnswerLLM(t) == ApplySummary(t) \/ ApplyNoSignal(t)

\* The steps that carry a method already called to its return
Advance(t) ==
  \/ ListActive(t) \/ SumTokens(t) \/ WriteStats(t) \/ CheckBudget(t) \/ TestLoop(t)
  \/ PickVictim(t) \/ GiveUp(t) \/ MarkVictim(t) \/ Tally(t) \/ AnswerLLM(t)

\* The methods a thread may call
Call(t) ==
  \/ \E k \in Kinds : Add(t, k)
  \/ \E m, p \in messages : Propagate(t, m, p)
  \/ Clear(t)
  \/ Reset(t)
  \/ SetSummarizer(t)
  \/ \E force \in BOOLEAN : CollectTier3(t, force)

\* What t does while another thread is inside a method overlaps that method.
Observe(t) ==
  /\ overlapped' = (overlapped \/ \E u \in Threads \ {t} : pc[u] # "idle")
  /\ late' = late \cup {m \in summarized' \ summarized :
                          \E u \in Threads \ {t} : m \in local[u].block}

Next == \E t \in Threads : (Advance(t) \/ Call(t)) /\ Observe(t)

Spec == Init /\ [][Next]_vars

\* The interpreter goes on running a thread that has work to do, and the
\* model answers within the client's timeout or the fallback does.
FairSpec == Spec /\ \A t \in Threads : WF_vars(Advance(t) /\ Observe(t))

-----------------------------------------------------------------------------
Locations == {"idle", "count", "sum", "publish", "check", "loop", "pick", "mark",
              "tally", "recount", "resum", "republish", "llm"}

LocalType == [victim : 0..Len(attr), marked : Nat, tokens : Nat,
              active : Nat, block : SUBSET (1..Len(attr))]

\* Type invariant of the manager and of the threads' local variables.
TypeOK ==
  /\ attr \in Seq(Kind)
  /\ messages \subseteq 1..Len(attr)
  /\ pruned \subseteq 1..Len(attr)
  /\ summarized \subseteq 1..Len(attr)
  /\ stats \in [current : Nat, count : Nat, active : Nat, pruning : Nat]
  /\ events \in Nat
  /\ pc \in [Threads -> Locations]
  /\ local \in [Threads -> LocalType]
  /\ \A t \in Threads : pc[t] = "mark" => local[t].victim # 0
  /\ summarizer \in BOOLEAN
  /\ overlapped \in BOOLEAN
  /\ late \subseteq 1..Len(attr)

\* should_preserve: whatever other threads do between the choice of a message
\* and its mark, a TIER_0 message is never pruned, and a grounding message
\* only by a summarizer, which chooses by tier alone.
ProtectedKept ==
  \A m \in pruned : attr[m].tier # 0 /\ (attr[m].grounding => summarizer)

\* The locations from which a thread has still to test the budget
Settling == {"count", "sum", "publish", "check", "loop", "pick", "mark"}

\* _prune_if_needed does its job however threads interleave: whenever no
\* thread still has a test ahead of it, the window fits or all that is left
\* in it is protected.
BudgetRestored ==
  (\A t \in Threads : pc[t] \notin Settling) => (~OverBudget \/ Candidates = {})

\* Between the calls of one thread at a time, on a manager without a
\* summarizer (whose passes refresh no statistics)
Orderly == ~overlapped /\ ~summarizer /\ \A t \in Threads : pc[t] = "idle"

\* ContextStats: the statistics that /context/summary returns are those of the
\* list ("active_messages_count ... Not pruned").
StatsExact ==
  Orderly => /\ stats.current = ActiveTokens
             /\ stats.count = Cardinality(messages)
             /\ stats.active = Cardinality(Active)

\* Every call returns: the pruning loop always runs out of candidates.
CallsReturn == \A t \in Threads : pc[t] # "idle" ~> pc[t] = "idle"

\* run_summarization passes over a message that holds a summary: it leaves the window only as the victim
\* of the pruning loop, or with a pass that had chosen its message before the
\* summary was stored; no pass begun later takes it, whatever overlaps.
SummaryKept ==
  [][\A m \in ((pruned' \ pruned) \cap summarized') \ late' :
       \E t \in Threads : pc[t] = "mark" /\ local[t].victim = m /\ pc'[t] # "mark"]_vars

-----------------------------------------------------------------------------
\* README.md: "Smart pruning - Removes low-importance content first": no
\* candidate is less important than the one pruned.
LowImportanceFirst ==
  [][\A m \in pruned' \ pruned : \A n \in Candidates :
       attr[m].importance <= attr[n].importance]_vars
=============================================================================
