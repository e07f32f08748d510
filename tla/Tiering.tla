------------------------------ MODULE Tiering ------------------------------
(***************************************************************************)
(* TierManager (memory/tier_manager.py) between EpisodicMemory, a dict     *)
(* whose _save replaces a file, and SemanticMemory, a SQLite table.  A     *)
(* cycle of auto_tier moves entries one by one, each move an add to one    *)
(* store and a delete from the other, and the process may be killed, or a  *)
(* save of the episodic file fail, between any two steps.                  *)
(*                                                                         *)
(* One thread drives the manager.  An id names an entry of either store;   *)
(* add takes a fresh one, here the first that nothing refers to.  The      *)
(* scans follow the order of the dict and of the table, here any order.    *)
(***************************************************************************)
EXTENDS Integers, FiniteSets

CONSTANTS
  Facts,             \* the contents that a caller adds, each once
  Triples,           \* those that only a row with an object tells
  MaxIds,            \* bound: the ids in use at a time
  PromoteThreshold,  \* TierConfig
  DemoteThreshold,
  MaxFaults          \* bound: kills and failed saves in one behaviour

Ids == 1..MaxIds

NoFact == "no fact"

ASSUME TieringAssumption ==
  /\ IsFiniteSet(Facts) /\ Triples \subseteq Facts /\ NoFact \notin Facts /\ MaxIds \in Nat
  /\ PromoteThreshold \in Nat /\ DemoteThreshold \in Nat
  /\ MaxFaults \in Nat

\* No threshold tells higher counts apart.
MaxHits == IF PromoteThreshold < DemoteThreshold THEN DemoteThreshold ELSE PromoteThreshold + 1

VARIABLES
  fact,    \* the content of each id
  partial, \* the ids that tell no more of it than its object
  hits,    \* its access_count
  epi,     \* the ids in the episodic dict
  disk,    \* the ids in the episodic file
  sem,     \* the ids in the semantic table
  pc,      \* where the manager stands in auto_tier
  todo,    \* the ids that the scan has still to look at
  cur,     \* the entry being moved
  due,     \* the entries below the threshold when the cycle scanned them
  added,   \* the facts whose add returned
  faults   \* the faults so far

vars == <<fact, partial, hits, epi, disk, sem, pc, todo, cur, due, added, faults>>

stores == <<fact, partial, hits, epi, disk, sem>>

scan == <<pc, todo, cur, due>>

Init ==
  /\ fact = [i \in Ids |-> NoFact]
  /\ hits = [i \in Ids |-> 0]
  /\ partial = {}
  /\ epi = {} /\ disk = {} /\ sem = {}
  /\ pc = "idle" /\ todo = {} /\ cur = {} /\ due = {}
  /\ added = {}
  /\ faults = 0

Held == epi \cup disk \cup sem

Free == Ids \ (Held \cup todo \cup due)

Fresh(i, f) ==
  /\ i \in Free /\ \A j \in Free : i <= j
  /\ fact' = [fact EXCEPT ![i] = f]

\* Whether the text or the row of i holds less than its fact
Cut(i, less) == partial' = IF less THEN partial \cup {i} ELSE partial \ {i}

\* An id that no store holds any more is forgotten.
Forget(ids) ==
  /\ fact' = [i \in Ids |-> IF i \in ids THEN NoFact ELSE fact[i]]
  /\ hits' = [i \in Ids |-> IF i \in ids THEN 0 ELSE hits[i]]
  /\ partial' = partial \ ids

Bump(i) == IF hits[i] < MaxHits THEN hits[i] + 1 ELSE MaxHits

-----------------------------------------------------------------------------
(* What callers do between the cycles                                      *)

AddEpisodic(i, f) ==
  /\ pc = "idle" /\ f \notin added \cup Triples
  /\ Fresh(i, f) /\ Cut(i, FALSE)
  /\ hits' = [hits EXCEPT ![i] = 0]
  /\ epi' = epi \cup {i}
  /\ disk' = epi'
  /\ added' = added \cup {f}
  /\ UNCHANGED <<sem, scan, faults>>

\* A row without an object tells its fact by subject and predicate.
AddSemantic(i, f) ==
  /\ pc = "idle" /\ f \notin added
  /\ Fresh(i, f) /\ Cut(i, FALSE)
  /\ hits' = [hits EXCEPT ![i] = 0]
  /\ sem' = sem \cup {i}
  /\ added' = added \cup {f}
  /\ UNCHANGED <<epi, disk, scan, faults>>

StartCycle ==
  /\ pc' = "episodic"
  /\ todo' = epi
  /\ UNCHANGED <<cur, due>>

Leave(where) == pc' = where /\ todo' = {} /\ cur' = {} /\ due' = {}

\* record_access counts the access; every check_interval_accesses of them a
\* cycle starts, here now and then.
RecordAccess(i) ==
  /\ pc = "idle"
  /\ i \in epi \cup sem
  /\ hits' = [hits EXCEPT ![i] = Bump(i)]
  /\ StartCycle \/ UNCHANGED scan
  /\ UNCHANGED <<fact, partial, epi, disk, sem, added, faults>>

AutoTier ==
  /\ pc = "idle"
  /\ StartCycle
  /\ UNCHANGED <<stores, added, faults>>

-----------------------------------------------------------------------------
(* auto_tier: the episodic entries                                         *)

\* Mutated form of SkipCold: the scan does not move on.
SkipNowhere(i) ==
  /\ pc = "episodic" /\ i \in todo
  /\ hits[i] <= PromoteThreshold
  /\ UNCHANGED <<stores, scan, added, faults>>

SkipCold(i) ==
  /\ pc = "episodic" /\ i \in todo
  /\ hits[i] <= PromoteThreshold
  /\ todo' = todo \ {i}
  /\ UNCHANGED <<stores, pc, cur, due, added, faults>>

\* _promote_episodic_entry: its get counts as an access, the whole text becomes
\* the object of the row ...
PromoteAdd(i, j) ==
  /\ pc = "episodic" /\ i \in todo
  /\ hits[i] > PromoteThreshold
  /\ Fresh(j, fact[i]) /\ Cut(j, i \in partial)
  /\ hits' = [hits EXCEPT ![i] = Bump(i), ![j] = 0]
  /\ sem' = sem \cup {j}
  /\ pc' = "promoted"
  /\ cur' = {i}
  /\ UNCHANGED <<epi, disk, todo, due, added, faults>>

\* ... and the episodic entry goes when the semantic one is committed.
PromoteDelete ==
  /\ pc = "promoted"
  /\ epi' = epi \ cur
  /\ disk' = epi'
  /\ todo' = todo \ cur
  /\ pc' = "episodic"
  /\ cur' = {}
  /\ Forget(cur)
  /\ UNCHANGED <<sem, due, added, faults>>

EndEpisodic ==
  /\ pc = "episodic" /\ todo = {}
  /\ IF DemoteThreshold > 0
     THEN /\ pc' = "semantic"
          /\ todo' = sem
          /\ due' = {i \in sem : hits[i] < DemoteThreshold}
          /\ UNCHANGED cur
     ELSE Leave("idle")
  /\ UNCHANGED <<stores, added, faults>>

-----------------------------------------------------------------------------
(* auto_tier: the semantic entries                                         *)

\* Mutated form of DemoteLook: a cold row is deleted before it is added to
\* the other store.
DemoteFirstDelete(i) ==
  /\ pc = "semantic" /\ i \in todo
  /\ hits' = [hits EXCEPT ![i] = Bump(i)]
  /\ IF Bump(i) < DemoteThreshold
     THEN pc' = "cold" /\ cur' = {i} /\ sem' = sem \ {i} /\ UNCHANGED todo
     ELSE todo' = todo \ {i} /\ UNCHANGED <<pc, cur, sem>>
  /\ UNCHANGED <<fact, partial, epi, disk, due, added, faults>>

\* Mutated form of DemoteLook: off by one.
DemoteLookLax(i) ==
  /\ pc = "semantic" /\ i \in todo
  /\ hits' = [hits EXCEPT ![i] = Bump(i)]
  /\ IF Bump(i) + 1 < DemoteThreshold
     THEN pc' = "cold" /\ cur' = {i} /\ UNCHANGED todo
     ELSE todo' = todo \ {i} /\ UNCHANGED <<pc, cur>>
  /\ UNCHANGED <<fact, partial, epi, disk, sem, due, added, faults>>

\* _demote_semantic_entry: its get counts as an access and is committed.
DemoteLook(i) ==
  /\ pc = "semantic" /\ i \in todo
  /\ hits' = [hits EXCEPT ![i] = Bump(i)]
  /\ IF Bump(i) < DemoteThreshold
     THEN pc' = "cold" /\ cur' = {i} /\ UNCHANGED todo
     ELSE todo' = todo \ {i} /\ UNCHANGED <<pc, cur>>
  /\ UNCHANGED <<fact, partial, epi, disk, sem, due, added, faults>>

\* Of a row with an object the text has the object alone, of another one
\* subject and predicate.
DemoteAdd(j) ==
  /\ pc = "cold"
  /\ \E i \in cur : Fresh(j, fact[i]) /\ Cut(j, fact[i] \in Triples)
  /\ hits' = [hits EXCEPT ![j] = 0]
  /\ epi' = epi \cup {j}
  /\ disk' = epi'
  /\ pc' = "demoted"
  /\ UNCHANGED <<sem, todo, cur, due, added, faults>>

\* Mutated form of DemoteDelete: the row stays.
DemoteKeep ==
  /\ pc = "demoted"
  /\ todo' = todo \ cur
  /\ pc' = "semantic"
  /\ cur' = {}
  /\ UNCHANGED <<stores, due, added, faults>>

DemoteDelete ==
  /\ pc = "demoted"
  /\ sem' = sem \ cur
  /\ todo' = todo \ cur
  /\ pc' = "semantic"
  /\ cur' = {}
  /\ Forget(cur)
  /\ UNCHANGED <<epi, disk, due, added, faults>>

EndSemantic ==
  /\ pc = "semantic" /\ todo = {}
  /\ Leave("idle")
  /\ UNCHANGED <<stores, added, faults>>

-----------------------------------------------------------------------------
(* Faults                                                                  *)

Fault == faults < MaxFaults /\ faults' = faults + 1

\* The save of an episodic add or delete raises, and auto_tier with it: the
\* dict has the change, the file has not.
PromoteFails ==
  /\ Fault
  /\ pc = "promoted"
  /\ epi' = epi \ cur
  /\ Leave("idle")
  /\ UNCHANGED <<fact, partial, hits, disk, sem, added>>

DemoteFails(j) ==
  /\ Fault
  /\ pc = "cold"
  /\ \E i \in cur : Fresh(j, fact[i]) /\ Cut(j, fact[i] \in Triples)
  /\ hits' = [hits EXCEPT ![j] = 0]
  /\ epi' = epi \cup {j}
  /\ Leave("idle")
  /\ UNCHANGED <<disk, sem, added>>

Crash ==
  /\ Fault
  /\ pc # "down"
  /\ epi' = {}
  /\ Leave("down")
  /\ Forget(epi \ disk)
  /\ UNCHANGED <<disk, sem, added>>

\* The file holds no access counts.
Restart ==
  /\ pc = "down"
  /\ pc' = "idle"
  /\ epi' = disk
  /\ hits' = [i \in Ids |-> IF i \in disk THEN 0 ELSE hits[i]]
  /\ UNCHANGED <<fact, partial, disk, sem, todo, cur, due, added, faults>>

-----------------------------------------------------------------------------
Cycle ==
  \/ \E i \in Ids : SkipCold(i) \/ DemoteLook(i) \/ DemoteAdd(i)
  \/ \E i, j \in Ids : PromoteAdd(i, j)
  \/ PromoteDelete \/ EndEpisodic \/ DemoteDelete \/ EndSemantic

Call ==
  \/ \E i \in Ids, f \in Facts : AddEpisodic(i, f) \/ AddSemantic(i, f)
  \/ \E i \in Ids : RecordAccess(i)
  \/ AutoTier

Disturb == PromoteFails \/ (\E j \in Ids : DemoteFails(j)) \/ Crash \/ Restart

Next == Cycle \/ Call \/ Disturb

Spec == Init /\ [][Next]_vars

\* A cycle that has begun goes on.
FairSpec == Spec /\ WF_vars(Cycle)

-----------------------------------------------------------------------------
\* Type invariant of the two stores and of the cycle.
TypeOK ==
  /\ fact \in [Ids -> Facts \cup {NoFact}]
  /\ partial \subseteq Ids
  /\ hits \in [Ids -> 0..MaxHits]
  /\ epi \subseteq Ids /\ disk \subseteq Ids /\ sem \subseteq Ids
  /\ pc \in {"idle", "episodic", "promoted", "semantic", "cold", "demoted", "down"}
  /\ todo \subseteq Ids /\ due \subseteq Ids
  /\ added \subseteq Facts
  /\ faults \in 0..MaxFaults
  /\ cur \subseteq todo /\ Cardinality(cur) <= 1
  /\ (cur # {}) <=> (pc \in {"promoted", "cold", "demoted"})
  /\ (epi \cup disk) \cap sem = {}

Copies(f, ids) == {i \in ids : fact[i] = f}

\* What a fact was told by is in the file or in the table at every moment, so
\* that no kill and no failed save in the middle of a move can lose it: all of
\* a text and of a row without an object, of a row with one at least that.
NoFactLost ==
  \A f \in added : \E i \in Copies(f, disk \cup sem) : i \in partial => f \in Triples

\* A move is a move: as long as nothing fails, a fact outside the move in
\* progress has exactly one entry, in exactly one store.
OneCopy ==
  faults = 0 =>
    /\ epi = disk
    /\ \A f \in added : Cardinality(Copies(f, Held)) =
         IF pc \in {"promoted", "demoted"} /\ Copies(f, cur) # {} THEN 2 ELSE 1

\* A cycle that begins ends.
CycleEnds == pc # "idle" ~> pc \in {"idle", "down"}

\* auto_tier has looked at every row, and none of them kept its place with a
\* count below the threshold, the rows that the cycle itself created included.
CycleOver == pc = "semantic" /\ pc' = "idle" /\ faults' = faults

NoneColdAfter == [][CycleOver => \A i \in sem : hits[i] >= DemoteThreshold]_vars

-----------------------------------------------------------------------------
\* docs/API.md: "Demotion: semantic entries with access_count < demote_threshold":
\* of the entries that the cycle found below the threshold none is left.
ColdDemoted == [][CycleOver => due \cap sem = {}]_vars
=============================================================================
