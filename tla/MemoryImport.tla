---------------------------- MODULE MemoryImport ----------------------------
(***************************************************************************)
(* What the threads of the server do to the memory of one tenant: import   *)
(* of a manifest into the three stores, one after the other                *)
(* (memory/export.py, POST /api/v1/memory/import), and add, get and delete *)
(* of semantic entries beside it.  The writes of the two JSON stores are   *)
(* whole here; module JsonStore takes them apart.                          *)
(***************************************************************************)
EXTENDS SemanticStore, FiniteSets

CONSTANTS
  Manifest,  \* the ids of the manifest, the same in each of its three lists
  MaxCalls,  \* bound on the calls
  Kills      \* bound on the kills

ASSUME ImportAssumption ==
  /\ IsFiniteSet(Ids) /\ Ids # {} /\ Manifest \subseteq Ids
  /\ MaxCalls \in Nat /\ Kills \in Nat

VARIABLES
  episodic, procedural,  \* the ids in the two JSON stores
  pc,        \* what each thread does next
  local,     \* its parameters and local variables
  calls, kills,
  stored,    \* history: the entries of each store reported as stored, not removed since
  gets,      \* history: how often get returned each entry since its insertion
  raced,     \* history: the entries two calls were busy with at a time
  tripped,   \* history: has a statement been refused the lock
  broke,     \* history: the threads an INSERT of which failed in its transaction
  clash      \* history: the merge parameters of imports that met an id that was there

bounds == <<calls, kills>>
jsons == <<episodic, procedural>>
history == <<stored, gets, raced, tripped, broke, clash>>
vars == <<store, jsons, pc, local, bounds, history>>

\* merge; the list of the manifest that has an entry the store cannot take;
\* the ids an import still deletes and adds; the entry of the operation or of
\* the statement to commit; the access count get has read and increased.
NoCall ==
  [merge |-> TRUE, bad |-> "none", drop |-> {}, put |-> {}, target |-> CHOOSE i \in Ids : TRUE,
   count |-> 0]

Init ==
  /\ InitStore
  /\ episodic = {} /\ procedural = {}
  /\ pc = [t \in Threads |-> "idle"]
  /\ local = [t \in Threads |-> NoCall]
  /\ calls = 0 /\ kills = 0
  /\ stored = [episodic |-> {}, semantic |-> {}, procedural |-> {}]
  /\ gets = [i \in Ids |-> 0]
  /\ raced = {} /\ tripped = FALSE /\ broke = {} /\ clash = {}

Goto(t, from, to) == pc[t] = from /\ pc' = [pc EXCEPT ![t] = to]
Set(t, call) == local' = [local EXCEPT ![t] = call]
Return(t) == pc' = [pc EXCEPT ![t] = "idle"] /\ Set(t, NoCall)

\* Entries a thread is at work on: that of a single operation, or all of them.
Busy(t) ==
  IF pc[t] = "idle" THEN {}
  ELSE IF pc[t] \in {"episodic", "query", "put", "inserted", "dropped"} THEN Ids
  ELSE {local[t].target}

\* A call begins: the history notes whom it overlaps.
Start(t, what, entries, call) ==
  /\ calls < MaxCalls
  /\ calls' = calls + 1
  /\ Goto(t, "idle", what)
  /\ Set(t, call)
  /\ raced' = raced \cup (entries \cap UNION {Busy(u) : u \in Threads \ {t}})
  /\ UNCHANGED <<store, jsons, kills, stored, gets, tripped, broke, clash>>

-----------------------------------------------------------------------------
(* SemanticMemory.get, add, delete                                         *)

Single(t, what, i) == Start(t, what, {i}, [NoCall EXCEPT !.target = i])

\* get of an entry that is not there returns None.
GetNone(t) ==
  /\ pc[t] = "get"
  /\ Seen(t)[local[t].target] = Absent
  /\ Select(t)
  /\ Return(t)
  /\ UNCHANGED <<jsons, bounds, history>>

\* Mutated form of GetSelect: the count is written back as it was read.
GetSelectSame(t) ==
  /\ Seen(t)[local[t].target] # Absent
  /\ Goto(t, "get", "update")
  /\ Select(t)
  /\ Set(t, [local[t] EXCEPT !.count = Seen(t)[local[t].target]])
  /\ UNCHANGED <<jsons, bounds, history>>

GetSelect(t) ==
  /\ Seen(t)[local[t].target] # Absent
  /\ Goto(t, "get", "update")
  /\ Select(t)
  /\ Set(t, [local[t] EXCEPT !.count = Seen(t)[local[t].target] + 1])
  /\ UNCHANGED <<jsons, bounds, history>>

GetUpdate(t) ==
  /\ Goto(t, "update", "counted")
  /\ Update(t, local[t].target, local[t].count)
  /\ UNCHANGED <<jsons, local, bounds, history>>

GetCommit(t) ==
  /\ pc[t] = "counted"
  /\ Commit(t)
  /\ gets' = [gets EXCEPT ![local[t].target] = @ + 1]
  /\ Return(t)
  /\ UNCHANGED <<jsons, bounds, stored, raced, tripped, broke, clash>>

AddInsert(t) ==
  /\ Goto(t, "add", "added")
  /\ Insert(t, local[t].target)
  /\ UNCHANGED <<jsons, local, bounds, history>>

NoteAdded(i) ==
  /\ stored' = [stored EXCEPT !.semantic = @ \cup {i}]
  /\ gets' = [gets EXCEPT ![i] = 0]
  /\ UNCHANGED <<raced, tripped, broke, clash>>

\* Mutated form of AddCommit: it is left to a later call.
AddUncommitted(t) ==
  /\ pc[t] = "added"
  /\ NoteAdded(local[t].target)
  /\ Return(t)
  /\ UNCHANGED <<store, jsons, bounds>>

AddCommit(t) ==
  /\ pc[t] = "added"
  /\ Commit(t)
  /\ NoteAdded(local[t].target)
  /\ Return(t)
  /\ UNCHANGED <<jsons, bounds>>

DeleteRow(t) ==
  /\ Goto(t, "delete", "deleted")
  /\ Delete(t, local[t].target)
  /\ UNCHANGED <<jsons, local, bounds, history>>

NoteDeleted(i) ==
  /\ stored' = [stored EXCEPT !.semantic = @ \ {i}]
  /\ UNCHANGED <<gets, raced, tripped, broke, clash>>

\* Mutated form of DeleteCommit: nothing deleted, nothing committed.
DeleteCommitChanged(t) ==
  /\ pc[t] = "deleted"
  /\ IF view[t] # rows THEN Commit(t) ELSE UNCHANGED store
  /\ NoteDeleted(local[t].target)
  /\ Return(t)
  /\ UNCHANGED <<jsons, bounds>>

DeleteCommit(t) ==
  /\ pc[t] = "deleted"
  /\ Commit(t)
  /\ NoteDeleted(local[t].target)
  /\ Return(t)
  /\ UNCHANGED <<jsons, bounds>>

\* The lock is not to be had.  A thread between its statement and its commit
\* is taken to be done within the busy timeout; one that left a transaction
\* open is not.
Committing == {"counted", "added", "deleted", "inserted", "dropped"}
ListDone(t) ==
  pc[t] = "put" /\ local[t].drop = {} /\ local[t].put = {} /\ local[t].bad # "semantic"
Writes(t) == pc[t] \in {"update", "add", "delete"} \/ (pc[t] = "put" /\ ~ListDone(t))

LockedOut(t) ==
  /\ Writes(t)
  /\ tx[t] = "stale" \/ \E u \in Threads \ {t} : tx[u] = "writing" /\ pc[u] \notin Committing
  /\ Refused(t)
  /\ tripped' = TRUE
  /\ Return(t)
  /\ UNCHANGED <<jsons, bounds, stored, gets, raced, broke, clash>>

-----------------------------------------------------------------------------
(* import_to_memory                                                        *)

Import(t, m, b) == Start(t, "episodic", Ids, [NoCall EXCEPT !.merge = m, !.bad = b])

\* The JSON store after the import's pass over its list: with merge=False the
\* old entries go first; a bad entry ends the pass somewhere.
After(t, which, old) ==
  LET kept == IF local[t].merge THEN old ELSE {}
  IN {kept \cup part : part \in IF local[t].bad = which THEN SUBSET Manifest ELSE {Manifest}}

Reported(t, which, old) ==
  (IF local[t].merge THEN old ELSE {}) \cup (IF local[t].bad = which THEN {} ELSE Manifest)

ImportEpisodic(t) ==
  /\ IF local[t].bad = "episodic"
       THEN pc[t] = "episodic" /\ Return(t)
       ELSE Goto(t, "episodic", "query") /\ UNCHANGED local
  /\ episodic' \in After(t, "episodic", episodic)
  /\ stored' = [stored EXCEPT !.episodic = Reported(t, "episodic", @)]
  /\ UNCHANGED <<store, procedural, bounds, gets, raced, tripped, broke, clash>>

\* Mutated form of ImportQuery: merge=False does not add again what was there.
ImportQueryOnce(t) ==
  /\ Goto(t, "query", "put")
  /\ Select(t)
  /\ Set(t, [local[t] EXCEPT !.drop = IF local[t].merge THEN {} ELSE Present(Seen(t)),
                             !.put = Manifest \ Present(Seen(t))])
  /\ UNCHANGED <<jsons, bounds, history>>

\* The rows are listed: to be skipped, or to be deleted.
ImportQuery(t) ==
  /\ Goto(t, "query", "put")
  /\ Select(t)
  /\ Set(t, IF local[t].merge
              THEN [local[t] EXCEPT !.put = Manifest \ Present(Seen(t))]
              ELSE [local[t] EXCEPT !.drop = Present(Seen(t)), !.put = Manifest])
  /\ UNCHANGED <<jsons, bounds, history>>

ImportDelete(t, i) ==
  /\ i \in local[t].drop
  /\ Goto(t, "put", "dropped")
  /\ Delete(t, i)
  /\ Set(t, [local[t] EXCEPT !.target = i, !.drop = @ \ {i}])
  /\ UNCHANGED <<jsons, bounds, history>>

ImportDeleted(t) ==
  /\ Goto(t, "dropped", "put")
  /\ Commit(t)
  /\ NoteDeleted(local[t].target)
  /\ UNCHANGED <<jsons, local, bounds>>

ImportInsert(t, i) ==
  /\ local[t].drop = {} /\ i \in local[t].put
  /\ Goto(t, "put", "inserted")
  /\ Insert(t, i)
  /\ Set(t, [local[t] EXCEPT !.target = i, !.put = @ \ {i}])
  /\ UNCHANGED <<jsons, bounds, history>>

ImportInserted(t) ==
  /\ Goto(t, "inserted", "put")
  /\ Commit(t)
  /\ NoteAdded(local[t].target)
  /\ UNCHANGED <<jsons, local, bounds>>

\* Another import has inserted the id since the rows were listed: IntegrityError.
ImportClash(t, i) ==
  /\ pc[t] = "put" /\ local[t].drop = {} /\ i \in local[t].put
  /\ Duplicate(t, i)
  /\ clash' = clash \cup {local[t].merge}
  /\ broke' = broke \cup {t}
  /\ Return(t)
  /\ UNCHANGED <<jsons, bounds, stored, gets, raced, tripped>>

\* A semantic entry without a subject: KeyError, before its INSERT.  One whose
\* subject is a list, or null: the INSERT fails, in the transaction it opened.
ImportRaises(t) ==
  /\ pc[t] = "put" /\ local[t].drop = {} /\ local[t].bad = "semantic"
  /\ \/ UNCHANGED <<store, broke>>
     \/ (Unbound(t) \/ BreaksConstraint(t)) /\ broke' = broke \cup {t}
  /\ Return(t)
  /\ UNCHANGED <<jsons, bounds, stored, gets, raced, tripped, clash>>

ImportProcedural(t) ==
  /\ ListDone(t)
  /\ Return(t)
  /\ procedural' \in After(t, "procedural", procedural)
  /\ stored' = [stored EXCEPT !.procedural = Reported(t, "procedural", @)]
  /\ UNCHANGED <<store, episodic, bounds, gets, raced, tripped, broke, clash>>

-----------------------------------------------------------------------------
Kill ==
  /\ kills < Kills
  /\ kills' = kills + 1
  /\ Abandon
  /\ pc' = [t \in Threads |-> "idle"]
  /\ local' = [t \in Threads |-> NoCall]
  /\ UNCHANGED <<jsons, calls, history>>

Run(t) ==
  \/ GetNone(t) \/ GetSelect(t) \/ GetUpdate(t) \/ GetCommit(t)
  \/ AddInsert(t) \/ AddCommit(t) \/ DeleteRow(t) \/ DeleteCommit(t) \/ LockedOut(t)
  \/ ImportEpisodic(t) \/ ImportQuery(t) \/ ImportDeleted(t) \/ ImportInserted(t)
  \/ \E i \in Ids : ImportDelete(t, i) \/ ImportInsert(t, i) \/ ImportClash(t, i)
  \/ ImportRaises(t) \/ ImportProcedural(t)

\* The id of an add is a new uuid; those of a manifest are given.
Fresh(i) == i \notin Manifest /\ rows[i] = Absent /\ \A t \in Threads : local[t].target # i

Call(t) ==
  \/ \E i \in Ids, what \in {"get", "delete"} : Single(t, what, i)
  \/ \E i \in Ids : Fresh(i) /\ Single(t, "add", i)
  \/ \E m \in BOOLEAN, b \in {"none", "episodic", "semantic", "procedural"} : Import(t, m, b)

Next == Kill \/ \E t \in Threads : Run(t) \/ Call(t)

Spec == Init /\ [][Next]_vars

-----------------------------------------------------------------------------
\* Type invariant of the stores, the connections and the calls.
TypeOK ==
  /\ StoreTypeOK
  /\ episodic \subseteq Ids /\ procedural \subseteq Ids
  /\ pc \in [Threads -> {"idle", "get", "update", "add", "delete", "episodic", "query", "put"}
                           \cup Committing]
  /\ local \in [Threads -> [merge : BOOLEAN, bad : {"none", "episodic", "semantic", "procedural"},
                             drop : SUBSET Ids, put : SUBSET Ids, target : Ids, count : Nat]]
  /\ calls \in 0 .. MaxCalls /\ kills \in 0 .. Kills
  /\ stored \in [episodic : SUBSET Ids, semantic : SUBSET Ids, procedural : SUBSET Ids]
  /\ gets \in [Ids -> Nat]
  /\ raced \subseteq Ids /\ tripped \in BOOLEAN /\ broke \subseteq Threads
  /\ clash \subseteq BOOLEAN

\* An entry reported as stored, by add or by an import of any of the three
\* lists, is there until a delete or an import with merge=False removes it,
\* whatever failed, and whatever the snapshots the other threads read.
StoredKept ==
  /\ stored.semantic \subseteq Present(rows)
  /\ stored.episodic \subseteq episodic
  /\ stored.procedural \subseteq procedural

\* "If true, skip duplicate IDs; if false, replace all": an import that gets
\* to the end of its list without another call beside it has done so, also
\* where an earlier one failed half way (import_to_memory).  Excepted is a
\* thread that an earlier failure left in a snapshot which is out of date.
ImportTakesEffect ==
  \A t \in Threads :
    ListDone(t) /\ tx[t] # "stale" /\ raced = {} =>
      /\ Manifest \subseteq Present(rows) \cap episodic
      /\ ~local[t].merge => Present(rows) = Manifest /\ episodic = Manifest

\* A failed INSERT leaves its transaction open (add), and nothing else does: who
\* has the write lock between two calls has itself failed in one, and as long as
\* no thread has, none holds a transaction between its calls and no statement
\* is refused the lock.
OnlyFailedInsertsLock ==
  /\ \A t \in Threads : pc[t] = "idle" /\ tx[t] = "writing" => t \in broke
  /\ broke = {} => ~tripped /\ \A t \in Threads : pc[t] = "idle" => tx[t] = "none"

\* get counts an access by reading the count and writing it back: the count is
\* exact for an entry that no two calls were busy with at a time.
CountsExactAlone == \A i \in Present(rows) \ raced : rows[i] = gets[i]

\* "If true, skip duplicate IDs": an import with merge does not fail on one.
MergeSkipsDuplicates == TRUE \notin clash

=============================================================================
