----------------------------- MODULE JsonStore -----------------------------
(***************************************************************************)
(* The JSON stores of memory/episodic.py and memory/procedural.py: a dict  *)
(* that a process loads once, and a file that _save replaces as a whole.   *)
(* The two classes share the code of _load and _save; an entry is reduced  *)
(* to its id and its rank in the order in which prune removes entries.     *)
(*                                                                         *)
(* The store of a process is shared by its threads (the HTTP workers that  *)
(* import memories), the file by every process (server, MCP, CLI).  The    *)
(* FileLock covers the write of the file and nothing before it.            *)
(***************************************************************************)
EXTENDS Integers, FiniteSets

CONSTANTS
  Threads,      \* the threads that call the store
  Procs,        \* the processes
  Home,         \* the process of each thread
  Ids,          \* the ids of entries
  Rank(_),      \* prune removes the entry of the lowest rank first
  MayFail       \* whether a write may fail and a process be killed

ASSUME StoreAssumption ==
  /\ Home \in [Threads -> Procs]
  /\ IsFiniteSet(Ids)
  /\ \A i, j \in Ids : Rank(i) \in Nat /\ (Rank(i) = Rank(j) => i = j)
  /\ MayFail \in BOOLEAN

Free == "free"

ASSUME FreeIsNoThread == Free \notin Threads

VARIABLES
  disk,     \* the ids in the file
  mem,      \* the ids in each process's dict
  up,       \* the processes that run
  lock,     \* the thread that holds the FileLock, or Free
  pc,       \* where each thread stands
  snap,     \* the ids in the thread's local variable data
  change,   \* the ids that the call in progress adds and removes
  told,     \* what callers last learned of an id: stored, removed or neither
  mixed,    \* history: the processes in which two calls ran at a time
  met       \* history: whether two processes ran at a time

vars == <<disk, mem, up, lock, pc, snap, change, told, mixed, met>>

NoChange == [added |-> {}, removed |-> {}]

Init ==
  /\ disk = {}
  /\ mem = [p \in Procs |-> {}]
  /\ up = {}
  /\ lock = Free
  /\ pc = [t \in Threads |-> "idle"]
  /\ snap = [t \in Threads |-> {}]
  /\ change = [t \in Threads |-> NoChange]
  /\ told = [i \in Ids |-> "nothing"]
  /\ mixed = {}
  /\ met = FALSE

Goto(t, from, to) == pc[t] = from /\ pc' = [pc EXCEPT ![t] = to]

\* The locals of a method that ends
Done(t) ==
  /\ snap' = [snap EXCEPT ![t] = {}]
  /\ change' = [change EXCEPT ![t] = NoChange]

Touched(t) == change[t].added \cup change[t].removed

-----------------------------------------------------------------------------
\* __init__ and _load, under the FileLock
Start(p) ==
  /\ p \notin up
  /\ lock = Free
  /\ up' = up \cup {p}
  /\ mem' = [mem EXCEPT ![p] = disk]
  /\ UNCHANGED <<disk, lock, pc, snap, change, told>>

\* A method changes the dict of its process and goes on to _save.  From here
\* until it returns its caller knows nothing of the ids concerned.
Change(t, added, removed) ==
  /\ Home[t] \in up
  /\ Goto(t, "idle", "copy")
  /\ mem' = [mem EXCEPT ![Home[t]] = (@ \ removed) \cup added]
  /\ change' = [change EXCEPT ![t] = [added |-> added, removed |-> removed]]
  /\ told' = [i \in Ids |-> IF i \in added \cup removed THEN "nothing" ELSE told[i]]
  /\ UNCHANGED <<disk, up, lock, snap>>

\* add and store, with a fresh id or with one from a manifest
Add(t, i) == Change(t, {i}, {})

\* delete, when the entry is there
Delete(t, i) == i \in mem[Home[t]] /\ Change(t, {}, {i})

\* prune: the lowest ranks go, until max_entries are left
Prune(t, max) ==
  /\ Cardinality(mem[Home[t]]) > max
  /\ \E kept \in SUBSET mem[Home[t]] :
       /\ Cardinality(kept) = max
       /\ \A i \in kept, j \in mem[Home[t]] \ kept : Rank(j) < Rank(i)
       /\ Change(t, {}, mem[Home[t]] \ kept)

\* get, recall and update_success_rate of procedural.py save a dict whose ids
\* they leave alone.
Touch(t) == mem[Home[t]] # {} /\ Change(t, {}, {})

\* _save builds data from the dict, before it takes the lock ...
Copy(t) ==
  /\ Goto(t, "copy", "lock")
  /\ snap' = [snap EXCEPT ![t] = mem[Home[t]]]
  /\ UNCHANGED <<disk, mem, up, lock, change, told>>

\* Another thread has resized the dict under the iteration: RuntimeError is
\* raised, the dict keeps both changes.
CopyFails(t) ==
  /\ \E u \in Threads \ {t} : Home[u] = Home[t] /\ pc[u] = "copy"
  /\ Goto(t, "copy", "idle")
  /\ Done(t)
  /\ UNCHANGED <<disk, mem, up, lock, told>>

\* Mutated form of Acquire: the write does not wait for the lock.
AcquireUnasked(t) ==
  /\ lock' = t
  /\ Goto(t, "lock", "replace")
  /\ UNCHANGED <<disk, mem, up, snap, change, told>>

Acquire(t) ==
  /\ lock = Free
  /\ lock' = t
  /\ Goto(t, "lock", "replace")
  /\ UNCHANGED <<disk, mem, up, snap, change, told>>

\* ... and replaces the file by it.
Replace(t) ==
  /\ Goto(t, "replace", "release")
  /\ disk' = snap[t]
  /\ UNCHANGED <<mem, up, lock, snap, change, told>>

\* The method returns.  Its report of an id that another thread has changed
\* meanwhile, or is changing, is that thread's to make.
Release(t) ==
  /\ Goto(t, "release", "idle")
  /\ lock' = Free
  /\ Done(t)
  /\ told' = [i \in Ids |->
       IF \E u \in Threads \ {t} : i \in Touched(u) THEN told[i]
       ELSE IF i \in change[t].added \cap mem[Home[t]] THEN "stored"
       ELSE IF i \in change[t].removed \ mem[Home[t]] THEN "removed" ELSE told[i]]
  /\ UNCHANGED <<disk, mem, up>>

\* The lock was not free for ten seconds: Timeout is raised, the dict keeps
\* the change.
LockTimeout(t) ==
  /\ lock \notin {Free, t}
  /\ Goto(t, "lock", "idle")
  /\ Done(t)
  /\ UNCHANGED <<disk, mem, up, lock, told>>

\* Mutated forms of WriteFails: the error is swallowed, and the method returns
\* as if it had saved; the lock outlives the exception.
WriteFailsSilently(t) ==
  /\ MayFail
  /\ Goto(t, "replace", "release")
  /\ UNCHANGED <<disk, mem, up, lock, snap, change, told>>

WriteFailsLocked(t) ==
  /\ MayFail
  /\ Goto(t, "replace", "idle")
  /\ Done(t)
  /\ UNCHANGED <<disk, mem, up, lock, told>>

\* The write of the temporary file fails: it is unlinked, the exception is
\* raised, the dict keeps the change.
WriteFails(t) ==
  /\ MayFail
  /\ Goto(t, "replace", "idle")
  /\ lock' = Free
  /\ Done(t)
  /\ UNCHANGED <<disk, mem, up, told>>

\* The process is killed; the operating system releases its file lock.
Crash(p) ==
  /\ MayFail
  /\ p \in up
  /\ up' = up \ {p}
  /\ mem' = [mem EXCEPT ![p] = {}]
  /\ lock' = IF lock # Free /\ Home[lock] = p THEN Free ELSE lock
  /\ pc' = [t \in Threads |-> IF Home[t] = p THEN "idle" ELSE pc[t]]
  /\ snap' = [t \in Threads |-> IF Home[t] = p THEN {} ELSE snap[t]]
  /\ change' = [t \in Threads |-> IF Home[t] = p THEN NoChange ELSE change[t]]
  /\ UNCHANGED <<disk, told>>

-----------------------------------------------------------------------------
Save(t) ==
  \/ Copy(t) \/ CopyFails(t) \/ Acquire(t) \/ Replace(t) \/ Release(t)
  \/ LockTimeout(t) \/ WriteFails(t)

Call(t) ==
  \/ \E i \in Ids : Add(t, i) \/ Delete(t, i)
  \/ Touch(t)
  \/ \E max \in 0..Cardinality(Ids) : Prune(t, max)

Observe ==
  /\ mixed' = mixed \cup
       {p \in Procs : \E t, u \in Threads : /\ t # u /\ Home[t] = p /\ Home[u] = p
                                           /\ pc'[t] # "idle" /\ pc'[u] # "idle"}
  /\ met' = (met \/ \E p, q \in up' : p # q)

Step ==
  \/ \E t \in Threads : Save(t) \/ Call(t)
  \/ \E p \in Procs : Start(p) \/ Crash(p)

Next == Step /\ Observe

Spec == Init /\ [][Next]_vars

-----------------------------------------------------------------------------
\* Type invariant of the file, the dicts and the threads.
TypeOK ==
  /\ disk \subseteq Ids
  /\ mem \in [Procs -> SUBSET Ids]
  /\ up \subseteq Procs
  /\ lock \in Threads \cup {Free}
  /\ pc \in [Threads -> {"idle", "copy", "lock", "replace", "release"}]
  /\ snap \in [Threads -> SUBSET Ids]
  /\ change \in [Threads -> [added : SUBSET Ids, removed : SUBSET Ids]]
  /\ told \in [Ids -> {"nothing", "stored", "removed"}]
  /\ \A t \in Threads : pc[t] = "idle" => snap[t] = {} /\ change[t] = NoChange
  /\ mixed \subseteq Procs
  /\ met \in BOOLEAN

\* The FileLock between the processes: when a call is about to return, the
\* file says what the call reports, whatever other processes write - provided
\* that its own process makes one call at a time.
SavedWhenReturning ==
  \A t \in Threads : (pc[t] = "release" /\ Home[t] \notin mixed) =>
    change[t].added \subseteq disk /\ change[t].removed \cap disk = {}

\* The FileLock is never left behind: whoever holds it is at the file, and
\* failed writes and kills have released it - else every later call of every
\* process would end in a Timeout.
LockInUse == lock # Free => pc[lock] \in {"replace", "release"}

ReportsTrue ==
  \A i \in Ids : /\ told[i] = "stored" => i \in disk
                 /\ told[i] = "removed" => i \notin disk

\* "single-writer" (docs/ARCHITECTURE.md): one process at a time, one call at a
\* time.  What add, delete and prune reported then survives write errors, kills
\* and the hand-over of the file to another process: nothing reported as stored
\* is missing from the file, nothing reported as removed comes back.
ReportsHold == (~met /\ mixed = {}) => ReportsTrue

\* "Persist entries to disk", within one process, whichever of its threads
\* makes the call.
ReportsHoldInProcess == ~met => ReportsTrue

=============================================================================
