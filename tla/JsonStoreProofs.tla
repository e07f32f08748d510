-------------------------- MODULE JsonStoreProofs --------------------------
(***************************************************************************)
(* Proofs about JsonStore, for any number of processes and threads.  In a  *)
(* process that makes one call at a time, a call returns only when the     *)
(* file agrees with its report; while one process at a time runs and makes *)
(* one call at a time, the reports stay true through failed writes, kills  *)
(* and restarts.                                                           *)
(***************************************************************************)
EXTENDS JsonStore, TLAPS

Places == {"idle", "copy", "lock", "replace", "release"}

\* The shape of the state that the arguments below need.
Shape ==
  /\ disk \subseteq Ids
  /\ lock \in Threads \cup {Free}
  /\ mem \in [Procs -> SUBSET Ids]
  /\ snap \in [Threads -> SUBSET Ids]
  /\ pc \in [Threads -> Places]
  /\ change \in [Threads -> [added : SUBSET Ids, removed : SUBSET Ids]]
  /\ \A t \in Threads : pc[t] # "idle" => Home[t] \in up
  /\ \A t \in Threads : pc[t] = "idle" => change[t] = NoChange

\* The history variable knows the processes with two calls at a time.
Apart ==
  \A t, u \in Threads :
    (t # u /\ Home[t] = Home[u] /\ pc[t] # "idle" /\ pc[u] # "idle") => Home[t] \in mixed

\* The thread at the file holds the lock.
LockOwned ==
  \A t \in Threads : pc[t] \in {"replace", "release"} => lock = t

Reflects(ids, t) == change[t].added \subseteq ids /\ change[t].removed \cap ids = {}

\* The change of a call goes from the dict to the copy and on to the file.
Carried ==
  \A t \in Threads : Home[t] \notin mixed =>
    /\ pc[t] = "copy" => Reflects(mem[Home[t]], t)
    /\ pc[t] \in {"lock", "replace", "release"} => Reflects(snap[t], t)
    /\ pc[t] = "release" => disk = snap[t]

IInv == Shape /\ LockOwned /\ LockInUse /\ Apart /\ Carried

-----------------------------------------------------------------------------
LEMMA HomeType == \A t \in Threads : Home[t] \in Procs
BY StoreAssumption

\* The calls of a thread are changes that add and remove disjoint sets.
LEMMA CallIsChange ==
  ASSUME NEW t \in Threads, Call(t), Shape
  PROVE  \E added, removed \in SUBSET Ids :
           added \cap removed = {} /\ Change(t, added, removed)
<1>0. Home[t] \in Procs BY HomeType
<1>m. mem[Home[t]] \subseteq Ids BY <1>0 DEF Shape
<1>1. CASE \E i \in Ids : Add(t, i)
  BY <1>1 DEF Add
<1>2. CASE \E i \in Ids : Delete(t, i)
  BY <1>2 DEF Delete
<1>3. CASE \E max \in 0..Cardinality(Ids) : Prune(t, max)
  <2>1. PICK kept \in SUBSET mem[Home[t]] : Change(t, {}, mem[Home[t]] \ kept)
    BY <1>3 DEF Prune
  <2>. QED BY <2>1, <1>m
<1>4. CASE Touch(t)
  BY <1>4 DEF Touch
<1>. QED BY <1>1, <1>2, <1>3, <1>4 DEF Call

LEMMA InitIInv == Init => IInv
BY FreeIsNoThread DEF Init, IInv, Shape, LockOwned, LockInUse, Apart, Carried, Places, NoChange

\* What the history variables record of a step.
LEMMA History ==
  ASSUME Shape, Apart, [Next]_vars
  PROVE  mixed \subseteq mixed' /\ (met => met') /\ Apart'
<1>1. CASE Next
  <2>1. mixed \subseteq mixed' /\ (met => met')
    BY <1>1 DEF Next, Observe
  <2>2. Apart'
    BY <1>1, HomeType DEF Next, Observe, Apart
  <2>. QED BY <2>1, <2>2
<1>2. CASE UNCHANGED vars
  BY <1>2 DEF vars, Apart
<1>. QED BY <1>1, <1>2

\* No step breaks the inductive invariant.
LEMMA StepIInv ==
  ASSUME IInv, [Next]_vars
  PROVE  IInv'
<1>0. mixed \subseteq mixed' /\ Apart'
  BY History DEF IInv
<1>. USE <1>0, HomeType, FreeIsNoThread DEF IInv, Places
<1>1. ASSUME NEW t \in Threads, NEW added \in SUBSET Ids, NEW removed \in SUBSET Ids,
             added \cap removed = {}, Change(t, added, removed)
      PROVE  IInv'
  <2>1. Shape' BY <1>1 DEF Change, Goto, Shape
  <2>2. LockOwned' /\ LockInUse' BY <1>1 DEF Change, Goto, LockOwned, LockInUse, Shape
  <2>3. \A u \in Threads \ {t} :
          (Home[u] = Home[t] /\ Home[u] \notin mixed') => pc[u] = "idle"
    BY <1>1 DEF Change, Goto, Apart, Shape
  <2>4. Carried' BY <1>1, <2>3 DEF Change, Goto, Carried, Reflects, Shape
  <2>. QED BY <2>1, <2>2, <2>4
<1>2. ASSUME NEW t \in Threads, Copy(t) PROVE IInv'
  <2>1. Shape' BY <1>2 DEF Copy, Goto, Shape
  <2>2. LockOwned' /\ LockInUse' BY <1>2 DEF Copy, Goto, LockOwned, LockInUse, Shape
  <2>3. Carried' BY <1>2 DEF Copy, Goto, Carried, Reflects, Shape
  <2>. QED BY <2>1, <2>2, <2>3
<1>3. ASSUME NEW t \in Threads, CopyFails(t) \/ LockTimeout(t) \/ WriteFails(t) PROVE IInv'
  <2>. USE DEF CopyFails, LockTimeout, WriteFails, Done, NoChange, Goto
  <2>0. NoChange \in [added : SUBSET Ids, removed : SUBSET Ids]
    OBVIOUS
  <2>1. Shape'
    <3>1. pc' \in [Threads -> Places] /\ snap' \in [Threads -> SUBSET Ids]
      BY <1>3 DEF Shape
    <3>2. change' \in [Threads -> [added : SUBSET Ids, removed : SUBSET Ids]]
      BY <1>3 DEF Shape
    <3>3. \A u \in Threads : pc'[u] = "idle" => change'[u] = NoChange
      BY <1>3 DEF Shape
    <3>. QED BY <1>3, <3>1, <3>2, <3>3 DEF Shape
  <2>2. LockOwned' BY <1>3 DEF LockOwned, Shape
  <2>3. LockInUse' BY <1>3 DEF LockInUse, LockOwned, Shape
  <2>4. Carried' BY <1>3 DEF Carried, Reflects, Shape
  <2>. QED BY <2>1, <2>2, <2>3, <2>4
<1>4. ASSUME NEW t \in Threads, Acquire(t) PROVE IInv'
  <2>1. Shape' BY <1>4 DEF Acquire, Goto, Shape
  <2>2. LockOwned' /\ LockInUse' BY <1>4 DEF Acquire, Goto, LockOwned, LockInUse, Shape
  <2>3. Carried' BY <1>4 DEF Acquire, Goto, Carried, Reflects, Shape
  <2>. QED BY <2>1, <2>2, <2>3
<1>5. ASSUME NEW t \in Threads, Replace(t) PROVE IInv'
  <2>1. Shape' BY <1>5 DEF Replace, Goto, Shape
  <2>2. LockOwned' /\ LockInUse' BY <1>5 DEF Replace, Goto, LockOwned, LockInUse, Shape
  <2>3. \A u \in Threads : u # t => pc[u] \notin {"replace", "release"}
    BY <1>5 DEF Replace, Goto, LockOwned
  <2>4. Carried' BY <1>5, <2>3 DEF Replace, Goto, Carried, Reflects, Shape
  <2>. QED BY <2>1, <2>2, <2>4
<1>6. ASSUME NEW t \in Threads, Release(t) PROVE IInv'
  <2>1. Shape' BY <1>6 DEF Release, Goto, Done, NoChange, Shape
  <2>2. LockOwned' /\ LockInUse' BY <1>6 DEF Release, Goto, LockOwned, LockInUse, Shape
  <2>3. Carried' BY <1>6 DEF Release, Goto, Done, NoChange, Carried, Reflects, Shape
  <2>. QED BY <2>1, <2>2, <2>3
<1>7. ASSUME NEW p \in Procs, Start(p) PROVE IInv'
  <2>1. Shape' BY <1>7 DEF Start, Shape
  <2>2. LockOwned' /\ LockInUse' BY <1>7 DEF Start, LockOwned, LockInUse
  <2>3. Carried' BY <1>7 DEF Start, Carried, Reflects, Shape
  <2>. QED BY <2>1, <2>2, <2>3
<1>8. ASSUME NEW p \in Procs, Crash(p) PROVE IInv'
  <2>1. Shape'
    <3>1. pc' \in [Threads -> Places] /\ mem' \in [Procs -> SUBSET Ids]
      BY <1>8 DEF Crash, Shape
    <3>2. snap' \in [Threads -> SUBSET Ids]
      BY <1>8 DEF Crash, Shape
    <3>3. change' \in [Threads -> [added : SUBSET Ids, removed : SUBSET Ids]]
      BY <1>8 DEF Crash, NoChange, Shape
    <3>4. \A t \in Threads : pc'[t] # "idle" => Home[t] \in up'
      BY <1>8 DEF Crash, Shape
    <3>5. \A t \in Threads : pc'[t] = "idle" => change'[t] = NoChange
      BY <1>8 DEF Crash, Shape
    <3>. QED BY <1>8, <3>1, <3>2, <3>3, <3>4, <3>5 DEF Crash, Shape
  <2>2. LockOwned' BY <1>8 DEF Crash, LockOwned, Shape
  <2>3. LockInUse' BY <1>8 DEF Crash, LockInUse, LockOwned, Shape
  <2>4. Carried' BY <1>8 DEF Crash, Carried, Reflects, Shape
  <2>. QED BY <2>1, <2>2, <2>3, <2>4
<1>9. CASE UNCHANGED vars
  BY <1>9 DEF vars, Shape, LockOwned, LockInUse, Carried, Reflects
<1>10. ASSUME NEW t \in Threads, Call(t) PROVE IInv'
  BY <1>1, <1>10, CallIsChange
<1>11. ASSUME NEW t \in Threads, Save(t) PROVE IInv'
  BY <1>2, <1>3, <1>4, <1>5, <1>6, <1>11 DEF Save
<1>. QED BY <1>7, <1>8, <1>9, <1>10, <1>11 DEF Next, Step

LEMMA InvariantHolds == Spec => []IInv
<1>1. IInv /\ [Next]_vars => IInv' BY StepIInv
<1>. QED BY InitIInv, <1>1, PTL DEF Spec

\* What a call reports is true of the file when it returns, for any number of
\* processes, in each process that makes one call at a time.
THEOREM ReportTrueOnReturn == Spec => []SavedWhenReturning
<1>1. IInv => SavedWhenReturning BY DEF IInv, Carried, Reflects, SavedWhenReturning
<1>. QED BY <1>1, InvariantHolds, PTL

\* The file lock is free or held by a thread that is at the file.
THEOREM LockNeverLeftBehind == Spec => []LockInUse
<1>1. IInv => LockInUse BY DEF IInv
<1>. QED BY <1>1, InvariantHolds, PTL

-----------------------------------------------------------------------------
(* A single writer at a time                                               *)

\* The "single-writer" of docs/ARCHITECTURE.md, so far.
Solo == ~met /\ mixed = {}

Agrees(i, ids) == (told[i] = "stored" => i \in ids) /\ (told[i] = "removed" => i \notin ids)

\* The file, the dict that was loaded from it and the copy that will replace
\* it agree with the reports.
Agreed ==
  \A i \in Ids :
    /\ Agrees(i, disk)
    /\ \A p \in up : Agrees(i, mem[p])
    /\ \A t \in Threads : pc[t] \in {"lock", "replace", "release"} => Agrees(i, snap[t])

Told == told \in [Ids -> {"nothing", "stored", "removed"}]

\* The history variable knows whether two processes ran at a time.
Unmet == up \subseteq Procs /\ (~met => \A p, q \in up : p = q)

Writer == Told /\ Unmet /\ (Solo => Agreed)

LEMMA StepAgreed ==
  ASSUME IInv, IInv', Told, Unmet, Unmet', Solo, Solo', Agreed, [Next]_vars
  PROVE  Agreed'
\* One call at a time, in one process.
<1>a. /\ \A t, u \in Threads : pc[t] # "idle" /\ pc[u] # "idle" => t = u
      /\ \A t, u \in Threads : pc'[t] # "idle" /\ pc'[u] # "idle" => t = u
  BY HomeType DEF IInv, Shape, Apart, Solo, Unmet
<1>. USE <1>a, HomeType DEF Agreed, Agrees, Told, Unmet, Solo
<1>1. ASSUME NEW t \in Threads, NEW added \in SUBSET Ids, NEW removed \in SUBSET Ids,
             added \cap removed = {}, Change(t, added, removed)
      PROVE  Agreed'
  BY <1>1 DEF Change, Goto, IInv, Shape
<1>2. ASSUME NEW t \in Threads, Copy(t) PROVE Agreed'
  BY <1>2 DEF Copy, Goto, IInv, Shape
<1>3. ASSUME NEW t \in Threads, CopyFails(t) \/ LockTimeout(t) \/ WriteFails(t)
      PROVE  Agreed'
  <2>1. UNCHANGED <<disk, mem, up, told>>
    BY <1>3 DEF CopyFails, LockTimeout, WriteFails
  <2>2. \A u \in Threads : pc'[u] \in {"lock", "replace", "release"} =>
                            pc'[u] = pc[u] /\ snap'[u] = snap[u]
    BY <1>3 DEF CopyFails, LockTimeout, WriteFails, Done, Goto, IInv, Shape
  <2>. QED BY <2>1, <2>2
<1>4. ASSUME NEW t \in Threads, Acquire(t) PROVE Agreed'
  BY <1>4 DEF Acquire, Goto, IInv, Shape
<1>5. ASSUME NEW t \in Threads, Replace(t) PROVE Agreed'
  BY <1>5 DEF Replace, Goto, IInv, Shape
<1>6. ASSUME NEW t \in Threads, Release(t) PROVE Agreed'
  <2>1. pc[t] = "release" /\ \A u \in Threads \ {t} : pc[u] = "idle"
    BY <1>6 DEF Release, Goto
  <2>2. \A i \in Ids : \A u \in Threads \ {t} : i \notin Touched(u)
    BY <2>1 DEF Touched, NoChange, IInv, Shape
  <2>3. \A i \in Ids : told'[i] =
          IF i \in change[t].added \cap mem[Home[t]] THEN "stored"
          ELSE IF i \in change[t].removed \ mem[Home[t]] THEN "removed" ELSE told[i]
    BY <1>6, <2>2 DEF Release
  <2>4. \A i \in Ids : (told'[i] = "stored" => i \in disk) /\ (told'[i] = "removed" => i \notin disk)
    BY <2>1, <2>3 DEF IInv, Carried, Reflects
  <2>5. \A p \in up : p = Home[t]
    BY <2>1 DEF IInv, Shape
  <2>6. \A i \in Ids : \A p \in up :
          /\ told'[i] = "stored" => i \in mem[p]
          /\ told'[i] = "removed" => i \notin mem[p]
    BY <2>3, <2>5
  <2>7. disk' = disk /\ mem' = mem /\ up' = up /\ \A u \in Threads : pc'[u] = "idle"
    BY <1>6, <2>1 DEF Release, Goto, IInv, Shape
  <2>. QED BY <2>4, <2>6, <2>7
<1>7. ASSUME NEW p \in Procs, Start(p) PROVE Agreed'
  BY <1>7 DEF Start, IInv, Shape
<1>8. ASSUME NEW p \in Procs, Crash(p) PROVE Agreed'
  BY <1>8 DEF Crash, IInv, Shape
<1>9. CASE UNCHANGED vars
  BY <1>9 DEF vars
<1>10. ASSUME NEW t \in Threads, Call(t) PROVE Agreed'
  BY <1>1, <1>10, CallIsChange DEF IInv
<1>11. ASSUME NEW t \in Threads, Save(t) PROVE Agreed'
  BY <1>2, <1>3, <1>4, <1>5, <1>6, <1>11 DEF Save
<1>. QED BY <1>7, <1>8, <1>9, <1>10, <1>11 DEF Next, Step

LEMMA StepTold ==
  ASSUME IInv, Told, Unmet, [Next]_vars
  PROVE  Told' /\ Unmet'
<1>1. CASE UNCHANGED vars
  BY <1>1 DEF vars, Told, Unmet
<1>2. CASE Next
  <2>1. Unmet'
    <3>1. up' \subseteq Procs
      <4>1. ASSUME NEW t \in Threads, Save(t) \/ Call(t) PROVE up' = up
        BY <4>1 DEF Save, Copy, CopyFails, Acquire, Replace, Release, LockTimeout, WriteFails,
                    Call, Add, Delete, Touch, Prune, Change
      <4>2. ASSUME NEW p \in Procs, Start(p) \/ Crash(p) PROVE up' \subseteq Procs
        BY <4>2 DEF Start, Crash, Unmet
      <4>. QED BY <1>2, <4>1, <4>2 DEF Next, Step, Unmet
    <3>2. ~met' => \A p, q \in up' : p = q
      BY <1>2 DEF Next, Observe
    <3>. QED BY <3>1, <3>2 DEF Unmet
  <2>2. Told'
    <3>1. ASSUME NEW t \in Threads, Call(t) PROVE Told'
      BY <3>1 DEF Call, Add, Delete, Touch, Prune, Change, Told
    <3>2. ASSUME NEW t \in Threads, Save(t) PROVE Told'
      BY <3>2 DEF Save, Copy, CopyFails, Acquire, Replace, Release, LockTimeout, WriteFails, Told
    <3>3. ASSUME NEW p \in Procs, Start(p) \/ Crash(p) PROVE Told'
      BY <3>3 DEF Start, Crash, Told
    <3>. QED BY <1>2, <3>1, <3>2, <3>3 DEF Next, Step
  <2>. QED BY <2>1, <2>2
<1>. QED BY <1>1, <1>2

\* While one process at a time runs and makes one call at a time, nothing
\* reported as stored is missing from the file and nothing reported as removed
\* comes back.
THEOREM SingleWriterKeepsReports == Spec => []ReportsHold
<1>1. Init => Writer
  BY DEF Init, Writer, Told, Unmet, Solo, Agreed, Agrees
<1>2. IInv /\ IInv' /\ Writer /\ [Next]_vars => Writer'
  <2>. SUFFICES ASSUME IInv, IInv', Writer, [Next]_vars PROVE Writer'
    OBVIOUS
  <2>1. Told' /\ Unmet'
    BY StepTold DEF Writer
  <2>2. Solo' => Solo
    BY History DEF IInv, Solo
  <2>3. ASSUME Solo' PROVE Agreed'
    BY <2>1, <2>2, <2>3, StepAgreed DEF Writer
  <2>. QED BY <2>1, <2>3 DEF Writer
<1>3. Writer => ReportsHold
  BY DEF Writer, Solo, Agreed, Agrees, ReportsHold, ReportsTrue
<1>. QED BY <1>1, <1>2, <1>3, InvariantHolds, PTL DEF Spec
=============================================================================
