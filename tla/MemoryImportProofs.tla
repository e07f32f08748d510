------------------------- MODULE MemoryImportProofs -------------------------
(***************************************************************************)
(* Proofs about imports of a manifest beside adds, reads and deletes of    *)
(* semantic entries, for any number of threads and ids, any manifest, any  *)
(* number of calls and of kills.                                           *)
(***************************************************************************)
EXTENDS MemoryImport, TLAPS

\* One connection at most holds the write lock; a snapshot that is not stale is
\* the table; a transaction left open by a failed statement changes nothing.
Locks ==
  /\ \A t, u \in Threads : tx[t] = "writing" /\ tx[u] = "writing" => t = u
  /\ \A t \in Threads : tx[t] = "reading" => view[t] = rows
  /\ \A t \in Threads : pc[t] \notin Committing /\ tx[t] = "writing" => view[t] = rows
  /\ \A t \in Threads : pc[t] \in Committing => tx[t] = "writing"

\* What the COMMIT of each statement is going to change.
Changed(t) ==
  /\ pc[t] = "counted" =>
       view[t] = [rows EXCEPT ![local[t].target] = IF @ = Absent THEN Absent ELSE local[t].count]
  /\ pc[t] \in {"added", "inserted"} =>
       rows[local[t].target] = Absent /\ view[t] = [rows EXCEPT ![local[t].target] = 0]
  /\ pc[t] \in {"deleted", "dropped"} => view[t] = [rows EXCEPT ![local[t].target] = Absent]

\* Two threads are busy with the same entry only if it is noted as raced.
Exclusive == \A t, u \in Threads : t # u => Busy(t) \cap Busy(u) \subseteq raced

\* As long as no INSERT has failed in its transaction, one lasts from its
\* statement to its commit; who has the lock outside of that has had one fail.
Clean ==
  /\ broke = {} =>
       ~tripped /\ \A t \in Threads : tx[t] = IF pc[t] \in Committing THEN "writing" ELSE "none"
  /\ \A t \in Threads : tx[t] = "writing" => t \in broke \/ pc[t] \in Committing

\* The lists of an import, along its way.
Listed(t) ==
  /\ local[t].put \subseteq Manifest
  /\ local[t].merge => local[t].drop = {}
  /\ pc[t] \in {"query", "put", "dropped", "inserted"} => local[t].bad # "episodic"
  /\ pc[t] \in {"episodic", "query"} => local[t].drop = {} /\ local[t].put = {}

\* How far an import without another call beside it has got.
Halfway(t) ==
  /\ pc[t] \in {"query", "put", "dropped", "inserted"} =>
       Manifest \subseteq episodic /\ (~local[t].merge => episodic = Manifest)
  /\ pc[t] \in {"put", "dropped", "inserted"} =>
       /\ Manifest \subseteq (Present(Seen(t)) \ local[t].drop) \cup local[t].put
       /\ Present(Seen(t)) \cap local[t].put \subseteq local[t].drop
       /\ ~local[t].merge => Present(Seen(t)) \subseteq Manifest \cup local[t].drop

Undisturbed == raced = {} => \A t \in Threads : Halfway(t)

\* The count a get is about to write, unless its snapshot lets it write nothing.
Counting ==
  \A t \in Threads :
    pc[t] \in {"update", "counted"} /\ tx[t] # "stale" /\ local[t].target \notin raced
      => local[t].count = gets[local[t].target] + 1

Pending == \A t \in Threads : Changed(t)
Lists == \A t \in Threads : Listed(t)

\* The inductive invariant of the stores and of the calls in progress.
IInv ==
  /\ TypeOK /\ Locks /\ Pending /\ Exclusive /\ Clean /\ Lists
  /\ StoredKept /\ Undisturbed /\ Counting /\ CountsExactAlone

-----------------------------------------------------------------------------
CallSet ==
  [merge : BOOLEAN, bad : {"none", "episodic", "semantic", "procedural"},
   drop : SUBSET Ids, put : SUBSET Ids, target : Ids, count : Nat]

LEMMA CallTypes ==
  /\ NoCall \in CallSet
  /\ \A c \in CallSet, i \in Ids :
       /\ [c EXCEPT !.target = i, !.drop = @ \ {i}] \in CallSet
       /\ [c EXCEPT !.target = i, !.put = @ \ {i}] \in CallSet
       /\ [c EXCEPT !.target = i] \in CallSet
<1>1. (CHOOSE i \in Ids : TRUE) \in Ids BY ImportAssumption
<1>. QED BY <1>1 DEF NoCall, CallSet

LEMMA InitIInv == Init => IInv
<1>. SUFFICES ASSUME Init PROVE IInv OBVIOUS
<1>. USE DEF Init, InitStore
<1>1. TypeOK
  <2>1. StoreTypeOK BY DEF StoreTypeOK, Empty, Absent
  <2>2. local \in [Threads -> CallSet] BY CallTypes
  <2>3. calls \in 0 .. MaxCalls /\ kills \in 0 .. Kills BY ImportAssumption
  <2>4. stored \in [episodic : SUBSET Ids, semantic : SUBSET Ids, procedural : SUBSET Ids]
    OBVIOUS
  <2>. QED BY <2>1, <2>2, <2>3, <2>4 DEF TypeOK, CallSet
<1>2. ~tripped /\ \A t \in Threads : pc[t] = "idle" /\ tx[t] = "none" OBVIOUS
<1>2a. Pending /\ Exclusive BY <1>2 DEF Pending, Changed, Exclusive, Busy
<1>2b. Locks /\ Clean BY <1>2 DEF Locks, Clean, Committing
<1>3. Lists /\ Undisturbed /\ Counting
  BY <1>2 DEF Lists, Listed, NoCall, Undisturbed, Halfway, Counting
<1>4. Present(rows) = {} BY DEF Present, Empty, Absent
<1>5. StoredKept /\ CountsExactAlone BY <1>4 DEF StoredKept, CountsExactAlone
<1>. QED BY <1>1, <1>2a, <1>2b, <1>3, <1>5 DEF IInv

-----------------------------------------------------------------------------
(* Types                                                                   *)

\* The statements of the store keep its types.
LEMMA StoreTypes ==
  ASSUME TypeOK, NEW t \in Threads
  PROVE  /\ Seen(t) \in [Ids -> Nat \cup {Absent}]
         /\ Select(t) => StoreTypeOK'
         /\ Unbound(t) => StoreTypeOK'
         /\ Refused(t) => StoreTypeOK'
         /\ Commit(t) => StoreTypeOK'
         /\ \A table \in [Ids -> Nat \cup {Absent}] : Write(t, table) => StoreTypeOK'
<1>. USE DEF TypeOK, StoreTypeOK
<1>1. Seen(t) \in [Ids -> Nat \cup {Absent}] BY DEF Seen
<1>2. Select(t) => StoreTypeOK' BY DEF Select
<1>3. Unbound(t) => StoreTypeOK' BY DEF Unbound
<1>3a. Refused(t) => StoreTypeOK' BY <1>3 DEF Refused
<1>4. Commit(t) => StoreTypeOK' BY DEF Commit, Empty
<1>5. ASSUME NEW table \in [Ids -> Nat \cup {Absent}], Write(t, table) PROVE StoreTypeOK'
  BY <1>5 DEF Write
<1>. QED BY <1>1, <1>2, <1>3, <1>3a, <1>4, <1>5

LEMMA RunTypes == ASSUME TypeOK, NEW t \in Threads, Run(t) PROVE TypeOK'
<1>. USE DEF Goto, Set, Return, bounds, jsons, history, store, Committing, CallSet
<1>a. /\ NoCall \in CallSet
      /\ Seen(t) \in [Ids -> Nat \cup {Absent}]
      /\ Manifest \subseteq Ids
  BY CallTypes, StoreTypes, ImportAssumption
<1>1. CASE GetNone(t)
  <2>1. StoreTypeOK' BY <1>1, StoreTypes DEF GetNone
  <2>. QED BY <1>1, <1>a, <2>1 DEF GetNone, TypeOK
<1>2. CASE GetSelect(t)
  <2>1. StoreTypeOK' BY <1>2, StoreTypes DEF GetSelect
  <2>2. Seen(t)[local[t].target] + 1 \in Nat
    BY <1>2, <1>a DEF GetSelect, TypeOK, Absent
  <2>. QED BY <1>2, <1>a, <2>1, <2>2 DEF GetSelect, TypeOK
<1>3. CASE GetUpdate(t)
  <2>1. StoreTypeOK' BY <1>3, <1>a, StoreTypes DEF GetUpdate, Update, TypeOK, Absent
  <2>. QED BY <1>3, <2>1 DEF GetUpdate, TypeOK
<1>4. CASE GetCommit(t)
  <2>1. StoreTypeOK' BY <1>4, StoreTypes DEF GetCommit
  <2>. QED BY <1>4, <1>a, <2>1 DEF GetCommit, TypeOK
<1>5. CASE AddInsert(t)
  <2>1. StoreTypeOK' BY <1>5, <1>a, StoreTypes DEF AddInsert, Insert, TypeOK
  <2>. QED BY <1>5, <2>1 DEF AddInsert, TypeOK
<1>6. CASE AddCommit(t)
  <2>1. StoreTypeOK' BY <1>6, StoreTypes DEF AddCommit
  <2>2. local[t].target \in Ids BY DEF TypeOK
  <2>. QED BY <1>6, <1>a, <2>1, <2>2 DEF AddCommit, NoteAdded, TypeOK
<1>7. CASE DeleteRow(t)
  <2>1. StoreTypeOK' BY <1>7, <1>a, StoreTypes DEF DeleteRow, Delete, TypeOK
  <2>. QED BY <1>7, <2>1 DEF DeleteRow, TypeOK
<1>8. CASE DeleteCommit(t)
  <2>1. StoreTypeOK' BY <1>8, StoreTypes DEF DeleteCommit
  <2>. QED BY <1>8, <1>a, <2>1 DEF DeleteCommit, NoteDeleted, TypeOK
<1>9. CASE LockedOut(t)
  <2>1. StoreTypeOK' BY <1>9, StoreTypes DEF LockedOut
  <2>. QED BY <1>9, <1>a, <2>1 DEF LockedOut, TypeOK
<1>10. CASE ImportEpisodic(t)
  <2>1. /\ episodic' \subseteq Ids /\ Reported(t, "episodic", stored.episodic) \subseteq Ids
    BY <1>10, <1>a DEF ImportEpisodic, After, Reported, TypeOK
  <2>2. StoreTypeOK' BY <1>10 DEF ImportEpisodic, TypeOK, StoreTypeOK
  <2>3. stored' \in [episodic : SUBSET Ids, semantic : SUBSET Ids, procedural : SUBSET Ids]
    BY <1>10, <2>1 DEF ImportEpisodic, TypeOK
  <2>4. /\ pc' \in [Threads -> {"idle", "get", "update", "add", "delete", "episodic", "query", "put"}
                                \cup Committing]
        /\ local' \in [Threads -> CallSet]
    BY <1>10, <1>a DEF ImportEpisodic, TypeOK
  <2>. QED BY <1>10, <2>1, <2>2, <2>3, <2>4 DEF ImportEpisodic, TypeOK
<1>11. CASE ImportQuery(t)
  <2>1. StoreTypeOK' BY <1>11, StoreTypes DEF ImportQuery
  <2>. QED BY <1>11, <1>a, <2>1 DEF ImportQuery, Present, TypeOK
<1>12. CASE ImportDeleted(t)
  <2>1. StoreTypeOK' BY <1>12, StoreTypes DEF ImportDeleted
  <2>. QED BY <1>12, <2>1 DEF ImportDeleted, NoteDeleted, TypeOK
<1>13. CASE ImportInserted(t)
  <2>1. StoreTypeOK' BY <1>13, StoreTypes DEF ImportInserted
  <2>. QED BY <1>13, <2>1 DEF ImportInserted, NoteAdded, TypeOK
<1>14. ASSUME NEW i \in Ids, ImportDelete(t, i) PROVE TypeOK'
  <2>1. StoreTypeOK' BY <1>14, <1>a, StoreTypes DEF ImportDelete, Delete, TypeOK
  <2>. QED BY <1>14, <2>1 DEF ImportDelete, TypeOK
<1>15. ASSUME NEW i \in Ids, ImportInsert(t, i) PROVE TypeOK'
  <2>1. StoreTypeOK' BY <1>15, <1>a, StoreTypes DEF ImportInsert, Insert, TypeOK
  <2>2. [local[t] EXCEPT !.target = i, !.put = @ \ {i}] \in CallSet
    BY CallTypes DEF TypeOK
  <2>. QED BY <1>15, <2>1, <2>2 DEF ImportInsert, TypeOK
<1>16. ASSUME NEW i \in Ids, ImportClash(t, i) PROVE TypeOK'
  <2>1. StoreTypeOK' BY <1>16, <1>a, StoreTypes DEF ImportClash, Duplicate, BreaksConstraint
  <2>. QED BY <1>16, <1>a, <2>1 DEF ImportClash, TypeOK
<1>17. CASE ImportRaises(t)
  <2>1. StoreTypeOK'
    <3>1. CASE UNCHANGED store BY <3>1 DEF TypeOK, StoreTypeOK
    <3>2. CASE Unbound(t) BY <3>2, StoreTypes
    <3>3. CASE BreaksConstraint(t) BY <3>3, <1>a, StoreTypes DEF BreaksConstraint
    <3>. QED BY <1>17, <3>1, <3>2, <3>3 DEF ImportRaises
  <2>. QED BY <1>17, <1>a, <2>1 DEF ImportRaises, TypeOK
<1>18. CASE ImportProcedural(t)
  <2>1. /\ procedural' \subseteq Ids /\ Reported(t, "procedural", stored.procedural) \subseteq Ids
    BY <1>18, <1>a DEF ImportProcedural, After, Reported, TypeOK
  <2>2. StoreTypeOK' BY <1>18 DEF ImportProcedural, TypeOK, StoreTypeOK
  <2>. QED BY <1>18, <1>a, <2>1, <2>2 DEF ImportProcedural, TypeOK
<1>. QED
  BY <1>1, <1>2, <1>3, <1>4, <1>5, <1>6, <1>7, <1>8, <1>9, <1>10, <1>11, <1>12, <1>13, <1>14,
     <1>15, <1>16, <1>17, <1>18 DEF Run

-----------------------------------------------------------------------------
(* The kinds of step                                                       *)

\* What a step of t leaves alone.
Frame(t) ==
  /\ pc[t] # "idle"
  /\ \A u \in Threads \ {t} : pc'[u] = pc[u] /\ local'[u] = local[u]
  /\ raced' = raced /\ Busy(t)' \subseteq Busy(t)
  /\ broke \subseteq broke'
  /\ tripped' = tripped \/ LockedOut(t)

\* A step that changes no table; a statement that writes; one that breaks a
\* constraint; a commit.
Quiet(t) ==
  /\ pc[t] \notin Committing /\ pc'[t] \notin Committing
  /\ \/ Select(t) \/ UNCHANGED store
     \/ Unbound(t) /\ (LockedOut(t) \/ t \in broke')
Opens(t) ==
  /\ pc[t] \notin Committing /\ pc'[t] \in Committing
  /\ \E table \in [Ids -> Nat \cup {Absent}] : Write(t, table)
Fails(t) ==
  /\ pc[t] \notin Committing /\ pc'[t] \notin Committing
  /\ Write(t, Seen(t)) /\ t \in broke'
Closes(t) == pc[t] \in Committing /\ pc'[t] \notin Committing /\ Commit(t)

LEMMA RunKinds ==
  ASSUME TypeOK, NEW t \in Threads, Run(t)
  PROVE  Frame(t) /\ (Quiet(t) \/ Opens(t) \/ Fails(t) \/ Closes(t))
<1>. USE DEF Goto, Set, Return, bounds, jsons, history, Committing, Busy, TypeOK
<1>a. Seen(t) \in [Ids -> Nat \cup {Absent}] BY StoreTypes
<1>1. CASE GetNone(t)
  BY <1>1 DEF GetNone, Frame, Quiet
<1>2. CASE GetSelect(t)
  BY <1>2 DEF GetSelect, Frame, Quiet
<1>3. CASE GetUpdate(t)
  <2>1. Frame(t) BY <1>3 DEF GetUpdate, Frame
  <2>2. Opens(t) BY <1>3, <1>a DEF GetUpdate, Update, Opens
  <2>. QED BY <2>1, <2>2
<1>4. CASE GetCommit(t)
  BY <1>4 DEF GetCommit, Frame, Closes
<1>5. CASE AddInsert(t)
  <2>1. Frame(t) BY <1>5 DEF AddInsert, Frame
  <2>2. Opens(t) BY <1>5, <1>a DEF AddInsert, Insert, Opens
  <2>. QED BY <2>1, <2>2
<1>6. CASE AddCommit(t)
  BY <1>6 DEF AddCommit, NoteAdded, Frame, Closes
<1>7. CASE DeleteRow(t)
  <2>1. Frame(t) BY <1>7 DEF DeleteRow, Frame
  <2>2. Opens(t) BY <1>7, <1>a DEF DeleteRow, Delete, Opens
  <2>. QED BY <2>1, <2>2
<1>8. CASE DeleteCommit(t)
  BY <1>8 DEF DeleteCommit, NoteDeleted, Frame, Closes
<1>9. CASE LockedOut(t)
  <2>1. pc[t] \in {"update", "add", "delete", "put"} BY <1>9 DEF LockedOut, Writes
  <2>2. pc' = [pc EXCEPT ![t] = "idle"] /\ local' = [local EXCEPT ![t] = NoCall]
    BY <1>9 DEF LockedOut
  <2>3. Frame(t) BY <1>9, <2>1, <2>2 DEF LockedOut, Frame
  <2>4. Quiet(t) BY <1>9, <2>1, <2>2 DEF Quiet, LockedOut, Refused
  <2>. QED BY <2>3, <2>4
<1>10. CASE ImportEpisodic(t)
  BY <1>10 DEF ImportEpisodic, Frame, Quiet
<1>11. CASE ImportQuery(t)
  BY <1>11 DEF ImportQuery, Frame, Quiet
<1>12. CASE ImportDeleted(t)
  BY <1>12 DEF ImportDeleted, NoteDeleted, Frame, Closes
<1>13. CASE ImportInserted(t)
  BY <1>13 DEF ImportInserted, NoteAdded, Frame, Closes
<1>14. ASSUME NEW i \in Ids, ImportDelete(t, i) PROVE Frame(t) /\ Opens(t)
  <2>1. Frame(t) BY <1>14 DEF ImportDelete, Frame
  <2>2. Opens(t) BY <1>14, <1>a DEF ImportDelete, Delete, Opens
  <2>. QED BY <2>1, <2>2
<1>15. ASSUME NEW i \in Ids, ImportInsert(t, i) PROVE Frame(t) /\ Opens(t)
  <2>1. Frame(t) BY <1>15 DEF ImportInsert, Frame
  <2>2. Opens(t) BY <1>15, <1>a DEF ImportInsert, Insert, Opens
  <2>. QED BY <2>1, <2>2
<1>16. ASSUME NEW i \in Ids, ImportClash(t, i) PROVE Frame(t) /\ Fails(t)
  <2>1. Frame(t) BY <1>16 DEF ImportClash, Frame
  <2>2. Fails(t) BY <1>16 DEF ImportClash, Duplicate, BreaksConstraint, Fails
  <2>. QED BY <2>1, <2>2
<1>17. CASE ImportRaises(t)
  <2>1. Frame(t) BY <1>17 DEF ImportRaises, Frame
  <2>2. pc[t] = "put" /\ pc'[t] = "idle" BY <1>17 DEF ImportRaises
  <2>3. CASE BreaksConstraint(t) /\ t \in broke' BY <2>1, <2>2, <2>3 DEF BreaksConstraint, Fails
  <2>4. CASE Unbound(t) /\ t \in broke' BY <2>1, <2>2, <2>4 DEF Quiet
  <2>5. CASE UNCHANGED store BY <2>1, <2>2, <2>5 DEF Quiet
  <2>6. \/ UNCHANGED store
        \/ (Unbound(t) \/ BreaksConstraint(t)) /\ t \in broke'
    BY <1>17 DEF ImportRaises, store
  <2>. QED BY <2>1, <2>3, <2>4, <2>5, <2>6
<1>18. CASE ImportProcedural(t)
  BY <1>18 DEF ImportProcedural, ListDone, Frame, Quiet
<1>. QED
  BY <1>1, <1>2, <1>3, <1>4, <1>5, <1>6, <1>7, <1>8, <1>9, <1>10, <1>11, <1>12, <1>13, <1>14,
     <1>15, <1>16, <1>17, <1>18 DEF Run

\* Outside a stale snapshot and between its statements a thread sees the table.
LEMMA SeesRows ==
  ASSUME TypeOK, Locks, NEW t \in Threads, pc[t] \notin Committing, tx[t] # "stale"
  PROVE  Seen(t) = rows
BY DEF Locks, Seen

LEMMA RunLocks ==
  ASSUME TypeOK, Locks, NEW t \in Threads, Run(t)
  PROVE  Locks'
<1>. USE DEF TypeOK, StoreTypeOK, Locks, Frame
<1>a. Frame(t) BY RunKinds
<1>1. CASE Quiet(t)
  <2>1. \A u \in Threads : pc'[u] \in Committing => u # t /\ pc[u] \in Committing
    BY <1>a, <1>1 DEF Quiet
  <2>2. \A u \in Threads : pc'[u] \notin Committing => pc[u] \notin Committing
    BY <1>a, <1>1 DEF Quiet
  <2>3. CASE Select(t) BY <2>1, <2>2, <2>3 DEF Select
  <2>4. CASE Unbound(t) BY <2>1, <2>2, <2>4 DEF Unbound
  <2>5. CASE UNCHANGED store BY <2>1, <2>2, <2>5 DEF store
  <2>. QED BY <1>1, <2>3, <2>4, <2>5 DEF Quiet
<1>2. CASE Opens(t)
  <2>1. \A u \in Threads \ {t} : tx[u] # "writing" BY <1>2 DEF Opens, Write, Locked
  <2>2. /\ rows' = rows /\ tx' = [tx EXCEPT ![t] = "writing"]
        /\ \A u \in Threads \ {t} : view'[u] = view[u]
    BY <1>2 DEF Opens, Write
  <2>3. pc'[t] \in Committing BY <1>2 DEF Opens
  <2>. QED BY <1>a, <2>1, <2>2, <2>3
<1>3. CASE Fails(t)
  <2>1. Seen(t) = rows BY <1>3, SeesRows DEF Fails, Write
  <2>. QED BY <1>a, <1>3, <2>1 DEF Fails, Write, Locked
<1>4. CASE Closes(t)
  <2>1. \A u \in Threads \ {t} : tx[u] # "writing" BY <1>4 DEF Closes
  <2>2. \A u \in Threads \ {t} : pc'[u] \notin Committing BY <1>a, <2>1
  <2>3. /\ rows' = view[t] /\ tx'[t] = "none"
        /\ \A u \in Threads \ {t} :
             /\ view'[u] = view[u] /\ tx'[u] # "writing"
             /\ tx'[u] = "reading" => tx[u] = "reading" /\ view[t] = rows
    BY <1>4, <2>1 DEF Closes, Commit
  <2>4. pc'[t] \notin Committing BY <1>4 DEF Closes
  <2>. QED BY <2>1, <2>2, <2>3, <2>4
<1>. QED BY <1>1, <1>2, <1>3, <1>4, RunKinds

LEMMA RunExclusive ==
  ASSUME TypeOK, Exclusive, NEW t \in Threads, Run(t)
  PROVE  Exclusive'
<1>1. Frame(t) BY RunKinds
<1>2. \A u \in Threads \ {t} : Busy(u)' = Busy(u) BY <1>1 DEF Frame, Busy
<1>3. raced' = raced /\ Busy(t)' \subseteq Busy(t) BY <1>1 DEF Frame
<1>. QED BY <1>2, <1>3 DEF Exclusive

LEMMA RunClean ==
  ASSUME TypeOK, Locks, Clean, NEW t \in Threads, Run(t)
  PROVE  Clean'
<1>. USE DEF TypeOK, StoreTypeOK
<1>a. Frame(t) BY RunKinds
<1>1. ASSUME broke' = {}
      PROVE  ~tripped' /\ \A u \in Threads :
                tx'[u] = IF pc'[u] \in Committing THEN "writing" ELSE "none"
  <2>b. ~tripped /\ \A u \in Threads : tx[u] = IF pc[u] \in Committing THEN "writing" ELSE "none"
    BY <1>a, <1>1 DEF Frame, Clean
  <2>c. ~LockedOut(t) BY <2>b DEF LockedOut, Refused, Locked, Writes, Committing
  <2>d. ~tripped' /\ \A u \in Threads \ {t} : pc'[u] = pc[u] BY <1>a, <2>b, <2>c DEF Frame
  <2>1. CASE Quiet(t)
    BY <1>1, <2>b, <2>c, <2>d, <2>1 DEF Quiet, Select, store
  <2>2. CASE Opens(t)
    BY <2>b, <2>d, <2>2 DEF Opens, Write
  <2>3. CASE Fails(t)
    BY <1>1, <2>3 DEF Fails
  <2>4. CASE Closes(t)
    BY <2>b, <2>d, <2>4 DEF Closes, Commit
  <2>. QED BY <2>1, <2>2, <2>3, <2>4, RunKinds
<1>2. ASSUME NEW u \in Threads, tx'[u] = "writing"
      PROVE  u \in broke' \/ pc'[u] \in Committing
  <2>1. /\ broke \subseteq broke'
        /\ u # t => pc'[u] = pc[u]
        /\ tx[u] = "writing" => u \in broke \/ pc[u] \in Committing
    BY <1>a DEF Frame, Clean
  <2>2. CASE Quiet(t)
    <3>1. tx[u] = "writing" BY <1>2, <2>2 DEF Quiet, Select, Unbound, store
    <3>. QED BY <2>1, <2>2, <3>1 DEF Quiet
  <2>3. CASE Opens(t)
    <3>1. u # t => tx[u] = "writing" BY <1>2, <2>3 DEF Opens, Write
    <3>. QED BY <2>1, <2>3, <3>1 DEF Opens
  <2>4. CASE Fails(t)
    <3>1. u # t => tx[u] = "writing" BY <1>2, <2>4 DEF Fails, Write
    <3>. QED BY <2>1, <2>4, <3>1 DEF Fails
  <2>5. CASE Closes(t)
    <3>1. u # t /\ tx[u] = "writing" BY <1>2, <2>5 DEF Closes, Commit
    <3>. QED BY <2>1, <3>1
  <2>. QED BY <2>2, <2>3, <2>4, <2>5, RunKinds
<1>. QED BY <1>1, <1>2 DEF Clean

\* A COMMIT, and only that, changes the table; the other threads' statements
\* wait for the lock meanwhile.
LEMMA RunPending ==
  ASSUME TypeOK, Locks, Pending, NEW t \in Threads, Run(t)
  PROVE  Pending'
<1>. USE DEF TypeOK, StoreTypeOK, Goto, Set, Return
<1>a. Frame(t) BY RunKinds
<1>1. ASSUME NEW u \in Threads \ {t} PROVE Changed(u)'
  <2>1. pc'[u] = pc[u] /\ local'[u] = local[u] BY <1>a DEF Frame
  <2>2. CASE pc[u] \notin Committing
    BY <2>1, <2>2 DEF Changed, Committing
  <2>3. CASE pc[u] \in Committing
    <3>1. tx[u] = "writing" BY <2>3 DEF Locks
    <3>2. rows' = rows /\ view'[u] = view[u]
      <4>1. CASE Quiet(t)
        BY <4>1 DEF Quiet, Select, Unbound, store
      <4>2. CASE Opens(t) BY <3>1, <4>2 DEF Opens, Write, Locked
      <4>3. CASE Fails(t) BY <3>1, <4>3 DEF Fails, Write, Locked
      <4>4. CASE Closes(t) BY <3>1, <4>4 DEF Closes, Locks
      <4>. QED BY <4>1, <4>2, <4>3, <4>4, RunKinds
    <3>. QED BY <2>1, <3>2 DEF Pending, Changed
  <2>. QED BY <2>2, <2>3
<1>2. Changed(t)'
  <2>1. CASE pc'[t] \notin Committing BY <2>1 DEF Changed, Committing
  <2>2. ASSUME pc'[t] \in Committing PROVE Changed(t)'
    <3>1. Opens(t) BY <2>2, RunKinds DEF Quiet, Fails, Closes
    <3>2. pc[t] \notin Committing /\ rows' = rows /\ Seen(t) = rows
      BY <3>1, SeesRows DEF Opens, Write
    <3>3. CASE GetUpdate(t)
      BY <3>2, <3>3 DEF GetUpdate, Update, Write, Changed
    <3>4. CASE AddInsert(t)
      BY <3>2, <3>4 DEF AddInsert, Insert, Write, Changed
    <3>5. CASE DeleteRow(t)
      BY <3>2, <3>5 DEF DeleteRow, Delete, Write, Changed
    <3>6. ASSUME NEW i \in Ids, ImportDelete(t, i) PROVE Changed(t)'
      BY <3>2, <3>6 DEF ImportDelete, Delete, Write, Changed
    <3>7. ASSUME NEW i \in Ids, ImportInsert(t, i) PROVE Changed(t)'
      BY <3>2, <3>7 DEF ImportInsert, Insert, Write, Changed
    <3>8. GetUpdate(t) \/ AddInsert(t) \/ DeleteRow(t)
            \/ \E i \in Ids : ImportDelete(t, i) \/ ImportInsert(t, i)
      BY <2>2, <3>2 DEF Run, GetNone, GetSelect, GetCommit, AddCommit, DeleteCommit, LockedOut,
         ImportEpisodic, ImportQuery, ImportDeleted, ImportInserted, ImportClash, ImportRaises,
         ImportProcedural, Committing
    <3>. QED BY <3>3, <3>4, <3>5, <3>6, <3>7, <3>8
  <2>. QED BY <2>1, <2>2
<1>. QED BY <1>1, <1>2 DEF Pending

LEMMA RunLists ==
  ASSUME TypeOK, Lists, NEW t \in Threads, Run(t)
  PROVE  Lists'
<1>. USE DEF TypeOK, Goto, Set, Return, Committing
<1>a. Frame(t) BY RunKinds
<1>1. ASSUME NEW u \in Threads \ {t} PROVE Listed(u)'
  BY <1>a DEF Frame, Lists, Listed
<1>2. CASE local' = [local EXCEPT ![t] = NoCall] /\ pc' = [pc EXCEPT ![t] = "idle"]
  BY <1>1, <1>2 DEF Lists, Listed, NoCall
<1>3. Listed(t) /\ local[t] \in CallSet BY DEF Lists, CallSet
<1>. USE DEF CallSet
<1>4. ASSUME GetSelect(t) PROVE Listed(t)'
  <2>1. /\ local'[t].merge = local[t].merge /\ local'[t].drop = local[t].drop
        /\ local'[t].put = local[t].put /\ pc'[t] = "update"
    BY <1>3, <1>4 DEF GetSelect
  <2>. QED BY <1>3, <2>1 DEF Listed
<1>5. ASSUME GetUpdate(t) \/ AddInsert(t) \/ DeleteRow(t) PROVE Listed(t)'
  BY <1>3, <1>5 DEF GetUpdate, AddInsert, DeleteRow, Listed
<1>6. ASSUME ImportEpisodic(t) PROVE Listed(t)'
  BY <1>3, <1>6 DEF ImportEpisodic, Listed, NoCall
<1>7. ASSUME ImportQuery(t) PROVE Listed(t)'
  <2>1. /\ local'[t].merge = local[t].merge /\ local'[t].bad = local[t].bad
        /\ local[t].merge => local'[t].drop = local[t].drop
        /\ local'[t].put \subseteq Manifest /\ pc[t] = "query" /\ pc'[t] = "put"
    BY <1>3, <1>7 DEF ImportQuery
  <2>. QED BY <1>3, <2>1 DEF Listed
<1>8. ASSUME ImportDeleted(t) \/ ImportInserted(t) PROVE Listed(t)'
  BY <1>3, <1>8 DEF ImportDeleted, ImportInserted, Listed
<1>9. ASSUME NEW i \in Ids, ImportDelete(t, i) PROVE Listed(t)'
  <2>1. /\ local'[t].merge = local[t].merge /\ local'[t].bad = local[t].bad
        /\ local'[t].drop \subseteq local[t].drop /\ local'[t].put \subseteq local[t].put
        /\ pc[t] = "put" /\ pc'[t] \in {"dropped", "inserted"}
    BY <1>3, <1>9 DEF ImportDelete
  <2>. QED BY <1>3, <2>1 DEF Listed
<1>10. ASSUME NEW i \in Ids, ImportInsert(t, i) PROVE Listed(t)'
  <2>1. /\ local'[t].merge = local[t].merge /\ local'[t].bad = local[t].bad
        /\ local'[t].drop \subseteq local[t].drop /\ local'[t].put \subseteq local[t].put
        /\ pc[t] = "put" /\ pc'[t] \in {"dropped", "inserted"}
    BY <1>3, <1>10 DEF ImportInsert
  <2>. QED BY <1>3, <2>1 DEF Listed
<1>11. ASSUME \/ GetNone(t) \/ GetCommit(t) \/ AddCommit(t) \/ DeleteCommit(t) \/ LockedOut(t)
              \/ ImportRaises(t) \/ ImportProcedural(t) \/ \E i \in Ids : ImportClash(t, i)
       PROVE  Lists'
  BY <1>2, <1>11 DEF GetNone, GetCommit, AddCommit, DeleteCommit, LockedOut, ImportRaises,
     ImportProcedural, ImportClash
<1>. QED
  BY <1>1, <1>4, <1>5, <1>6, <1>7, <1>8, <1>9, <1>10, <1>11 DEF Run, Lists

-----------------------------------------------------------------------------
(* What the steps do to the tables, the counts and the import's progress   *)

\* The commits, one by one.
LEMMA CommitRows ==
  ASSUME TypeOK, Locks, Pending, NEW t \in Threads, Run(t)
  PROVE  \/ rows' = rows /\ pc[t] \notin Committing
         \/ GetCommit(t) /\ rows' = [rows EXCEPT ![local[t].target] =
                                        IF @ = Absent THEN Absent ELSE local[t].count]
         \/ /\ AddCommit(t) \/ ImportInserted(t)
            /\ rows[local[t].target] = Absent
            /\ rows' = [rows EXCEPT ![local[t].target] = 0]
         \/ /\ DeleteCommit(t) \/ ImportDeleted(t)
            /\ rows' = [rows EXCEPT ![local[t].target] = Absent]
<1>1. CASE Quiet(t) \/ Opens(t) \/ Fails(t)
  BY <1>1 DEF Quiet, Opens, Fails, Select, Unbound, store, Write
<1>2. CASE Closes(t)
  <2>1. rows' = view[t] /\ Changed(t) BY <1>2 DEF Closes, Commit, Pending
  <2>2. GetCommit(t) \/ AddCommit(t) \/ DeleteCommit(t) \/ ImportDeleted(t) \/ ImportInserted(t)
    BY <1>2 DEF Closes, Committing, Run, GetNone, GetSelect, GetUpdate, AddInsert, DeleteRow,
       LockedOut, Writes, ImportEpisodic, ImportQuery, ImportDelete, ImportInsert, ImportClash,
       ImportRaises, ImportProcedural, ListDone, Goto, Return
  <2>. QED
    BY <2>1, <2>2 DEF Changed, GetCommit, AddCommit, DeleteCommit, ImportDeleted, ImportInserted,
       Goto
<1>. QED BY <1>1, <1>2, RunKinds

LEMMA RunStored ==
  ASSUME TypeOK, Locks, Pending, StoredKept, NEW t \in Threads, Run(t)
  PROVE  StoredKept'
<1>. USE DEF TypeOK, StoreTypeOK, bounds, jsons, history
<1>1. /\ stored.semantic \subseteq Present(rows)
      /\ stored.episodic \subseteq episodic /\ stored.procedural \subseteq procedural
  BY DEF StoredKept
<1>2. CASE ImportEpisodic(t)
  <2>1. /\ stored'.semantic = stored.semantic /\ stored'.procedural = stored.procedural
        /\ stored'.episodic = Reported(t, "episodic", stored.episodic)
        /\ episodic' \in After(t, "episodic", episodic)
        /\ rows' = rows /\ procedural' = procedural
    BY <1>2 DEF ImportEpisodic, store
  <2>2. stored'.episodic \subseteq episodic' BY <1>1, <2>1 DEF Reported, After
  <2>. QED BY <1>1, <2>1, <2>2 DEF StoredKept, Present
<1>3. CASE ImportProcedural(t)
  <2>1. /\ stored'.semantic = stored.semantic /\ stored'.episodic = stored.episodic
        /\ stored'.procedural = Reported(t, "procedural", stored.procedural)
        /\ procedural' \in After(t, "procedural", procedural)
        /\ rows' = rows /\ episodic' = episodic
    BY <1>3 DEF ImportProcedural, store
  <2>2. stored'.procedural \subseteq procedural' BY <1>1, <2>1 DEF Reported, After
  <2>. QED BY <1>1, <2>1, <2>2 DEF StoredKept, Present
<1>4. CASE GetCommit(t)
  <2>1. \A i \in Ids : rows[i] # Absent => rows'[i] # Absent
    BY <1>4, CommitRows DEF GetCommit, AddCommit, DeleteCommit, ImportInserted, ImportDeleted,
       Goto, Absent, Committing
  <2>2. Present(rows) \subseteq Present(rows') BY <2>1 DEF Present
  <2>. QED BY <1>1, <1>4, <2>2 DEF GetCommit, StoredKept, Present
<1>5. CASE AddCommit(t) \/ ImportInserted(t)
  <2>1. rows' = [rows EXCEPT ![local[t].target] = 0]
    BY <1>5, CommitRows DEF GetCommit, AddCommit, DeleteCommit, ImportInserted, ImportDeleted,
       Goto, Committing
  <2>2. Present(rows') = Present(rows) \cup {local[t].target} BY <2>1 DEF Present, Absent
  <2>3. /\ stored' = [stored EXCEPT !.semantic = @ \cup {local[t].target}]
        /\ episodic' = episodic /\ procedural' = procedural
    BY <1>5 DEF AddCommit, ImportInserted, NoteAdded
  <2>. QED BY <1>1, <2>2, <2>3 DEF StoredKept, Present
<1>6. CASE DeleteCommit(t) \/ ImportDeleted(t)
  <2>1. rows' = [rows EXCEPT ![local[t].target] = Absent]
    BY <1>6, CommitRows DEF GetCommit, AddCommit, DeleteCommit, ImportInserted, ImportDeleted,
       Goto, Committing
  <2>2. Present(rows') = Present(rows) \ {local[t].target} BY <2>1 DEF Present, Absent
  <2>3. /\ stored' = [stored EXCEPT !.semantic = @ \ {local[t].target}]
        /\ episodic' = episodic /\ procedural' = procedural
    BY <1>6 DEF DeleteCommit, ImportDeleted, NoteDeleted
  <2>. QED BY <1>1, <2>2, <2>3 DEF StoredKept, Present
<1>7. CASE UNCHANGED <<rows, stored, episodic, procedural>>
  BY <1>1, <1>7 DEF StoredKept, Present
<1>8. \/ ImportEpisodic(t) \/ ImportProcedural(t) \/ GetCommit(t) \/ AddCommit(t)
      \/ ImportInserted(t) \/ DeleteCommit(t) \/ ImportDeleted(t)
      \/ UNCHANGED <<rows, stored, episodic, procedural>>
  BY DEF Run, GetNone, GetSelect, GetUpdate, AddInsert, DeleteRow, LockedOut, ImportQuery,
     ImportDelete, ImportInsert, ImportClash, ImportRaises, store, Select, Update, Insert,
     Delete, Duplicate, Write, Refused, Unbound, BreaksConstraint
<1>. QED BY <1>2, <1>3, <1>4, <1>5, <1>6, <1>7, <1>8

\* Only a commit of the same entry changes the count of its accesses.
LEMMA RunCounts ==
  ASSUME TypeOK, Locks, Pending, Exclusive, Counting, CountsExactAlone,
         NEW t \in Threads, Run(t)
  PROVE  Counting' /\ CountsExactAlone'
<1>. USE DEF TypeOK, StoreTypeOK, bounds, jsons, history, Goto, Set, Return
<1>a. Frame(t) /\ raced' = raced BY RunKinds DEF Frame
<1>b. \/ GetCommit(t) /\ gets' = [gets EXCEPT ![local[t].target] = @ + 1]
      \/ (AddCommit(t) \/ ImportInserted(t)) /\ gets' = [gets EXCEPT ![local[t].target] = 0]
      \/ gets' = gets
  BY DEF Run, GetNone, GetSelect, GetUpdate, GetCommit, AddInsert, AddCommit, NoteAdded, DeleteRow,
     DeleteCommit, NoteDeleted, LockedOut, ImportEpisodic, ImportQuery, ImportDeleted,
     ImportInserted, ImportDelete, ImportInsert, ImportClash, ImportRaises, ImportProcedural
<1>c. \A i \in Ids : gets'[i] # gets[i] \/ rows'[i] # rows[i] => i \in Busy(t)
  <2>1. pc[t] # "idle" => local[t].target \in Busy(t) BY DEF Busy
  <2>. QED BY <1>a, <1>b, <2>1, CommitRows DEF Frame
<1>1. ASSUME NEW u \in Threads \ {t}, pc'[u] \in {"update", "counted"}, tx'[u] # "stale",
             local'[u].target \notin raced'
      PROVE  local'[u].count = gets'[local'[u].target] + 1
  <2>1. pc[u] = pc'[u] /\ local'[u] = local[u] BY <1>a DEF Frame
  <2>2. tx[u] # "stale"
    <3>1. CASE Quiet(t)
      BY <1>1, <3>1 DEF Quiet, Select, Unbound, store
    <3>2. CASE Opens(t) \/ Fails(t) BY <1>1, <3>2 DEF Opens, Fails, Write
    <3>3. CASE Closes(t) BY <1>1, <3>3 DEF Closes, Commit
    <3>. QED BY <3>1, <3>2, <3>3, RunKinds
  <2>3. local[u].target \in Busy(u) BY <1>1, <2>1 DEF Busy
  <2>4. local[u].target \notin Busy(t) BY <1>1, <1>a, <2>1, <2>3 DEF Exclusive
  <2>5. local[u].target \in Ids OBVIOUS
  <2>6. gets'[local[u].target] = gets[local[u].target] BY <1>c, <2>4, <2>5
  <2>. QED BY <1>1, <1>a, <2>1, <2>2, <2>6 DEF Counting
<1>2. ASSUME pc'[t] \in {"update", "counted"}, tx'[t] # "stale", local'[t].target \notin raced'
      PROVE  local'[t].count = gets'[local'[t].target] + 1
  <2>1. GetSelect(t) \/ GetUpdate(t)
    BY <1>2 DEF Run, GetNone, GetCommit, AddInsert, AddCommit, DeleteRow, DeleteCommit, LockedOut,
       ImportEpisodic, ImportQuery, ImportDeleted, ImportInserted, ImportDelete, ImportInsert,
       ImportClash, ImportRaises, ImportProcedural
  <2>2. CASE GetSelect(t)
    <3>1. tx[t] # "stale" /\ pc[t] \notin Committing BY <1>2, <2>2 DEF GetSelect, Select, Committing
    <3>2. Seen(t) = rows BY <3>1, SeesRows
    <3>3. /\ rows[local[t].target] # Absent
          /\ local'[t].target = local[t].target /\ gets' = gets
          /\ local'[t].count = rows[local[t].target] + 1
      BY <2>2, <3>2 DEF GetSelect
    <3>4. local[t].target \in Present(rows) \ raced BY <1>2, <1>a, <3>3 DEF Present
    <3>. QED BY <3>3, <3>4 DEF CountsExactAlone
  <2>3. CASE GetUpdate(t)
    BY <1>2, <1>a, <2>3 DEF GetUpdate, Update, Write, Counting
  <2>. QED BY <2>1, <2>2, <2>3
<1>3. Counting' BY <1>1, <1>2 DEF Counting
<1>4. ASSUME NEW i \in Ids, rows'[i] # Absent, i \notin raced PROVE rows'[i] = gets'[i]
  <2>1. rows[i] # Absent => rows[i] = gets[i] BY <1>4 DEF CountsExactAlone, Present
  <2>2. CASE GetCommit(t)
    <3>1. pc[t] = "counted" /\ tx[t] # "stale" /\ gets' = [gets EXCEPT ![local[t].target] = @ + 1]
      BY <2>2 DEF GetCommit, Locks, Committing
    <3>2. rows' = [rows EXCEPT ![local[t].target] = IF @ = Absent THEN Absent ELSE local[t].count]
      BY <2>2, CommitRows DEF GetCommit, AddCommit, DeleteCommit, ImportInserted, ImportDeleted,
         Committing
    <3>3. local[t].target = i => local[t].count = gets[i] + 1 BY <1>4, <3>1 DEF Counting
    <3>. QED BY <1>4, <2>1, <3>1, <3>2, <3>3
  <2>3. CASE AddCommit(t) \/ ImportInserted(t)
    <3>1. rows' = [rows EXCEPT ![local[t].target] = 0]
      BY <2>3, CommitRows DEF GetCommit, AddCommit, DeleteCommit, ImportInserted, ImportDeleted,
         Committing
    <3>2. gets' = [gets EXCEPT ![local[t].target] = 0]
      BY <2>3 DEF AddCommit, ImportInserted, NoteAdded
    <3>. QED BY <1>4, <2>1, <3>1, <3>2
  <2>4. CASE ~(GetCommit(t) \/ AddCommit(t) \/ ImportInserted(t))
    <3>1. gets' = gets BY <1>b, <2>4
    <3>2. rows' = rows \/ rows' = [rows EXCEPT ![local[t].target] = Absent] BY <2>4, CommitRows
    <3>. QED BY <1>4, <2>1, <3>1, <3>2
  <2>. QED BY <2>2, <2>3, <2>4
<1>5. CountsExactAlone' BY <1>4, <1>a DEF CountsExactAlone, Present
<1>. QED BY <1>3, <1>5

\* An import that runs by itself: the passes over its lists, one at a time.
LEMMA RunUndisturbed ==
  ASSUME TypeOK, Locks, Pending, Exclusive, Clean, Lists, Undisturbed, NEW t \in Threads, Run(t)
  PROVE  Undisturbed'
<1>. SUFFICES ASSUME raced' = {}
              PROVE  \A u \in Threads : Halfway(u)'
  BY DEF Undisturbed
<1>. USE DEF TypeOK, StoreTypeOK, CallSet, bounds, jsons, history, Goto, Set, Return
<1>a. Frame(t) /\ raced = {} BY RunKinds DEF Frame
<1>b. Halfway(t) /\ Listed(t) /\ local[t] \in CallSet
  BY <1>a DEF Undisturbed, Lists
<1>d. pc[t] \in Committing => Seen(t) = view[t] BY DEF Locks, Seen
<1>1. ASSUME NEW i \in Ids, ImportClash(t, i) PROVE FALSE
  <2>1. i \in local[t].put /\ local[t].drop = {} /\ i \in Present(Seen(t)) /\ pc[t] = "put"
    BY <1>1 DEF ImportClash, Duplicate, Present
  <2>. QED BY <1>b, <2>1 DEF Halfway
<1>3. ASSUME NEW u \in Threads \ {t} PROVE Halfway(u)'
  <2>1. pc'[u] = pc[u] BY <1>a DEF Frame
  <2>2. Busy(t) # {} /\ Busy(t) \subseteq Ids BY <1>a DEF Frame, Busy
  <2>3. Busy(u) # Ids BY <1>a, <2>2 DEF Exclusive
  <2>4. pc[u] \notin {"query", "put", "dropped", "inserted"} BY <2>3 DEF Busy
  <2>. QED BY <2>1, <2>4 DEF Halfway
<1>4. Halfway(t)'
  <2>0. CASE pc'[t] \notin {"query", "put", "dropped", "inserted"} BY <2>0 DEF Halfway
  <2>1. ASSUME ImportEpisodic(t), pc'[t] = "query" PROVE Halfway(t)'
    <3>1. local' = local /\ local[t].bad # "episodic" BY <2>1 DEF ImportEpisodic
    <3>2. episodic' = (IF local[t].merge THEN episodic ELSE {}) \cup Manifest
      BY <2>1, <3>1 DEF ImportEpisodic, After
    <3>. QED BY <2>1, <3>1, <3>2 DEF Halfway
  <2>2. ASSUME ImportQuery(t) PROVE Halfway(t)'
    <3>1. episodic' = episodic /\ pc[t] = "query" /\ pc'[t] = "put"
      BY <2>2 DEF ImportQuery
    <3>3. /\ local'[t].merge = local[t].merge
          /\ local[t].merge => local'[t].drop = {} /\ local'[t].put = Manifest \ Present(Seen(t))
          /\ ~local[t].merge => local'[t].drop = Present(Seen(t)) /\ local'[t].put = Manifest
      BY <1>b, <2>2, <3>1 DEF ImportQuery, Listed
    <3>4. Seen(t)' = Seen(t)
      BY <2>2 DEF ImportQuery, Select, Seen
    <3>5. Present(Seen(t)') = Present(Seen(t)) BY <3>4
    <3>. QED BY <1>b, <3>1, <3>3, <3>5 DEF Halfway, Present
  <2>3. ASSUME NEW i \in Ids, ImportDelete(t, i) PROVE Halfway(t)'
    <3>1. /\ pc[t] = "put" /\ pc'[t] = "dropped" /\ episodic' = episodic
          /\ local'[t].merge = local[t].merge /\ local'[t].put = local[t].put
          /\ local'[t].drop = local[t].drop \ {i} /\ i \in local[t].drop
      BY <1>b, <2>3 DEF ImportDelete
    <3>2. Seen(t)' = [Seen(t) EXCEPT ![i] = Absent]
      BY <2>3 DEF ImportDelete, Delete, Write, Seen
    <3>3. Seen(t) \in [Ids -> Nat \cup {Absent}] BY StoreTypes
    <3>4. Present(Seen(t)') = Present(Seen(t)) \ {i} BY <3>2, <3>3 DEF Present
    <3>. QED BY <1>b, <3>1, <3>4 DEF Halfway, Present
  <2>4. ASSUME NEW i \in Ids, ImportInsert(t, i) PROVE Halfway(t)'
    <3>1. /\ pc[t] = "put" /\ pc'[t] = "inserted" /\ episodic' = episodic
          /\ local'[t].merge = local[t].merge /\ local'[t].put = local[t].put \ {i}
          /\ local'[t].drop = {} /\ local[t].drop = {} /\ i \in local[t].put /\ i \in Manifest
      BY <1>b, <2>4 DEF ImportInsert, Listed
    <3>2. Seen(t)' = [Seen(t) EXCEPT ![i] = 0]
      BY <2>4 DEF ImportInsert, Insert, Write, Seen
    <3>3. Seen(t) \in [Ids -> Nat \cup {Absent}] BY StoreTypes
    <3>4. Present(Seen(t)') = Present(Seen(t)) \cup {i} BY <3>2, <3>3 DEF Present, Absent
    <3>. QED BY <1>b, <3>1, <3>4 DEF Halfway, Present
  <2>5. ASSUME ImportDeleted(t) \/ ImportInserted(t) PROVE Halfway(t)'
    <3>1. /\ pc[t] \in {"dropped", "inserted"} /\ pc'[t] = "put"
          /\ episodic' = episodic /\ local' = local
      BY <2>5 DEF ImportDeleted, ImportInserted
    <3>2. Seen(t)' = view[t] /\ Seen(t) = view[t]
      BY <1>d, <2>5, <3>1 DEF ImportDeleted, ImportInserted, Commit, Seen, Committing
    <3>. QED BY <1>b, <3>1, <3>2 DEF Halfway, Present
  <2>6. CASE \/ GetNone(t) \/ GetSelect(t) \/ GetUpdate(t) \/ GetCommit(t) \/ AddInsert(t)
             \/ AddCommit(t) \/ DeleteRow(t) \/ DeleteCommit(t) \/ LockedOut(t)
             \/ ImportRaises(t) \/ ImportProcedural(t)
    <3>1. pc'[t] \in {"update", "counted", "added", "deleted", "idle"}
      BY <2>6 DEF GetNone, GetSelect, GetUpdate, GetCommit, AddInsert, AddCommit, DeleteRow,
         DeleteCommit, LockedOut, ImportRaises, ImportProcedural
    <3>. QED BY <2>0, <3>1
  <2>7. ImportEpisodic(t) => pc'[t] \in {"query", "idle"} BY DEF ImportEpisodic
  <2>. QED BY <1>1, <2>0, <2>1, <2>2, <2>3, <2>4, <2>5, <2>6, <2>7 DEF Run
<1>. QED BY <1>3, <1>4

-----------------------------------------------------------------------------
LEMMA RunStep == ASSUME IInv, NEW t \in Threads, Run(t) PROVE IInv'
BY RunTypes, RunLocks, RunPending, RunExclusive, RunClean, RunLists, RunStored, RunUndisturbed,
   RunCounts DEF IInv

\* A call that begins.
LEMMA CallStep == ASSUME IInv, NEW t \in Threads, Call(t) PROVE IInv'
<1>. USE DEF IInv, StoreTypeOK, bounds, jsons, history, store
<1>1. PICK what \in {"get", "delete", "add", "episodic"}, entries \in SUBSET Ids, c \in CallSet :
        /\ Start(t, what, entries, c)
        /\ c.drop = {} /\ c.put = {}
        /\ entries = IF what = "episodic" THEN Ids ELSE {c.target}
  <2>1. ASSUME NEW i \in Ids
        PROVE  /\ [NoCall EXCEPT !.target = i] \in CallSet
               /\ [NoCall EXCEPT !.target = i].drop = {}
               /\ [NoCall EXCEPT !.target = i].put = {}
               /\ [NoCall EXCEPT !.target = i].target = i
    BY CallTypes DEF NoCall
  <2>2. ASSUME NEW m \in BOOLEAN, NEW b \in {"none", "episodic", "semantic", "procedural"}
        PROVE  /\ [NoCall EXCEPT !.merge = m, !.bad = b] \in CallSet
               /\ [NoCall EXCEPT !.merge = m, !.bad = b].drop = {}
               /\ [NoCall EXCEPT !.merge = m, !.bad = b].put = {}
    BY CallTypes DEF NoCall, CallSet
  <2>3. ASSUME NEW i \in Ids, NEW what \in {"get", "delete", "add"}, Single(t, what, i)
        PROVE  \E entries \in SUBSET Ids, c \in CallSet :
                 /\ Start(t, what, entries, c)
                 /\ c.drop = {} /\ c.put = {}
                 /\ entries = IF what = "episodic" THEN Ids ELSE {c.target}
    <3>. [NoCall EXCEPT !.target = i] \in CallSet BY <2>1
    <3>. WITNESS {i} \in SUBSET Ids, [NoCall EXCEPT !.target = i] \in CallSet
    <3>. QED BY <2>1, <2>3 DEF Single
  <2>4. ASSUME NEW m \in BOOLEAN, NEW b \in {"none", "episodic", "semantic", "procedural"},
               Import(t, m, b)
        PROVE  \E entries \in SUBSET Ids, c \in CallSet :
                 /\ Start(t, "episodic", entries, c)
                 /\ c.drop = {} /\ c.put = {}
                 /\ entries = Ids
    <3>. [NoCall EXCEPT !.merge = m, !.bad = b] \in CallSet BY <2>2
    <3>. WITNESS Ids \in SUBSET Ids, [NoCall EXCEPT !.merge = m, !.bad = b] \in CallSet
    <3>. QED BY <2>2, <2>4 DEF Import
  <2>. QED BY <2>3, <2>4 DEF Call
<1>2. /\ pc[t] = "idle" /\ pc' = [pc EXCEPT ![t] = what] /\ local' = [local EXCEPT ![t] = c]
      /\ raced' = raced \cup (entries \cap UNION {Busy(u) : u \in Threads \ {t}})
      /\ UNCHANGED <<store, jsons, kills, stored, gets, tripped, broke, clash>>
      /\ calls < MaxCalls /\ calls' = calls + 1
  BY <1>1 DEF Start, Goto, Set
<1>3. TypeOK'
  <2>1. calls' \in 0 .. MaxCalls BY <1>2, ImportAssumption DEF TypeOK
  <2>2. raced' \subseteq Ids BY <1>2 DEF TypeOK
  <2>3. local' \in [Threads -> CallSet] BY <1>2 DEF TypeOK, CallSet
  <2>4. pc' \in [Threads -> {"idle", "get", "update", "add", "delete", "episodic", "query", "put"}
                                \cup Committing]
    BY <1>2 DEF TypeOK
  <2>. QED BY <1>2, <2>1, <2>2, <2>3, <2>4 DEF TypeOK, CallSet
<1>. USE DEF TypeOK
<1>4. Locks' /\ Clean' BY <1>2 DEF Locks, Clean, Committing
<1>5. Pending' BY <1>2 DEF Pending, Changed
<1>6. Exclusive'
  <2>1. Busy(t)' = entries BY <1>1, <1>2 DEF Busy
  <2>2. \A u \in Threads \ {t} : Busy(u)' = Busy(u) BY <1>2 DEF Busy
  <2>3. \A u \in Threads \ {t} : entries \cap Busy(u) \subseteq raced' BY <1>2
  <2>4. ASSUME NEW u \in Threads, NEW v \in Threads, u # v
        PROVE  Busy(u)' \cap Busy(v)' \subseteq raced'
    <3>1. CASE u = t BY <2>1, <2>2, <2>3, <2>4, <3>1
    <3>2. CASE v = t BY <2>1, <2>2, <2>3, <2>4, <3>2
    <3>3. CASE u # t /\ v # t BY <1>2, <2>2, <2>4, <3>3 DEF Exclusive
    <3>. QED BY <3>1, <3>2, <3>3
  <2>. QED BY <2>4 DEF Exclusive
<1>7. Lists' BY <1>1, <1>2 DEF Lists, Listed
<1>8. StoredKept' BY <1>2 DEF StoredKept, Present
<1>9. Undisturbed'
  <2>1. \A u \in Threads : Halfway(u) => Halfway(u)' BY <1>2 DEF Halfway, Seen, Present
  <2>. QED BY <1>2, <2>1 DEF Undisturbed
<1>10. Counting' BY <1>2 DEF Counting
<1>11. CountsExactAlone' BY <1>2 DEF CountsExactAlone, Present
<1>. QED BY <1>3, <1>4, <1>5, <1>6, <1>7, <1>8, <1>9, <1>10, <1>11

LEMMA KillStep == ASSUME IInv, Kill PROVE IInv'
<1>. USE DEF IInv, Kill, Abandon, jsons, history
<1>1. /\ \A t \in Threads : pc'[t] = "idle" /\ local'[t] = NoCall /\ tx'[t] = "none"
      /\ UNCHANGED <<rows, episodic, procedural, calls, stored, gets, raced, tripped, broke, clash>>
  OBVIOUS
<1>2. TypeOK'
  <2>1. StoreTypeOK' BY DEF TypeOK, StoreTypeOK, Empty
  <2>2. local' \in [Threads -> CallSet] BY CallTypes
  <2>3. kills' \in 0 .. Kills BY ImportAssumption DEF TypeOK
  <2>. QED BY <2>1, <2>2, <2>3 DEF TypeOK, CallSet
<1>3. Locks' /\ Clean' BY <1>1 DEF Locks, Clean, Committing
<1>4. Pending' /\ Exclusive' BY <1>1 DEF Pending, Changed, Exclusive, Busy
<1>5. Lists' BY <1>1 DEF Lists, Listed, NoCall
<1>6. StoredKept' /\ CountsExactAlone' BY <1>1 DEF StoredKept, CountsExactAlone, Present
<1>7. Undisturbed' /\ Counting' BY <1>1 DEF Undisturbed, Halfway, Counting
<1>. QED BY <1>2, <1>3, <1>4, <1>5, <1>6, <1>7

LEMMA StutterStep == ASSUME IInv, UNCHANGED vars PROVE IInv'
<1>. USE DEF vars, store, jsons, bounds, history
<1>1. \A t \in Threads : Busy(t)' = Busy(t) /\ (Changed(t) <=> Changed(t)')
                           /\ (Listed(t) <=> Listed(t)') /\ (Halfway(t) <=> Halfway(t)')
  BY DEF Busy, Changed, Listed, Halfway, Seen, Present
<1>. QED
  BY <1>1 DEF IInv, TypeOK, StoreTypeOK, Locks, Pending, Exclusive, Clean, Lists, StoredKept,
     Undisturbed, Counting, CountsExactAlone, Present

LEMMA NextIInv == IInv /\ [Next]_vars => IInv'
BY RunStep, CallStep, KillStep, StutterStep DEF Next

LEMMA SpecIInv == Spec => []IInv
BY InitIInv, NextIInv, PTL DEF Spec

\* The types of the stores, the connections and the calls.
THEOREM TypeCorrect == Spec => []TypeOK
BY SpecIInv, PTL DEF IInv

\* What add or an import has reported as stored is there until a delete or an
\* import with merge=False removes it, whatever fails in between.
THEOREM NothingStoredIsLost == Spec => []StoredKept
BY SpecIInv, PTL DEF IInv

\* An import that nobody disturbs leaves what its merge parameter says, in the
\* episodic store and in the table, for every manifest and every earlier state.
THEOREM ImportEffective == Spec => []ImportTakesEffect
<1>1. IInv => ImportTakesEffect
  <2>. SUFFICES ASSUME IInv, NEW t \in Threads, ListDone(t), tx[t] # "stale", raced = {}
                PROVE  /\ Manifest \subseteq Present(rows) \cap episodic
                       /\ ~local[t].merge => Present(rows) = Manifest /\ episodic = Manifest
    BY DEF ImportTakesEffect
  <2>1. Halfway(t) /\ pc[t] = "put"
    BY DEF IInv, Undisturbed, ListDone
  <2>2. Seen(t) = rows BY <2>1, SeesRows DEF IInv, Committing
  <2>. QED BY <2>1, <2>2 DEF Halfway, ListDone
<1>. QED BY <1>1, SpecIInv, PTL

\* Only a thread whose INSERT failed keeps the lock between its calls, and as
\* long as none has failed, none keeps a transaction or is refused the lock.
THEOREM LockOnlyAfterFailedInsert == Spec => []OnlyFailedInsertsLock
<1>1. IInv => OnlyFailedInsertsLock BY DEF IInv, Clean, OnlyFailedInsertsLock, Committing
<1>. QED BY <1>1, SpecIInv, PTL

\* The access count of an entry that no two calls were busy with is exact.
THEOREM AloneCountsExactly == Spec => []CountsExactAlone
BY SpecIInv, PTL DEF IInv

=============================================================================
