--------------------------- MODULE SemanticStore ----------------------------
(***************************************************************************)
(* SemanticMemory over SQLite (memory/semantic.py): one connection for     *)
(* each thread, write-ahead log, a busy timeout of ten seconds.  Python's  *)
(* sqlite3 opens a deferred transaction before an INSERT, UPDATE or DELETE *)
(* and leaves it open when the statement raises; the store commits after a *)
(* statement that succeeds and never rolls back.                           *)
(***************************************************************************)
EXTENDS Integers

CONSTANTS Threads, Ids

VARIABLES
  rows,  \* the committed table: the access_count of each id, Absent if it has no row
  tx,    \* the state of each connection's transaction
  view   \* what a connection in a transaction sees

store == <<rows, tx, view>>

Absent == -1
Empty == [i \in Ids |-> Absent]

\* "begun": opened by a statement that then failed, nothing read in it yet;
\* "reading": it holds a snapshot; "stale": a snapshot that others have written
\* past; "writing": it holds the one write lock.
InitStore ==
  /\ rows = Empty
  /\ tx = [t \in Threads |-> "none"]
  /\ view = [t \in Threads |-> Empty]

StoreTypeOK ==
  /\ rows \in [Ids -> Nat \cup {Absent}]
  /\ tx \in [Threads -> {"none", "begun", "reading", "stale", "writing"}]
  /\ view \in [Threads -> [Ids -> Nat \cup {Absent}]]

Present(table) == {i \in Ids : table[i] # Absent}

\* What a statement of t reads.
Seen(t) == IF tx[t] \in {"reading", "stale", "writing"} THEN view[t] ELSE rows

\* A SELECT outside a transaction leaves none behind; the first one inside a
\* transaction takes the snapshot that the later ones read.
Select(t) ==
  /\ tx' = [tx EXCEPT ![t] = IF @ = "begun" THEN "reading" ELSE @]
  /\ view' = [view EXCEPT ![t] = IF tx[t] = "begun" THEN rows ELSE @]
  /\ UNCHANGED rows

Locked(t) == \E u \in Threads \ {t} : tx[u] = "writing"

\* A statement that writes gets the lock, and its effect is visible to t.
Write(t, table) ==
  /\ tx[t] # "stale" /\ ~Locked(t)
  /\ tx' = [tx EXCEPT ![t] = "writing"]
  /\ view' = [view EXCEPT ![t] = table]
  /\ UNCHANGED rows

\* A parameter that SQLite cannot store (a list, an object): the transaction is
\* opened before the parameters are bound, and stays open.
Unbound(t) ==
  /\ tx' = [tx EXCEPT ![t] = IF @ = "none" THEN "begun" ELSE @]
  /\ UNCHANGED <<rows, view>>

\* "database is locked": at once on a stale snapshot, else after the busy
\* timeout.  The transaction the statement opened stays open.
Refused(t) == (tx[t] = "stale" \/ Locked(t)) /\ Unbound(t)

\* INSERT of a NULL where the column is NOT NULL, or of an id that is there: the
\* statement is undone, the transaction stays open, with the lock.
BreaksConstraint(t) == Write(t, Seen(t))
Insert(t, i) == Seen(t)[i] = Absent /\ Write(t, [Seen(t) EXCEPT ![i] = 0])
Duplicate(t, i) == Seen(t)[i] # Absent /\ BreaksConstraint(t)

\* UPDATE of a row sets the count that was computed from an earlier SELECT; it
\* does nothing to a row that has gone.
Update(t, i, count) ==
  Write(t, [Seen(t) EXCEPT ![i] = IF @ = Absent THEN Absent ELSE count])

Delete(t, i) == Write(t, [Seen(t) EXCEPT ![i] = Absent])

Commit(t) ==
  /\ rows' = view[t]
  /\ tx' = [u \in Threads |->
              IF u = t THEN "none"
              ELSE IF tx[u] = "reading" /\ view[t] # rows THEN "stale" ELSE tx[u]]
  /\ view' = [view EXCEPT ![t] = Empty]

\* The process is killed: open transactions are rolled back.
Abandon ==
  /\ tx' = [t \in Threads |-> "none"]
  /\ view' = [t \in Threads |-> Empty]
  /\ UNCHANGED rows

=============================================================================
