------------------------------- MODULE Backups ------------------------------
(***************************************************************************)
(* Snapshots of the data directory (scripts/backup.py), taken while        *)
(* another process writes.                                                 *)
(***************************************************************************)
EXTENDS DataFiles, FiniteSets

CONSTANTS
  Keep,        \* RIKS_BACKUP_KEEP
  Retries,     \* MAX_JSON_RETRIES
  MaxTime      \* bound on the clock, in seconds

VARIABLES
  time,
  snapshots,  \* timestamp -> file -> the version copied, or Torn
  backup,     \* the run of backup.py under way
  complete    \* history: timestamp -> versions of the files when a run that succeeded began,
              \*          until a later run of that second spoils its database

vars == <<files, time, snapshots, backup, complete>>

NoBackup == [at |-> "none"]

Init ==
  /\ InitFiles
  /\ time = 0
  /\ snapshots = [t \in {} |-> 0]
  /\ backup = NoBackup
  /\ complete = [t \in {} |-> 0]

\* The files are collected; the directory of the second exists already when a
\* run began in it.
BeginBackup ==
  /\ backup = NoBackup
  /\ backup' = [at |-> "copying", stamp |-> time, todo |-> Files, tries |-> 0, failed |-> FALSE,
                since |-> [f \in Files |-> version[f] - (IF content[f] < 0 THEN 1 ELSE 0)]]
  /\ snapshots' = [t \in DOMAIN snapshots \cup {time} |->
                     IF t \in DOMAIN snapshots THEN snapshots[t] ELSE [f \in {} |-> 0]]
  /\ UNCHANGED <<files, time, complete>>

Copying(f) == backup.at = "copying" /\ f \in backup.todo

Put(f, value) ==
  snapshots' = [snapshots EXCEPT ![backup.stamp] =
                  [g \in DOMAIN @ \cup {f} |-> IF g = f THEN value ELSE @[g]]]

\* A database, by the backup API; a JSON file that parses.
Copy(f) ==
  /\ Copying(f)
  /\ content[f] >= 0
  /\ Put(f, content[f])
  /\ backup' = [backup EXCEPT !.todo = @ \ {f}, !.tries = 0]
  /\ UNCHANGED <<files, time, complete>>

Retry ==
  /\ Copying("json") /\ content["json"] < 0
  /\ backup' = IF backup.tries + 1 < Retries
                 THEN [backup EXCEPT !.tries = @ + 1]
                 ELSE [backup EXCEPT !.todo = @ \ {"json"}, !.tries = 0, !.failed = TRUE]
  /\ UNCHANGED <<files, time, snapshots, complete>>

GiveUp(f) == backup' = [backup EXCEPT !.todo = @ \ {f}, !.tries = 0, !.failed = TRUE]

\* Nothing is written (no database, a full disk): the other files go on.
CopyFails(f) ==
  /\ Copying(f)
  /\ GiveUp(f)
  /\ UNCHANGED <<files, time, snapshots, complete>>

\* SQLite finds the copy corrupt once it is written, and there it stays, over
\* the one that an earlier run of this second has left.
CopyCorrupt ==
  /\ Copying("db")
  /\ GiveUp("db")
  /\ Put("db", Torn)
  /\ complete' = [t \in DOMAIN complete \ {backup.stamp} |-> complete[t]]
  /\ UNCHANGED <<files, time>>

Newer(t) == {u \in DOMAIN snapshots : u > t}

\* Mutated form of Kept: the oldest are kept.
KeptOldest == {t \in DOMAIN snapshots : Cardinality({u \in DOMAIN snapshots : u < t}) < Keep}

Kept == {t \in DOMAIN snapshots : Cardinality(Newer(t)) < Keep}

\* Rotation does not ask whether a snapshot is complete; Keep = 0 rotates nothing.
EndBackup ==
  /\ backup.at = "copying" /\ backup.todo = {}
  /\ snapshots' = IF Keep <= 0 THEN snapshots ELSE [t \in Kept |-> snapshots[t]]
  /\ complete' =
       IF backup.failed THEN complete
       ELSE [t \in DOMAIN complete \cup {backup.stamp} |->
               IF t = backup.stamp THEN backup.since ELSE complete[t]]
  /\ backup' = NoBackup
  /\ UNCHANGED <<files, time>>

BackupKilled == backup # NoBackup /\ backup' = NoBackup /\ UNCHANGED <<files, time, snapshots, complete>>

Tick == time < MaxTime /\ time' = time + 1 /\ UNCHANGED <<files, snapshots, backup, complete>>

Next ==
  \/ Serve /\ UNCHANGED <<time, snapshots, backup, complete>>
  \/ BeginBackup \/ Retry \/ CopyCorrupt \/ EndBackup \/ BackupKilled
  \/ \E f \in Files : Copy(f) \/ CopyFails(f)
  \/ Tick

-----------------------------------------------------------------------------
\* Until Keep newer snapshots are made, good or bad, a backup that reported
\* success is in its directory with every file, each in a version that was
\* written whole and is no older than the run (run_backup, _rotate_backups):
\* unless a later run of the same second found its copy of a database corrupt.
CompleteKept ==
  \A t \in DOMAIN complete :
    \/ Keep > 0 /\ Cardinality(Newer(t)) >= Keep
    \/ /\ t \in DOMAIN snapshots
       /\ DOMAIN snapshots[t] = Files
       /\ \A f \in Files : snapshots[t][f] >= complete[t][f]

=============================================================================
