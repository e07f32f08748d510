------------------------------ MODULE DataFiles -----------------------------
(***************************************************************************)
(* The data directory as other processes see it: a JSON file that its      *)
(* writer overwrites in place (tasks.json, by a command of the CLI or      *)
(* another server; audit.json alike) and a database that SQLite commits.   *)
(* The memory stores replace their JSON files whole: fewer behaviours of   *)
(* the same kind.  A version is the number of the write that made it.      *)
(***************************************************************************)
EXTENDS Integers

CONSTANT MaxVersion  \* bound on the writes to each file

Files == {"json", "db"}
Empty == -1    \* truncated
Torn == -2     \* part of a version

VARIABLES
  content,    \* what each file holds
  version,    \* the number of the last write begun
  writer      \* the process that writes: "up", "down" or where it is in a write of the JSON file

files == <<content, version, writer>>

InitFiles ==
  /\ content = [f \in Files |-> 0]
  /\ version = [f \in Files |-> 0]
  /\ writer = "up"

\* write_text truncates; a long text is written in parts.
Write(from, to, value, new) ==
  /\ writer = from /\ writer' = to
  /\ content' = [content EXCEPT !["json"] = value]
  /\ version' = [version EXCEPT !["json"] = new]

Truncate ==
  /\ version["json"] < MaxVersion
  /\ Write("up", "truncated", Empty, version["json"] + 1)
WritePart == Write("truncated", "partial", Torn, version["json"])
WriteRest == \E at \in {"truncated", "partial"} : Write(at, "up", version["json"], version["json"])

Commit ==
  /\ writer # "down" /\ version["db"] < MaxVersion
  /\ version' = [version EXCEPT !["db"] = @ + 1]
  /\ content' = [content EXCEPT !["db"] = @ + 1]
  /\ UNCHANGED writer

Kill == writer # "down" /\ writer' = "down" /\ UNCHANGED <<content, version>>

\* It loads what parses, starts fresh otherwise, and writes at the next change.
Start == writer = "down" /\ writer' = "up" /\ UNCHANGED <<content, version>>

Serve == Truncate \/ WritePart \/ WriteRest \/ Commit \/ Kill \/ Start

=============================================================================
