----------------------------- MODULE StartupGate ----------------------------
(***************************************************************************)
(* The MCP server's start: the check of integrity.py, then the task queue  *)
(* opened at the first task_execute, while another process may write it.   *)
(* The two ask different things of tasks.json: the check that its bytes    *)
(* are JSON, the queue that its text is JSON and holds tasks.              *)
(***************************************************************************)
EXTENDS DataFiles

Foreign == -3  \* parses as JSON, but not to tasks of this version, or not as text

VARIABLES
  mcp,        \* "off", "checked", "refused" or "serving"
  loaded,     \* the tasks it took from the file: a version's, None, or Some of them
  disturbed   \* history: something was written since the check

None == -1
Some == -2

Init == InitFiles /\ mcp = "off" /\ loaded = None /\ disturbed = FALSE

\* With the writer stopped, a file that was cut short is replaced: by an earlier
\* version, or by a file that only looks like one (edited, or of another release).
Restore ==
  /\ writer = "down" /\ content["json"] < 0
  /\ \E c \in 0 .. version["json"] - 1 \cup {Foreign} :
       content' = [content EXCEPT !["json"] = c]
  /\ UNCHANGED <<version, writer>>

\* Mutated form of Problems: JSON files are not parsed.
ProblemsElsewhere == {f \in Files \ {"json"} : content[f] = Torn}

\* Missing and empty files are not problems.
Problems == {f \in Files : content[f] = Torn}

\* check_data_integrity, with RIKS_SKIP_INTEGRITY_CHECK not set.
StartMcp ==
  /\ mcp = "off"
  /\ mcp' = IF Problems = {} THEN "checked" ELSE "refused"
  /\ disturbed' = FALSE
  /\ UNCHANGED <<files, loaded>>

\* _load starts fresh on what it takes for corruption: a text that does not
\* parse (an empty one, a byte order mark), or a value that makes no task; the
\* tasks before that one stay.  It raises on a list, and the call with it.
Loads(c) ==
  CASE c >= 0 -> {c}
    [] c = Foreign -> {None, Some}
    [] OTHER -> {None}

LoadQueue ==
  /\ mcp = "checked"
  /\ mcp' = "serving"
  /\ loaded' \in Loads(content["json"])
  /\ UNCHANGED <<files, disturbed>>

StopMcp ==
  /\ mcp # "off" /\ mcp' = "off" /\ loaded' = None
  /\ UNCHANGED <<files, disturbed>>

Next ==
  \/ /\ Serve \/ Restore
     /\ disturbed' = (disturbed \/ content' # content)
     /\ UNCHANGED <<mcp, loaded>>
  \/ StartMcp \/ LoadQueue \/ StopMcp

-----------------------------------------------------------------------------
\* The server starts fresh, or with some of the tasks, from a file that its check
\* let through only if that file was empty or of another shape, or if another
\* process wrote since: no queue that a write left torn is taken for an empty one,
\* and rewritten as such by the first save.
FreshStartExplained ==
  mcp = "serving" /\ loaded < 0 => disturbed \/ content["json"] \in {Empty, Foreign}

\* "Exit 0: all files OK", and the same check at the server's start: what it let
\* through, and nobody wrote since, TaskQueue._load does not take for corruption.
\* An empty file is let through on purpose.  The code breaks this.
CheckedIsWhole ==
  mcp = "serving" /\ ~disturbed /\ content["json"] # Empty => loaded >= 0

=============================================================================
