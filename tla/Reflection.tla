----------------------------- MODULE Reflection -----------------------------
(***************************************************************************)
(* Lessons (reflection/analyzer.py) and the CLI's reflect command, one     *)
(* call at a time.  A lesson is its id, its kind (category and severity),  *)
(* how often it was seen and whether it is resolved.  Which lessons a      *)
(* transcript yields, from the model or from keywords, is left open.       *)
(***************************************************************************)
EXTENDS Integers, Sequences, FiniteSets

CONSTANTS
  Categories,
  Severities,
  FailedTasks, \* tasks whose failure is recorded
  MaxReport,   \* lessons in one report (5 from the model)
  MaxCalls     \* bound on the calls, kills among them

VARIABLES
  lessons,   \* _lessons: id -> lesson
  mistakes,  \* _mistake_counts
  file,      \* what load would find: lessons and mistakes
  report,    \* lessons of the call under way that are not yet added
  saving,    \* the call under way ends with a save
  reported,  \* history: the kinds of the last report saved, when nothing came after
  calls

vars == <<lessons, mistakes, file, report, saving, reported, calls>>

Kinds == Categories \X Severities
NoLessons == [id \in {} |-> 0]
Empty == [lessons |-> NoLessons, mistakes |-> [c \in Categories |-> 0]]

Init ==
  /\ lessons = NoLessons
  /\ mistakes = Empty.mistakes
  /\ file = Empty
  /\ report = <<>>
  /\ saving = FALSE
  /\ reported = {}
  /\ calls = 0

Active(ls) == [id \in {i \in DOMAIN ls : ~ls[i].resolved} |-> ls[id]]

\* save: resolved lessons are not written.
Saved(ls) == [lessons |-> Active(ls), mistakes |-> mistakes]

Call ==
  /\ report = <<>> /\ ~saving
  /\ calls < MaxCalls
  /\ calls' = calls + 1
  /\ reported' = {}

\* A report's lessons are numbered from 0; the model's have ids of their own.
Numbered(source, kinds) ==
  [i \in DOMAIN kinds |-> [id |-> <<source, i - 1>>, kind |-> kinds[i]]]

\* analyze, called by a program.
Analyze(source, kinds) ==
  /\ Call
  /\ report' = Numbered(source, kinds)
  /\ UNCHANGED <<lessons, mistakes, file, saving>>

\* cmd_reflect: a process of its own, which loads the file first.
Reflect(source, kinds) ==
  /\ Call
  /\ lessons' = file.lessons
  /\ mistakes' = file.mistakes
  /\ report' = Numbered(source, kinds)
  /\ saving' = TRUE
  /\ UNCHANGED file

RecordFailure(task, kind) ==
  /\ Call
  /\ report' = <<[id |-> <<"failure", task>>, kind |-> kind]>>
  /\ UNCHANGED <<lessons, mistakes, file, saving>>

\* _add_lesson looks for its kind among all lessons, the resolved ones included.
Similar(lesson) == {id \in DOMAIN lessons : lessons[id].kind = lesson.kind}

CountMistake(lesson) == mistakes' = [mistakes EXCEPT ![lesson.kind[1]] = @ + 1]

\* Mutated form of Merge: a merge is saved too, before the mistake is counted.
MergeSaved(lesson) ==
  /\ \E id \in Similar(lesson) :
       /\ lessons' = [lessons EXCEPT ![id].count = @ + 1]
       /\ file' = Saved(lessons')
  /\ CountMistake(lesson)

Merge(lesson) ==
  /\ \E id \in Similar(lesson) : lessons' = [lessons EXCEPT ![id].count = @ + 1]
  /\ CountMistake(lesson)
  /\ UNCHANGED file

\* A new kind is stored under the lesson's id, whatever was there, and saved
\* before its mistake is counted.
Store(lesson) ==
  /\ Similar(lesson) = {}
  /\ lessons' = [id \in DOMAIN lessons \cup {lesson.id} |->
                   IF id = lesson.id
                     THEN [kind |-> lesson.kind, count |-> 1, resolved |-> FALSE]
                     ELSE lessons[id]]
  /\ file' = Saved(lessons')
  /\ CountMistake(lesson)

AddLesson ==
  /\ report # <<>>
  /\ Merge(Head(report)) \/ Store(Head(report))
  /\ report' = Tail(report)
  /\ reported' = IF saving THEN reported \cup {Head(report).kind} ELSE {}
  /\ UNCHANGED <<saving, calls>>

\* cmd_reflect saves once more after analyze.
FinalSave ==
  /\ report = <<>> /\ saving
  /\ file' = Saved(lessons)
  /\ saving' = FALSE
  /\ UNCHANGED <<lessons, mistakes, report, reported, calls>>

\* resolve_lesson does not save.
Resolve(id) ==
  /\ Call
  /\ lessons' = [lessons EXCEPT ![id].resolved = TRUE]
  /\ UNCHANGED <<mistakes, file, report, saving>>

Save ==
  /\ Call
  /\ file' = Saved(lessons)
  /\ UNCHANGED <<lessons, mistakes, report, saving>>

\* The process ends, in a call or after it, and the next one loads the file;
\* killed while it writes, it leaves a file that does not parse, which load ignores.
Restart ==
  /\ calls < MaxCalls
  /\ calls' = calls + 1
  /\ file' \in {file, Empty}
  /\ file' # file => report # <<>> \/ saving
  /\ lessons' = file'.lessons
  /\ mistakes' = file'.mistakes
  /\ report' = <<>> /\ saving' = FALSE /\ reported' = {}

Reports == UNION {[1 .. n -> Kinds] : n \in 1 .. MaxReport}

Next ==
  \/ \E s \in {"fallback", "llm"}, ks \in Reports : Analyze(s, ks) \/ Reflect(s, ks)
  \/ \E t \in FailedTasks, k \in Kinds : RecordFailure(t, k)
  \/ AddLesson \/ FinalSave \/ Save \/ Restart
  \/ \E id \in DOMAIN lessons : Resolve(id)

Spec == Init /\ [][Next]_vars

-----------------------------------------------------------------------------
\* What is remembered of a category: each time that a lesson of it came back,
\* from its second on, and how often that was.
Returns(ls, c) ==
  UNION {{id} \X (2 .. ls[id].count) : id \in {i \in DOMAIN ls : ls[i].kind[1] = c}}

Repeats(ls, c) == Cardinality(Returns(ls, c))

\* A lesson's return is never counted without its mistake, in memory or in any
\* file that a kill may leave: though a save inside _add_lesson runs one
\* mistake behind, the repeats it writes do not.
RepeatsCounted ==
  \A c \in Categories :
    /\ Repeats(lessons, c) <= mistakes[c]
    /\ Repeats(file.lessons, c) <= file.mistakes[c]

\* "Lessons are written to disk": after a reflect command, each lesson it
\* printed is in the file, itself or merged with one of its kind.
ReportedStored ==
  report = <<>> /\ ~saving =>
    \A k \in reported : \E id \in DOMAIN file.lessons : file.lessons[id].kind = k

=============================================================================
