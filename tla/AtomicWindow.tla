---------------------------- MODULE AtomicWindow ----------------------------
(***************************************************************************)
(* What a context window promises the one caller at a time it was written  *)
(* for: each method is a single step, and an add prunes at once a set of   *)
(* messages that follows from the window alone.  Nothing is promised once  *)
(* calls have overlapped.                                                  *)
(***************************************************************************)
EXTENDS Integers, FiniteSets, Sequences

CONSTANTS
  Kinds,
  MaxContent,
  Usable

VARIABLES
  attr,        \* every message so far
  messages,    \* those in the list
  pruned,
  summarized,
  summarizer,  \* one is registered
  shared       \* calls have overlapped

vars == <<attr, messages, pruned, summarized, summarizer, shared>>

Init ==
  /\ attr = <<>>
  /\ messages = {} /\ pruned = {} /\ summarized = {}
  /\ summarizer = FALSE /\ shared = FALSE

-----------------------------------------------------------------------------
(* Over a list of messages, of which active are not pruned                 *)

Weight(list, set) ==
  Cardinality({s \in (1..Len(list)) \X (1..MaxContent) : s[1] \in set /\ s[2] <= list[s[1]].tokens})

Expendable(list, active) == {m \in active : ~(list[m].grounding \/ list[m].tier = 0)}

\* The order of pruning_score: important before unimportant (which README.md
\* says the other way round), then long before short, old before new.
Precedes(list, m, n) ==
  \/ list[m].importance * 1000 + list[m].tokens > list[n].importance * 1000 + list[n].tokens
  \/ /\ list[m].importance * 1000 + list[m].tokens = list[n].importance * 1000 + list[n].tokens
     /\ m < n

Sooner(list, active, v) == {m \in Expendable(list, active) : Precedes(list, m, v)}

\* A message goes when the window is over budget without those that go sooner.
Victims(list, active) ==
  {v \in Expendable(list, active) : Weight(list, active \ Sooner(list, active, v)) > Usable}

-----------------------------------------------------------------------------
Add(k) ==
  /\ attr' = Append(attr, k)
  /\ messages' = messages \cup {Len(attr) + 1}
  /\ pruned' = pruned \cup Victims(attr', messages' \ pruned)
  /\ UNCHANGED <<summarized, summarizer>>

Propagate(m, p) ==
  /\ attr[p].tier > 0 /\ attr[p].importance > attr[m].importance
  /\ attr' = [attr EXCEPT ![m].importance = attr[p].importance,
                          ![m].tier = IF @ <= attr[p].tier THEN @ ELSE attr[p].tier]
  /\ UNCHANGED <<messages, pruned, summarized, summarizer>>

Empty ==
  /\ messages' = {}
  /\ UNCHANGED <<attr, pruned, summarized, summarizer>>

SetSummarizer ==
  /\ summarizer' = TRUE
  /\ UNCHANGED <<attr, messages, pruned, summarized>>

Block == {m \in messages \ pruned : attr[m].tier >= 3 /\ m \notin summarized}

\* A pass of the summarizer leaves of the block its first message, or nothing.
Summarize ==
  /\ summarizer
  /\ \/ \E first \in Block :
          /\ \A m \in Block : first <= m
          /\ summarized' = summarized \cup {first}
          /\ pruned' = pruned \cup (Block \ {first})
     \/ /\ pruned' = pruned \cup Block
        /\ UNCHANGED summarized
  /\ UNCHANGED <<attr, messages, summarizer>>

Alone ==
  /\ UNCHANGED shared
  /\ \/ \E k \in Kinds : Add(k)
     \/ \E m, p \in messages : Propagate(m, p)
     \/ Empty \/ SetSummarizer \/ Summarize

Overlap == shared'

Next == Alone \/ Overlap

Spec == Init /\ [][Next]_vars

=============================================================================
