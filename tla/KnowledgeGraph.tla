--------------------------- MODULE KnowledgeGraph ---------------------------
(***************************************************************************)
(* The knowledge graph (graph/knowledge_graph.py): two dicts that mirror   *)
(* two tables, and the two breadth-first searches over them.  A            *)
(* relationship is the pair of ids it joins; its type, which is part of    *)
(* its id, and properties are left out.  Rows are never deleted, and every *)
(* Entity object a caller holds came from add_entity, so has a row.        *)
(***************************************************************************)
EXTENDS Integers, FiniteSets, Sequences, SequencesExt

CONSTANTS
  Entities,   \* entity ids
  MaxRels,    \* bound on the relationships made
  MaxDepth    \* bound on the depth of a search

VARIABLES
  entities, relationships,            \* _entities, _relationships
  entityTable, relationshipTable,     \* the rows
  search,   \* the search under way: kind, from, to, depth
  visited,  \* its visited set ...
  queue,    \* ... and its queue of ids with their distance
  results,  \* entities expand returns, or the lengths of paths found
  answered  \* the search has returned

graph == <<entities, relationships, entityTable, relationshipTable>>
bfs == <<search, visited, queue, results, answered>>
vars == <<graph, bfs>>

NoSearch == [kind |-> "none"]

Init ==
  /\ entities = {} /\ relationships = {}
  /\ entityTable = {} /\ relationshipTable = {}
  /\ search = NoSearch /\ visited = {} /\ queue = <<>> /\ results = <<>> /\ answered = FALSE

Idle == search = NoSearch

\* A second add of a name replaces the entity, in the dict and in the table.
AddEntity(e) ==
  /\ Idle
  /\ entities' = entities \cup {e}
  /\ entityTable' = entityTable \cup {e}
  /\ UNCHANGED <<relationships, relationshipTable, bfs>>

\* relate takes Entity objects, and does not ask whether this graph has them.
Relate(a, b) ==
  /\ Idle
  /\ {a, b} \subseteq entityTable
  /\ Cardinality(relationshipTable \cup {<<a, b>>}) <= MaxRels
  /\ relationships' = relationships \cup {<<a, b>>}
  /\ relationshipTable' = relationshipTable \cup {<<a, b>>}
  /\ UNCHANGED <<entities, entityTable, bfs>>

\* A new process: its graph is empty until it calls load.
Restart ==
  /\ Idle
  /\ entities' = {} /\ relationships' = {}
  /\ UNCHANGED <<entityTable, relationshipTable, bfs>>

Load ==
  /\ Idle
  /\ entities' = entities \cup entityTable
  /\ relationships' = relationships \cup relationshipTable
  /\ UNCHANGED <<entityTable, relationshipTable, bfs>>

-----------------------------------------------------------------------------
\* Ids at the other end of a relationship, either way round.
Neighbours(id) == {n \in Entities : {<<id, n>>, <<n, id>>} \cap relationships # {}}

\* expand of an entity, find_path between two ids that differ.
Begin(s) ==
  /\ Idle
  /\ search' = s
  /\ visited' = {s.from}
  /\ queue' = <<[id |-> s.from, at |-> 0]>>
  /\ UNCHANGED <<graph, results, answered>>

Expand(e, depth) ==
  /\ e \in entities
  /\ Begin([kind |-> "expand", from |-> e, to |-> e, depth |-> depth])

FindPath(a, b, depth) ==
  /\ a # b
  /\ Begin([kind |-> "path", from |-> a, to |-> b, depth |-> depth])

Searching == search # NoSearch /\ ~answered

\* The queue is empty: expand returns its list, find_path returns None.
Exhausted ==
  /\ Searching /\ queue = <<>>
  /\ answered' = TRUE
  /\ UNCHANGED <<graph, search, visited, queue, results>>

\* Mutated form of TooDeep: one level more.
TooDeepByOne(cur) == cur.at > search.depth

TooDeep(cur) == cur.at >= search.depth

Skip ==
  /\ Searching /\ queue # <<>>
  /\ TooDeep(Head(queue))
  /\ queue' = Tail(queue)
  /\ UNCHANGED <<graph, search, visited, results, answered>>

Enqueue(cur, found) ==
  /\ visited' = visited \cup found
  /\ queue' = Tail(queue) \o SetToSeq({[id |-> n, at |-> cur.at + 1] : n \in found})

\* expand goes through entities of the graph only.
Widen ==
  /\ Searching /\ search.kind = "expand" /\ queue # <<>>
  /\ LET cur == Head(queue)
         found == (Neighbours(cur.id) \ visited) \cap entities
     IN  /\ ~TooDeep(cur)
         /\ Enqueue(cur, found)
         /\ results' = results \o SetToSeq(found)
  /\ UNCHANGED <<graph, search, answered>>

\* find_path goes through any id; it stops at the first relationship that
\* reaches the target.
Follow ==
  /\ Searching /\ search.kind = "path" /\ queue # <<>>
  /\ LET cur == Head(queue)
         found == Neighbours(cur.id) \ visited
     IN  /\ ~TooDeep(cur)
         /\ search.to \notin found
         /\ Enqueue(cur, found)
  /\ UNCHANGED <<graph, search, results, answered>>

Arrive ==
  /\ Searching /\ search.kind = "path" /\ queue # <<>>
  /\ LET cur == Head(queue)
     IN  /\ ~TooDeep(cur)
         /\ search.to \in Neighbours(cur.id) \ visited
         /\ results' = <<cur.at + 1>>
  /\ answered' = TRUE
  /\ UNCHANGED <<graph, search, visited, queue>>

\* The call returns.
Return ==
  /\ answered
  /\ search' = NoSearch /\ visited' = {} /\ queue' = <<>> /\ results' = <<>> /\ answered' = FALSE
  /\ UNCHANGED graph

Next ==
  \/ \E e \in Entities : AddEntity(e) \/ \E d \in 1 .. MaxDepth : Expand(e, d)
  \/ \E a, b \in Entities : Relate(a, b) \/ \E d \in 1 .. MaxDepth : FindPath(a, b, d)
  \/ Restart \/ Load
  \/ Exhausted \/ Skip \/ Widen \/ Follow \/ Arrive \/ Return

-----------------------------------------------------------------------------
\* Reference: the ids that a walk over at most k relationships reaches from e
\* through ids in via; a walk may pause.
Walks(e, via, k) ==
  {w \in [0 .. k -> Entities] :
     /\ w[0] = e
     /\ \A i \in 1 .. k : w[i] = w[i - 1] \/ w[i] \in Neighbours(w[i - 1]) \cap via}

Ball(e, via, k) == {w[k] : w \in Walks(e, via, k)}

\* expand returns each entity within the depth once, reached through entities of
\* the graph, and nothing else; find_path returns a shortest path if the target
\* is within max_depth, and None exactly when it is not.
SearchesExact ==
  answered =>
    LET reached == Ball(search.from, Entities, search.depth) IN
    CASE search.kind = "expand" ->
           /\ ToSet(results) = Ball(search.from, entities, search.depth) \ {search.from}
           /\ IsInjective(results)
      [] search.kind = "path" ->
           IF search.to \in reached
             THEN /\ Len(results) = 1
                  /\ search.to \in Ball(search.from, Entities, results[1])
                  /\ search.to \notin Ball(search.from, Entities, results[1] - 1)
             ELSE results = <<>>

=============================================================================
