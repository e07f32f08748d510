--------------------------- MODULE TieringProofs ---------------------------
(***************************************************************************)
(* Proofs that the tiering never loses a fact, keeps one copy of it while  *)
(* nothing fails, and leaves no cold row behind, for all thresholds, any   *)
(* number of facts and any number of kills and failed saves.               *)
(***************************************************************************)
EXTENDS Tiering, FiniteSetTheorems, TLAPS

\* The entries that the next kill and the next save of the file both leave:
\* an entry of the file that the dict lacks does not survive the next save.
Firm == sem \cup IF pc = "down" THEN disk ELSE epi \cap disk

Shape ==
  /\ fact \in [Ids -> Facts \cup {NoFact}]
  /\ epi \subseteq Ids /\ disk \subseteq Ids /\ sem \subseteq Ids
  /\ added \subseteq Facts
  /\ partial \subseteq Ids /\ \A i \in partial : fact[i] \in Triples
  /\ (epi \cup disk) \cap sem = {}
  /\ pc = "down" => epi = {}

\* The entries still to be scanned, the entry of a move in progress and its
\* copy in the other store
Moving ==
  /\ pc \in {"episodic", "promoted"} => todo \subseteq epi
  /\ pc \in {"semantic", "cold", "demoted"} => todo \subseteq sem
  /\ pc \in {"promoted", "cold", "demoted"} => cur \subseteq todo
  /\ \A i, k \in cur : i = k
  /\ pc = "promoted" => \A i \in cur : \E j \in sem : fact[j] = fact[i]
  /\ pc = "demoted" => \A i \in cur : \E j \in epi \cap disk : fact[j] = fact[i]

Kept == \A f \in added : \E i \in Firm : fact[i] = f

IInv == Shape /\ Moving /\ Kept

-----------------------------------------------------------------------------
LEMMA InitIInv == Init => IInv
BY DEF Init, IInv, Shape, Moving, Kept

\* Adding an entry under a fresh id changes no entry that is there.
LEMMA FreshLeaves ==
  ASSUME Shape, NEW i, NEW f, Fresh(i, f)
  PROVE  /\ i \in Ids /\ i \notin epi \cup disk \cup sem
         /\ \A j \in epi \cup disk \cup sem : fact'[j] = fact[j]
         /\ fact'[i] = f
         /\ f \in Facts \cup {NoFact} => fact' \in [Ids -> Facts \cup {NoFact}]
BY DEF Fresh, Free, Held, Shape

\* Only a fact of a row with an object is ever cut.
LEMMA CutLeaves ==
  ASSUME Shape, NEW i, NEW f, NEW less, Fresh(i, f), Cut(i, less), less => f \in Triples
  PROVE  partial' \subseteq Ids /\ \A j \in partial' : fact'[j] \in Triples
BY DEF Cut, Fresh, Free, Shape

LEMMA ForgetLeaves ==
  ASSUME Shape, NEW ids, Forget(ids)
  PROVE  /\ \A j \in Ids \ ids : fact'[j] = fact[j]
         /\ fact' \in [Ids -> Facts \cup {NoFact}]
         /\ partial' \subseteq Ids /\ \A j \in partial' : fact'[j] \in Triples
BY DEF Forget, Shape

\* The calls between the cycles.
LEMMA CallStep == ASSUME IInv, Call PROVE IInv'
<1>. USE DEF IInv
<1>1. ASSUME NEW i \in Ids, NEW f \in Facts, AddEpisodic(i, f) PROVE IInv'
  <2>0. Fresh(i, f) BY <1>1 DEF AddEpisodic
  <2>p. partial' \subseteq Ids /\ \A k \in partial' : fact'[k] \in Triples
    BY <1>1, <2>0, CutLeaves DEF AddEpisodic
  <2>1. Shape' BY <1>1, <2>0, <2>p, FreshLeaves DEF AddEpisodic, Shape, scan
  <2>2. Moving' BY <1>1 DEF AddEpisodic, Moving, scan
  <2>3. Kept' BY <1>1, <2>0, FreshLeaves DEF AddEpisodic, Kept, Firm, scan
  <2>. QED BY <2>1, <2>2, <2>3
<1>2. ASSUME NEW i \in Ids, NEW f \in Facts, AddSemantic(i, f) PROVE IInv'
  <2>0. Fresh(i, f) BY <1>2 DEF AddSemantic
  <2>p. partial' \subseteq Ids /\ \A k \in partial' : fact'[k] \in Triples
    BY <1>2, <2>0, CutLeaves DEF AddSemantic
  <2>1. Shape' BY <1>2, <2>0, <2>p, FreshLeaves DEF AddSemantic, Shape, scan
  <2>2. Moving' BY <1>2 DEF AddSemantic, Moving, scan
  <2>3. Kept' BY <1>2, <2>0, FreshLeaves DEF AddSemantic, Kept, Firm, scan
  <2>. QED BY <2>1, <2>2, <2>3
<1>3. ASSUME UNCHANGED <<fact, partial, epi, disk, sem, added>>, pc = "idle",
             StartCycle \/ UNCHANGED scan
      PROVE  IInv'
  <2>1. pc' \in {"idle", "episodic"} /\ cur' = cur /\ (pc' = "episodic" => todo' = epi)
    BY <1>3 DEF StartCycle, scan
  <2>2. Shape' BY <1>3, <2>1 DEF Shape
  <2>3. Moving' BY <1>3, <2>1 DEF Moving
  <2>4. Kept' BY <1>3, <2>1 DEF Kept, Firm
  <2>. QED BY <2>2, <2>3, <2>4
<1>4. ASSUME NEW i \in Ids, RecordAccess(i) PROVE IInv'
  BY <1>3, <1>4 DEF RecordAccess
<1>5. CASE AutoTier
  BY <1>3, <1>5 DEF AutoTier, stores
<1>. QED BY <1>1, <1>2, <1>4, <1>5 DEF Call

\* The steps of auto_tier.
LEMMA CycleStep == ASSUME IInv, Cycle PROVE IInv'
<1>. USE DEF IInv
<1>1. ASSUME NEW i \in Ids, SkipCold(i) PROVE IInv'
  BY <1>1 DEF SkipCold, stores, Shape, Moving, Kept, Firm
<1>2. ASSUME NEW i \in Ids, NEW j \in Ids, PromoteAdd(i, j) PROVE IInv'
  <2>0. Fresh(j, fact[i]) /\ fact[i] \in Facts \cup {NoFact} BY <1>2 DEF PromoteAdd, Shape
  <2>p. partial' \subseteq Ids /\ \A k \in partial' : fact'[k] \in Triples
    BY <1>2, <2>0, CutLeaves DEF PromoteAdd, Shape
  <2>1. Shape' BY <1>2, <2>0, <2>p, FreshLeaves DEF PromoteAdd, Shape
  <2>2. i \in epi /\ j \notin epi \cup sem
    BY <1>2, <2>0, FreshLeaves DEF PromoteAdd, Moving
  <2>3. fact'[j] = fact[i] /\ fact'[i] = fact[i]
    BY <2>0, <2>2, FreshLeaves
  <2>4. Moving' BY <1>2, <2>2, <2>3 DEF PromoteAdd, Moving
  <2>5. Kept' BY <1>2, <2>0, FreshLeaves DEF PromoteAdd, Kept, Firm
  <2>. QED BY <2>1, <2>4, <2>5
<1>3. CASE PromoteDelete
  <2>0. Forget(cur) /\ cur \subseteq epi BY <1>3 DEF PromoteDelete, Moving
  <2>1. Shape' BY <1>3, <2>0, ForgetLeaves DEF PromoteDelete, Shape
  <2>2. Moving' BY <1>3 DEF PromoteDelete, Moving
  <2>3. Kept'
    <3>. SUFFICES ASSUME NEW f \in added PROVE \E i \in Firm' : fact'[i] = f
      BY <1>3 DEF PromoteDelete, Kept
    <3>1. PICK i \in sem \cup (epi \cap disk) : fact[i] = f
      BY <1>3 DEF PromoteDelete, Kept, Firm
    <3>2. PICK j \in sem \cup (epi \ cur) : fact[j] = f
      BY <1>3, <3>1 DEF PromoteDelete, Moving
    <3>3. j \in Ids \ cur BY <2>0, <3>2 DEF Shape
    <3>. QED BY <1>3, <2>0, <3>2, <3>3, ForgetLeaves DEF PromoteDelete, Firm
  <2>. QED BY <2>1, <2>2, <2>3
<1>4. CASE EndEpisodic
  BY <1>4 DEF EndEpisodic, Leave, stores, Shape, Moving, Kept, Firm
<1>5. ASSUME NEW i \in Ids, DemoteLook(i) PROVE IInv'
  <2>1. Shape' BY <1>5 DEF DemoteLook, Shape
  <2>2. Moving' BY <1>5 DEF DemoteLook, Moving
  <2>3. Kept' BY <1>5 DEF DemoteLook, Kept, Firm
  <2>. QED BY <2>1, <2>2, <2>3
<1>6. ASSUME NEW j \in Ids, DemoteAdd(j) PROVE IInv'
  <2>0. PICK i \in cur : Fresh(j, fact[i]) /\ Cut(j, fact[i] \in Triples) BY <1>6 DEF DemoteAdd
  <2>1. i \in sem /\ fact[i] \in Facts \cup {NoFact}
    BY <1>6 DEF DemoteAdd, Moving, Shape
  <2>p. partial' \subseteq Ids /\ \A k \in partial' : fact'[k] \in Triples
    BY <1>6, <2>0, CutLeaves
  <2>2. Shape' BY <1>6, <2>0, <2>1, <2>p, FreshLeaves DEF DemoteAdd, Shape
  <2>3. fact'[j] = fact[i] /\ fact'[i] = fact[i] /\ j \notin sem
    BY <2>0, <2>1, FreshLeaves
  <2>4. Moving' BY <1>6, <2>3 DEF DemoteAdd, Moving
  <2>5. Kept' BY <1>6, <2>0, FreshLeaves DEF DemoteAdd, Kept, Firm
  <2>. QED BY <2>2, <2>4, <2>5
<1>7. CASE DemoteDelete
  <2>0. Forget(cur) /\ cur \subseteq sem BY <1>7 DEF DemoteDelete, Moving
  <2>1. Shape' BY <1>7, <2>0, ForgetLeaves DEF DemoteDelete, Shape
  <2>2. Moving' BY <1>7 DEF DemoteDelete, Moving
  <2>3. Kept'
    <3>. SUFFICES ASSUME NEW f \in added PROVE \E i \in Firm' : fact'[i] = f
      BY <1>7 DEF DemoteDelete, Kept
    <3>1. PICK i \in sem \cup (epi \cap disk) : fact[i] = f
      BY <1>7 DEF DemoteDelete, Kept, Firm
    <3>2. PICK j \in (sem \ cur) \cup (epi \cap disk) : fact[j] = f
      BY <1>7, <3>1 DEF DemoteDelete, Moving
    <3>3. j \in Ids \ cur BY <2>0, <3>2 DEF Shape
    <3>. QED BY <1>7, <2>0, <3>2, <3>3, ForgetLeaves DEF DemoteDelete, Firm
  <2>. QED BY <2>1, <2>2, <2>3
<1>8. CASE EndSemantic
  BY <1>8 DEF EndSemantic, Leave, stores, Shape, Moving, Kept, Firm
<1>. QED BY <1>1, <1>2, <1>3, <1>4, <1>5, <1>6, <1>7, <1>8 DEF Cycle

\* Failed saves, kills and restarts.
LEMMA DisturbStep == ASSUME IInv, Disturb PROVE IInv'
<1>. USE DEF IInv
<1>1. CASE PromoteFails
  <2>1. cur \subseteq epi BY <1>1 DEF PromoteFails, Moving
  <2>2. Shape' BY <1>1 DEF PromoteFails, Leave, Shape
  <2>3. Moving' BY <1>1 DEF PromoteFails, Leave, Moving
  <2>4. Kept' BY <1>1, <2>1 DEF PromoteFails, Leave, Moving, Kept, Firm
  <2>. QED BY <2>2, <2>3, <2>4
<1>2. ASSUME NEW j \in Ids, DemoteFails(j) PROVE IInv'
  <2>0. PICK i \in cur : Fresh(j, fact[i]) /\ Cut(j, fact[i] \in Triples) BY <1>2 DEF DemoteFails
  <2>1. fact[i] \in Facts \cup {NoFact} BY <1>2 DEF DemoteFails, Moving, Shape
  <2>p. partial' \subseteq Ids /\ \A k \in partial' : fact'[k] \in Triples
    BY <1>2, <2>0, CutLeaves
  <2>2. Shape' BY <1>2, <2>0, <2>1, <2>p, FreshLeaves DEF DemoteFails, Leave, Shape
  <2>3. Moving' BY <1>2 DEF DemoteFails, Leave, Moving
  <2>4. Kept' BY <1>2, <2>0, FreshLeaves DEF DemoteFails, Leave, Kept, Firm
  <2>. QED BY <2>2, <2>3, <2>4
<1>3. CASE Crash
  <2>0. Forget(epi \ disk) BY <1>3 DEF Crash
  <2>1. Shape' BY <1>3, <2>0, ForgetLeaves DEF Crash, Leave, Shape
  <2>2. Moving' BY <1>3 DEF Crash, Leave, Moving
  <2>3. Kept' BY <1>3, <2>0, ForgetLeaves DEF Crash, Leave, Kept, Firm, Shape
  <2>. QED BY <2>1, <2>2, <2>3
<1>4. CASE Restart
  BY <1>4 DEF Restart, Shape, Moving, Kept, Firm
<1>. QED BY <1>1, <1>2, <1>3, <1>4 DEF Disturb

LEMMA NextIInv == IInv /\ [Next]_vars => IInv'
<1>1. IInv /\ UNCHANGED vars => IInv'
  BY DEF vars, IInv, Shape, Moving, Kept, Firm
<1>. QED BY <1>1, CallStep, CycleStep, DisturbStep DEF Next

\* Whatever is killed or fails, and wherever, a fact that was added stays in
\* the file or in the table.
THEOREM FactsSurvive == Spec => []NoFactLost
<1>1. IInv => NoFactLost
  BY DEF IInv, Shape, Kept, Firm, NoFactLost, Copies
<1>. QED BY <1>1, InitIInv, NextIInv, PTL DEF Spec

-----------------------------------------------------------------------------
(* The types, and what a cycle has looked at                               *)

\* A row that the scan has passed is not cold.
Passed ==
  pc \in {"semantic", "cold", "demoted"} => \A i \in sem \ todo : hits[i] >= DemoteThreshold

LEMMA HitsBound == MaxHits \in Nat /\ DemoteThreshold <= MaxHits
BY TieringAssumption DEF MaxHits

LEMMA BumpGrows ==
  ASSUME hits \in [Ids -> 0..MaxHits], NEW i \in Ids
  PROVE  Bump(i) \in 0..MaxHits /\ Bump(i) >= hits[i]
BY HitsBound DEF Bump

LEMMA InitTypes == Init => TypeOK /\ Passed
<1>1. Cardinality({}) <= 1 BY FS_EmptySet
<1>. QED BY <1>1, HitsBound, TieringAssumption DEF Init, TypeOK, Passed

LEMMA CallTypes == ASSUME IInv, TypeOK, Passed, Call PROVE TypeOK' /\ Passed'
<1>. USE HitsBound, TieringAssumption DEF TypeOK, Passed
<1>p. partial' \subseteq Ids BY CallStep DEF IInv, Shape
<1>. USE <1>p
<1>1. ASSUME NEW i \in Ids, NEW f \in Facts, AddEpisodic(i, f) PROVE TypeOK' /\ Passed'
  <2>1. Fresh(i, f) BY <1>1 DEF AddEpisodic
  <2>2. i \in Ids /\ i \notin epi \cup disk \cup sem /\ fact' \in [Ids -> Facts \cup {NoFact}]
    BY <2>1, FreshLeaves DEF IInv
  <2>3. hits' \in [Ids -> 0..MaxHits] BY <1>1, <2>2 DEF AddEpisodic
  <2>4. (epi' \cup disk') \cap sem' = {} BY <1>1, <2>2 DEF AddEpisodic
  <2>. QED BY <1>1, <2>2, <2>3, <2>4 DEF AddEpisodic, scan
<1>2. ASSUME NEW i \in Ids, NEW f \in Facts, AddSemantic(i, f) PROVE TypeOK' /\ Passed'
  <2>1. Fresh(i, f) BY <1>2 DEF AddSemantic
  <2>2. i \in Ids /\ i \notin epi \cup disk \cup sem /\ fact' \in [Ids -> Facts \cup {NoFact}]
    BY <2>1, FreshLeaves DEF IInv
  <2>3. hits' \in [Ids -> 0..MaxHits] BY <1>2, <2>2 DEF AddSemantic
  <2>4. (epi' \cup disk') \cap sem' = {} BY <1>2, <2>2 DEF AddSemantic
  <2>. QED BY <1>2, <2>2, <2>3, <2>4 DEF AddSemantic, scan
<1>3. ASSUME NEW i \in Ids, RecordAccess(i) PROVE TypeOK' /\ Passed'
  <2>1. hits' \in [Ids -> 0..MaxHits] BY <1>3, BumpGrows DEF RecordAccess
  <2>2. todo' \subseteq Ids /\ due' \subseteq Ids /\ cur' = {} /\ pc' \in {"idle", "episodic"}
    BY <1>3 DEF RecordAccess, StartCycle, scan
  <2>. QED BY <1>3, <2>1, <2>2 DEF RecordAccess
<1>4. CASE AutoTier BY <1>4 DEF AutoTier, StartCycle, stores
<1>. QED BY <1>1, <1>2, <1>3, <1>4 DEF Call

LEMMA CycleTypes == ASSUME IInv, TypeOK, Passed, Cycle PROVE TypeOK' /\ Passed'
<1>. USE HitsBound, TieringAssumption DEF TypeOK, Passed
<1>a. \A i : Cardinality({i}) = 1 BY FS_Singleton
<1>b. Cardinality({}) = 0 BY FS_EmptySet
<1>p. partial' \subseteq Ids BY CycleStep DEF IInv, Shape
<1>. USE <1>p
<1>1. ASSUME NEW i \in Ids, SkipCold(i) PROVE TypeOK' /\ Passed'
  BY <1>1 DEF SkipCold, stores
<1>2. ASSUME NEW i \in Ids, NEW j \in Ids, PromoteAdd(i, j) PROVE TypeOK' /\ Passed'
  <2>1. Fresh(j, fact[i]) /\ fact[i] \in Facts \cup {NoFact} BY <1>2 DEF PromoteAdd
  <2>2. j \notin epi \cup disk \cup sem /\ fact' \in [Ids -> Facts \cup {NoFact}]
    BY <2>1, FreshLeaves DEF IInv
  <2>3. hits' \in [Ids -> 0..MaxHits] BY <1>2, BumpGrows DEF PromoteAdd
  <2>4. (epi' \cup disk') \cap sem' = {} BY <1>2, <2>2 DEF PromoteAdd
  <2>a. cur' = {i} BY <1>2 DEF PromoteAdd
  <2>b. Cardinality({i}) = 1 BY <1>a
  <2>5. cur' = {i} /\ Cardinality(cur') <= 1 BY <2>a, <2>b
  <2>. QED BY <1>2, <2>2, <2>3, <2>4, <2>5 DEF PromoteAdd
<1>3. CASE PromoteDelete BY <1>3, <1>b DEF PromoteDelete, Forget
<1>4. CASE EndEpisodic BY <1>4, <1>b DEF EndEpisodic, Leave, stores
<1>5. ASSUME NEW i \in Ids, DemoteLook(i) PROVE TypeOK' /\ Passed'
  <2>1. hits' \in [Ids -> 0..MaxHits] BY <1>5, BumpGrows DEF DemoteLook
  <2>2. \A k \in sem : hits'[k] >= hits[k] BY <1>5, BumpGrows DEF DemoteLook
  <2>3. Passed'
    BY <1>5, <2>1, <2>2 DEF DemoteLook
  <2>4. \/ cur' = cur /\ pc' = pc /\ todo' = todo \ {i} /\ cur = {}
        \/ cur' = {i} /\ pc' = "cold" /\ todo' = todo
    BY <1>5 DEF DemoteLook
  <2>b. Cardinality({i}) = 1 BY <1>a
  <2>5. Cardinality(cur') <= 1
    <3>1. Cardinality(cur) <= 1 OBVIOUS
    <3>2. CASE cur' = cur BY <3>1, <3>2
    <3>3. CASE cur' = {i} BY <2>b, <3>3
    <3>. QED BY <2>4, <3>2, <3>3
  <2>6. i \in todo /\ pc = "semantic"
        /\ UNCHANGED <<fact, partial, epi, disk, sem, due, added, faults>>
    BY <1>5 DEF DemoteLook
  <2>. QED BY <2>1, <2>3, <2>4, <2>5, <2>6
<1>6. ASSUME NEW j \in Ids, DemoteAdd(j) PROVE TypeOK' /\ Passed'
  <2>1. PICK i \in cur : Fresh(j, fact[i]) BY <1>6 DEF DemoteAdd
  <2>2. j \notin epi \cup disk \cup sem /\ fact' \in [Ids -> Facts \cup {NoFact}]
    BY <2>1, FreshLeaves DEF IInv
  <2>3. hits' \in [Ids -> 0..MaxHits] BY <1>6 DEF DemoteAdd
  <2>4. (epi' \cup disk') \cap sem' = {} BY <1>6, <2>2 DEF DemoteAdd
  <2>5. Passed' BY <1>6, <2>2 DEF DemoteAdd
  <2>. QED BY <1>6, <2>2, <2>3, <2>4, <2>5 DEF DemoteAdd
<1>7. CASE DemoteDelete
  <2>1. /\ fact' \in [Ids -> Facts \cup {NoFact}] /\ hits' \in [Ids -> 0..MaxHits]
        /\ \A i \in sem \ cur : hits'[i] = hits[i]
    BY <1>7 DEF DemoteDelete, Forget
  <2>2. Passed' BY <1>7, <2>1 DEF DemoteDelete
  <2>. QED BY <1>7, <1>b, <2>1, <2>2 DEF DemoteDelete
<1>8. CASE EndSemantic BY <1>8, <1>b DEF EndSemantic, Leave, stores
<1>. QED BY <1>1, <1>2, <1>3, <1>4, <1>5, <1>6, <1>7, <1>8 DEF Cycle

LEMMA DisturbTypes == ASSUME IInv, TypeOK, Passed, Disturb PROVE TypeOK' /\ Passed'
<1>. USE HitsBound, TieringAssumption DEF TypeOK, Passed, Fault, Leave
<1>b. Cardinality({}) = 0 BY FS_EmptySet
<1>p. partial' \subseteq Ids BY DisturbStep DEF IInv, Shape
<1>. USE <1>p
<1>1. CASE PromoteFails BY <1>1, <1>b DEF PromoteFails
<1>2. ASSUME NEW j \in Ids, DemoteFails(j) PROVE TypeOK' /\ Passed'
  <2>1. PICK i \in cur : Fresh(j, fact[i]) BY <1>2 DEF DemoteFails
  <2>2. j \notin epi \cup disk \cup sem /\ fact' \in [Ids -> Facts \cup {NoFact}]
    BY <2>1, FreshLeaves DEF IInv
  <2>3. hits' \in [Ids -> 0..MaxHits] BY <1>2 DEF DemoteFails
  <2>4. (epi' \cup disk') \cap sem' = {} BY <1>2, <2>2 DEF DemoteFails
  <2>. QED BY <1>2, <1>b, <2>2, <2>3, <2>4 DEF DemoteFails
<1>3. CASE Crash BY <1>3, <1>b DEF Crash, Forget
<1>4. CASE Restart BY <1>4, <1>b DEF Restart
<1>. QED BY <1>1, <1>2, <1>3, <1>4 DEF Disturb

LEMMA NextTypes == IInv /\ TypeOK /\ Passed /\ [Next]_vars => TypeOK' /\ Passed'
<1>1. TypeOK /\ Passed /\ UNCHANGED vars => TypeOK' /\ Passed' BY DEF vars, TypeOK, Passed
<1>. QED BY <1>1, CallTypes, CycleTypes, DisturbTypes DEF Next

LEMMA SpecTypes == Spec => [](IInv /\ TypeOK /\ Passed)
BY InitIInv, NextIInv, InitTypes, NextTypes, PTL DEF Spec

\* The types of the two stores and of the cycle.
THEOREM TypeCorrect == Spec => []TypeOK
BY SpecTypes, PTL

\* A cycle that gets to its end leaves no row below the demote threshold.
THEOREM CycleLeavesNoneCold == Spec => NoneColdAfter
<1>1. IInv /\ TypeOK /\ Passed /\ [Next]_vars
        => [CycleOver => \A i \in sem : hits[i] >= DemoteThreshold]_vars
  <2>. SUFFICES ASSUME TypeOK, Passed, Next, CycleOver
                PROVE  \A i \in sem : hits[i] >= DemoteThreshold
    OBVIOUS
  <2>1. todo = {} /\ pc = "semantic"
    BY TieringAssumption DEF CycleOver, TypeOK, Next, Call, Cycle, Disturb, AddEpisodic,
       AddSemantic, RecordAccess, AutoTier, SkipCold, PromoteAdd, PromoteDelete, EndEpisodic,
       DemoteLook, DemoteAdd, DemoteDelete, EndSemantic, PromoteFails, DemoteFails, Crash, Restart,
       Fault
  <2>. QED BY <2>1 DEF Passed
<1>. QED BY <1>1, SpecTypes, PTL DEF Spec, NoneColdAfter

-----------------------------------------------------------------------------
(* One copy of each fact, while nothing fails                              *)

\* The entries without the one that its move is about to delete
Settled == IF pc \in {"promoted", "demoted"} THEN Held \ cur ELSE Held

Single ==
  faults = 0 =>
    /\ pc # "down" /\ epi = disk
    /\ \A i \in Held : fact[i] \in added
    /\ \A i, k \in Settled : fact[i] = fact[k] => i = k

LEMMA InitSingle == Init => Single
BY DEF Init, Single, Held, Settled

\* A new entry with a fact that no settled entry has.
LEMMA CallSingle == ASSUME IInv, TypeOK, Single, Call PROVE Single'
<1>. SUFFICES ASSUME faults = 0, faults' = faults PROVE Single'
  BY DEF Single, Call, AddEpisodic, AddSemantic, RecordAccess, AutoTier
<1>. USE DEF Single, Held, Settled, IInv, scan
<1>1. ASSUME NEW i \in Ids, NEW f \in Facts, AddEpisodic(i, f) PROVE Single'
  <2>1. Fresh(i, f) BY <1>1 DEF AddEpisodic
  <2>. QED BY <1>1, <2>1, FreshLeaves DEF AddEpisodic
<1>2. ASSUME NEW i \in Ids, NEW f \in Facts, AddSemantic(i, f) PROVE Single'
  <2>1. Fresh(i, f) BY <1>2 DEF AddSemantic
  <2>. QED BY <1>2, <2>1, FreshLeaves DEF AddSemantic
<1>3. ASSUME NEW i \in Ids, RecordAccess(i) PROVE Single'
  BY <1>3 DEF RecordAccess, StartCycle
<1>4. CASE AutoTier BY <1>4 DEF AutoTier, StartCycle, stores
<1>. QED BY <1>1, <1>2, <1>3, <1>4 DEF Call

\* The copy made by a move takes the place of the entry moved away.
LEMMA CycleSingle == ASSUME IInv, TypeOK, Single, Cycle PROVE Single'
<1>. SUFFICES ASSUME faults = 0, faults' = faults PROVE Single'
  BY DEF Single, Cycle, SkipCold, PromoteAdd, PromoteDelete, EndEpisodic, DemoteLook, DemoteAdd,
     DemoteDelete, EndSemantic
<1>. USE DEF Single, IInv
<1>1. ASSUME NEW i \in Ids, SkipCold(i) PROVE Single'
  BY <1>1 DEF SkipCold, stores, Held, Settled
<1>2. ASSUME NEW i \in Ids, NEW j \in Ids, PromoteAdd(i, j) PROVE Single'
  <2>1. Fresh(j, fact[i]) /\ i \in Held /\ Settled = Held
    BY <1>2 DEF PromoteAdd, Moving, Held, Settled
  <2>2. Held' = Held \cup {j} /\ Settled' = (Settled \ {i}) \cup {j} /\ j \notin Held
    BY <1>2, <2>1, FreshLeaves DEF PromoteAdd, Held, Settled
  <2>3. fact'[j] = fact[i] /\ \A k \in Held : fact'[k] = fact[k]
    BY <2>1, FreshLeaves DEF Held
  <2>. QED BY <1>2, <2>1, <2>2, <2>3 DEF PromoteAdd
<1>3. CASE PromoteDelete
  <2>1. Forget(cur) /\ cur \subseteq epi /\ cur \cap sem = {} /\ Held \subseteq Ids
    BY <1>3 DEF PromoteDelete, Moving, Shape, Held
  <2>2. Held' = Held \ cur /\ Settled' = Settled /\ Settled = Held \ cur
    BY <1>3, <2>1 DEF PromoteDelete, Held, Settled
  <2>3. \A k \in Held \ cur : fact'[k] = fact[k] BY <2>1, ForgetLeaves
  <2>. QED BY <1>3, <2>2, <2>3 DEF PromoteDelete
<1>4. CASE EndEpisodic
  BY <1>4 DEF EndEpisodic, Leave, stores, Held, Settled
<1>5. ASSUME NEW i \in Ids, DemoteLook(i) PROVE Single'
  BY <1>5 DEF DemoteLook, Held, Settled
<1>6. ASSUME NEW j \in Ids, DemoteAdd(j) PROVE Single'
  <2>1. PICK i \in cur : Fresh(j, fact[i]) BY <1>6 DEF DemoteAdd
  <2>2. i \in Held /\ Settled = Held /\ cur = {i}
    BY <1>6 DEF DemoteAdd, Moving, Held, Settled
  <2>3. Held' = Held \cup {j} /\ Settled' = (Settled \ {i}) \cup {j} /\ j \notin Held
    BY <1>6, <2>1, <2>2, FreshLeaves DEF DemoteAdd, Held, Settled
  <2>4. fact'[j] = fact[i] /\ \A k \in Held : fact'[k] = fact[k]
    BY <2>1, FreshLeaves DEF Held
  <2>. QED BY <1>6, <2>2, <2>3, <2>4 DEF DemoteAdd
<1>7. CASE DemoteDelete
  <2>1. Forget(cur) /\ cur \subseteq sem /\ cur \cap epi = {} /\ Held \subseteq Ids
    BY <1>7 DEF DemoteDelete, Moving, Shape, Held
  <2>2. Held' = Held \ cur /\ Settled' = Settled /\ Settled = Held \ cur
    BY <1>7, <2>1 DEF DemoteDelete, Held, Settled
  <2>3. \A k \in Held \ cur : fact'[k] = fact[k] BY <2>1, ForgetLeaves
  <2>. QED BY <1>7, <2>2, <2>3 DEF DemoteDelete
<1>8. CASE EndSemantic
  BY <1>8 DEF EndSemantic, Leave, stores, Held, Settled
<1>. QED BY <1>1, <1>2, <1>3, <1>4, <1>5, <1>6, <1>7, <1>8 DEF Cycle

LEMMA NextSingle == IInv /\ TypeOK /\ Single /\ [Next]_vars => Single'
<1>1. ASSUME TypeOK, Single, Disturb PROVE Single'
  BY <1>1, TieringAssumption
  DEF Disturb, PromoteFails, DemoteFails, Crash, Restart, Fault, TypeOK, Single
<1>2. Single /\ UNCHANGED vars => Single' BY DEF vars, Single, Held, Settled
<1>. QED BY <1>1, <1>2, CallSingle, CycleSingle DEF Next

\* A fact has one settled entry, and the entry its move is about to delete.
LEMMA CopiesCounted == IInv /\ TypeOK /\ Single => OneCopy
<1>. SUFFICES ASSUME IInv, TypeOK, Single, faults = 0, NEW f \in added
              PROVE  Cardinality(Copies(f, Held)) =
                       IF pc \in {"promoted", "demoted"} /\ Copies(f, cur) # {} THEN 2 ELSE 1
  BY DEF OneCopy, Single
<1>1. PICK i \in Settled : fact[i] = f
  <2>1. pc # "down" BY DEF Single
  <2>2. PICK k \in Held : fact[k] = f BY <2>1 DEF IInv, Kept, Firm, Held
  <2>3. CASE pc = "promoted" /\ k \in cur
    <3>1. PICK j \in sem : fact[j] = f BY <2>2, <2>3 DEF IInv, Moving
    <3>2. j \in Settled BY <2>3, <3>1 DEF IInv, Moving, Shape, Held, Settled
    <3>. QED BY <3>1, <3>2
  <2>4. CASE pc = "demoted" /\ k \in cur
    <3>1. PICK j \in epi : fact[j] = f BY <2>2, <2>4 DEF IInv, Moving
    <3>2. j \in Settled BY <2>4, <3>1 DEF IInv, Moving, Shape, Held, Settled
    <3>. QED BY <3>1, <3>2
  <2>. QED BY <2>2, <2>3, <2>4 DEF Settled
<1>2. Copies(f, Settled) = {i} BY <1>1 DEF Single, Copies
<1>3. Cardinality({i}) = 1 /\ IsFiniteSet({i}) BY FS_Singleton
<1>4. CASE pc \in {"promoted", "demoted"} /\ Copies(f, cur) # {}
  <2>1. PICK c \in cur : fact[c] = f BY <1>4 DEF Copies
  <2>2. cur \subseteq Held /\ \A k \in cur : k = c BY <1>4 DEF IInv, Moving, Held
  <2>3. c # i BY <1>1, <1>4 DEF Settled
  <2>4. Copies(f, Held) = {i} \cup {c} BY <1>2, <1>4, <2>1, <2>2 DEF Settled, Copies
  <2>5. Cardinality({i} \cup {c}) = 2 BY <1>3, <2>3, FS_AddElement
  <2>. QED BY <1>4, <2>4, <2>5
<1>5. CASE ~(pc \in {"promoted", "demoted"} /\ Copies(f, cur) # {})
  <2>1. Copies(f, Held) = {i} BY <1>2, <1>5 DEF Settled, Copies
  <2>. QED BY <1>3, <1>5, <2>1
<1>. QED BY <1>4, <1>5

\* While nothing fails, dict and file agree, and a fact that is not on its way
\* has exactly one entry in the two stores together.
THEOREM MovesAreMoves == Spec => []OneCopy
<1>1. Spec => [](IInv /\ TypeOK /\ Single)
  BY SpecTypes, InitSingle, NextSingle, PTL DEF Spec
<1>. QED BY <1>1, CopiesCounted, PTL

=============================================================================
