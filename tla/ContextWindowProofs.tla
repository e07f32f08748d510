------------------------ MODULE ContextWindowProofs ------------------------
(***************************************************************************)
(* What holds of ContextWindow for any number of threads, any messages and *)
(* any budget, with a summarizer registered or not.                        *)
(***************************************************************************)
EXTENDS ContextRefinement, FiniteSetTheorems, TLAPS

\* What propagation writes is again a message kind, so attr keeps its length
\* and its type; protection neither spreads nor wears off.
LEMMA PropagateAttr ==
  ASSUME TypeOK, NEW t \in Threads, NEW m \in messages, NEW p \in messages,
         Propagate(t, m, p)
  PROVE  /\ attr' \in Seq(Kind)
         /\ Len(attr') = Len(attr)
         /\ \A n \in 1..Len(attr) : /\ attr'[n].tokens = attr[n].tokens
                                    /\ attr'[n].grounding = attr[n].grounding
                                    /\ attr'[n].tier = 0 <=> attr[n].tier = 0
<1> DEFINE tr == IF attr[m].tier <= attr[p].tier THEN attr[m].tier ELSE attr[p].tier
           new == [attr[m] EXCEPT !.importance = attr[p].importance, !.tier = tr]
<1>1. /\ m \in 1..Len(attr) /\ p \in 1..Len(attr)
      /\ attr[m] \in Kind /\ attr[p] \in Kind
  BY DEF TypeOK
<1>2. attr' = [attr EXCEPT ![m] = new]
  BY <1>1 DEF Propagate, TypeOK, Kind
<1>3. new \in Kind
  BY <1>1 DEF Kind, Tiers
<1>4. attr' \in Seq(Kind) /\ Len(attr') = Len(attr)
  BY <1>1, <1>2, <1>3 DEF TypeOK
<1> HIDE DEF tr, new
<1>a. attr \in [1..Len(attr) -> Kind]
  BY DEF TypeOK
<1>b. attr' \in [1..Len(attr) -> Kind] /\ \A n \in 1..Len(attr) :
        attr'[n] = IF n = m THEN new ELSE attr[n]
  BY <1>1, <1>2, <1>3, <1>a
<1>5. ASSUME NEW n \in 1..Len(attr)
      PROVE  /\ attr'[n].tokens = attr[n].tokens
             /\ attr'[n].grounding = attr[n].grounding
             /\ attr'[n].tier = 0 <=> attr[n].tier = 0
  <2>1. CASE n = m
    <3>1. attr'[n] = new
      BY <1>b, <2>1
    <3>2. attr[p].tier # 0
      BY <1>1 DEF Propagate, Kind, Tiers
    <3> QED BY <1>1, <2>1, <3>1, <3>2 DEF tr, new, Kind, Tiers
  <2>2. CASE n # m
    <3>1. attr'[n] = attr[n]
      BY <1>b, <2>2
    <3> QED BY <3>1
  <2> QED BY <2>1, <2>2
<1> QED BY <1>4, <1>5

-----------------------------------------------------------------------------
(* Type correctness                                                        *)

LEMMA InitType == Init => TypeOK
<1> SUFFICES ASSUME Init PROVE TypeOK
  OBVIOUS
<1>1. summarizer \in BOOLEAN /\ overlapped \in BOOLEAN
  BY DEF Init
<1>2. attr = <<>> /\ attr \in Seq(Kind) /\ Len(attr) = 0
  BY DEF Init
<1>3. local \in [Threads -> LocalType]
  BY <1>2 DEF Init, LocalType, NoLocal
<1> QED BY <1>1, <1>2, <1>3 DEF Init, TypeOK, NoStats, Locations

LEMMA ActiveFinite == ASSUME TypeOK PROVE IsFiniteSet(Active) /\ IsFiniteSet(messages)
<1>1. IsFiniteSet(1..Len(attr))
  BY FS_Interval DEF TypeOK
<1>2. messages \in SUBSET (1..Len(attr)) /\ Active \in SUBSET (1..Len(attr))
  BY DEF TypeOK, Active
<1> QED BY <1>1, <1>2, FS_Subset

LEMMA SlotsFinite == ASSUME TypeOK PROVE IsFiniteSet(TokenSlots) /\ ActiveTokens \in Nat
<1>1. IsFiniteSet(1..Len(attr)) /\ IsFiniteSet(1..MaxContent)
  BY FS_Interval, ContextAssumption DEF TypeOK
<1>2. IsFiniteSet((1..Len(attr)) \X (1..MaxContent))
  BY <1>1, FS_Product
<1>3. TokenSlots \in SUBSET ((1..Len(attr)) \X (1..MaxContent))
  BY DEF TokenSlots
<1> QED BY <1>2, <1>3, FS_Subset, FS_CardinalityType DEF ActiveTokens

\* A step of t that moves t away from "mark" and changes no other field than
\* the ones given leaves the rest of pc and local well typed.
LEMMA LocalStep ==
  ASSUME TypeOK, NEW t \in Threads, NEW to \in Locations \ {"mark"}, NEW x \in LocalType,
         pc' = [pc EXCEPT ![t] = to], local' = [local EXCEPT ![t] = x],
         Len(attr') = Len(attr)
  PROVE  /\ pc' \in [Threads -> Locations]
         /\ local' \in [Threads -> LocalType']
         /\ \A u \in Threads : pc'[u] = "mark" => local'[u].victim # 0
<1>1. LocalType' = LocalType
  BY DEF LocalType
<1> QED BY <1>1 DEF TypeOK

LEMMA LateType == TypeOK /\ [Next]_vars => late' \subseteq 1..Len(attr')
<1> SUFFICES ASSUME TypeOK, [Next]_vars, UNCHANGED vars \/ Next
             PROVE  late' \subseteq 1..Len(attr')
  OBVIOUS
<1>1. CASE UNCHANGED vars
  BY <1>1 DEF vars, TypeOK
<1>2. ASSUME NEW t \in Threads, Advance(t) \/ Call(t), Observe(t)
      PROVE  late' \subseteq 1..Len(attr')
  <2>1. Len(attr) \in Nat /\ Len(attr') \in Nat /\ Len(attr) <= Len(attr')
    <3>1. ASSUME NEW k \in Kinds, Add(t, k) PROVE Len(attr') = Len(attr) + 1
      BY <3>1, ContextAssumption DEF Add, TypeOK
    <3>2. ASSUME NEW m \in messages, NEW p \in messages, Propagate(t, m, p)
          PROVE  Len(attr') = Len(attr)
      BY <3>2, PropagateAttr
    <3>3. ASSUME ~\E k \in Kinds : Add(t, k), ~\E m, p \in messages : Propagate(t, m, p)
          PROVE  attr' = attr
      BY <1>2, <3>3 DEF Advance, Call, ListActive, SumTokens, WriteStats, CheckBudget, TestLoop,
         PickVictim, GiveUp, MarkVictim, Tally, Clear, Reset, SetSummarizer, CollectTier3,
         AnswerLLM, ApplySummary, ApplyNoSignal
    <3>4. Len(attr) \in Nat BY DEF TypeOK
    <3> QED BY <3>1, <3>2, <3>3, <3>4
  <2>2. summarized' \subseteq summarized \cup local[t].block
    BY <1>2 DEF Advance, Call, Add, ListActive, SumTokens, WriteStats, CheckBudget, TestLoop,
       PickVictim, GiveUp, MarkVictim, Tally, Propagate, Clear, Reset, SetSummarizer,
       CollectTier3, AnswerLLM, ApplySummary, ApplyNoSignal
  <2>3. local[t].block \subseteq 1..Len(attr) /\ late \subseteq 1..Len(attr)
    BY DEF TypeOK, LocalType
  <2>4. late' \subseteq late \cup local[t].block
    BY <1>2, <2>2 DEF Observe
  <2>5. 1..Len(attr) \subseteq 1..Len(attr')
    BY <2>1
  <2> QED BY <2>3, <2>4, <2>5
<1> QED BY <1>1, <1>2 DEF Next

LEMMA NextType == TypeOK /\ [Next]_vars => TypeOK'
<1> SUFFICES ASSUME TypeOK, [Next]_vars PROVE TypeOK'
  OBVIOUS
<1>0. overlapped' \in BOOLEAN /\ late' \subseteq 1..Len(attr')
  BY LateType DEF Next, Observe, TypeOK, vars
<1> USE <1>0
<1>1. ASSUME NEW t \in Threads, NEW k \in Kinds, Add(t, k) PROVE TypeOK'
  <2>1. k \in Kind
    BY ContextAssumption
  <2>2. attr' \in Seq(Kind) /\ Len(attr') = Len(attr) + 1
    BY <1>1, <2>1 DEF Add, TypeOK
  <2>3. 1..Len(attr) \subseteq 1..Len(attr') /\ 0..Len(attr) \subseteq 0..Len(attr')
    BY <2>2 DEF TypeOK
  <2>4. messages' \subseteq 1..Len(attr')
    <3>1. Len(attr) \in Nat /\ Len(attr) + 1 \in 1..Len(attr')
      BY <2>2 DEF TypeOK
    <3>2. messages \subseteq 1..Len(attr')
      BY <2>3 DEF TypeOK
    <3> QED BY <1>1, <3>1, <3>2 DEF Add
  <2> QED
    BY <1>1, <2>2, <2>3, <2>4 DEF Add, Goto, TypeOK, LocalType, Locations
<1>2. ASSUME NEW t \in Threads, ListActive(t) PROVE TypeOK'
  <2>1. Cardinality(Active) \in Nat
    BY ActiveFinite, FS_CardinalityType
  <2> DEFINE x == [local[t] EXCEPT !.active = Cardinality(Active)]
  <2>2. x \in LocalType
    BY <2>1 DEF TypeOK, LocalType
  <2>3. local' = [local EXCEPT ![t] = x]
    BY <1>2 DEF ListActive, TypeOK
  <2> HIDE DEF x
  <2>c. /\ pc' \in [Threads -> Locations]
        /\ local' \in [Threads -> LocalType']
        /\ \A u \in Threads : pc'[u] = "mark" => local'[u].victim # 0
    <3>1. PICK to \in Locations \ {"mark"} : pc' = [pc EXCEPT ![t] = to]
      BY <1>2 DEF ListActive, Goto, Locations
    <3> QED BY <1>2, <2>2, <2>3, <3>1, LocalStep DEF ListActive
  <2> QED
    BY <1>2, <2>c DEF ListActive, TypeOK
<1>18. ASSUME NEW t \in Threads, SumTokens(t) PROVE TypeOK'
  <2>1. ActiveTokens \in Nat
    BY SlotsFinite
  <2> DEFINE x == [local[t] EXCEPT !.tokens = ActiveTokens]
  <2>2. x \in LocalType
    BY <2>1 DEF TypeOK, LocalType
  <2>3. local' = [local EXCEPT ![t] = x]
    BY <1>18 DEF SumTokens, TypeOK
  <2> HIDE DEF x
  <2>c. /\ pc' \in [Threads -> Locations]
        /\ local' \in [Threads -> LocalType']
        /\ \A u \in Threads : pc'[u] = "mark" => local'[u].victim # 0
    <3>1. PICK to \in Locations \ {"mark"} : pc' = [pc EXCEPT ![t] = to]
      BY <1>18 DEF SumTokens, Goto, Locations
    <3> QED BY <1>18, <2>2, <2>3, <3>1, LocalStep DEF SumTokens
  <2> QED
    BY <1>18, <2>c DEF SumTokens, TypeOK
<1>3. ASSUME NEW t \in Threads, WriteStats(t) PROVE TypeOK'
  <2>1. Cardinality(messages) \in Nat
    BY ActiveFinite, FS_CardinalityType
  <2> DEFINE x == [local[t] EXCEPT !.tokens = 0, !.active = 0]
  <2>2. x \in LocalType
    BY DEF TypeOK, LocalType
  <2>3. local' = [local EXCEPT ![t] = x]
    BY <1>3 DEF WriteStats, TypeOK
  <2> HIDE DEF x
  <2>4. stats' \in [current : Nat, count : Nat, active : Nat, pruning : Nat]
    BY <1>3, <2>1 DEF WriteStats, TypeOK, LocalType
  <2>c. /\ pc' \in [Threads -> Locations]
        /\ local' \in [Threads -> LocalType']
        /\ \A u \in Threads : pc'[u] = "mark" => local'[u].victim # 0
    <3>1. PICK to \in {"check", "idle"} : pc' = [pc EXCEPT ![t] = to]
      BY <1>3 DEF WriteStats, Goto
    <3>2. to \in Locations \ {"mark"} /\ Len(attr') = Len(attr)
      BY <1>3, <3>1 DEF WriteStats, Locations
    <3> QED BY <2>2, <2>3, <3>1, <3>2, LocalStep
  <2> QED
    BY <1>3, <2>c, <2>4 DEF WriteStats, TypeOK
<1>4. ASSUME NEW t \in Threads, CheckBudget(t) PROVE TypeOK'
  BY <1>4 DEF CheckBudget, Goto, TypeOK, LocalType, Locations
<1>5. ASSUME NEW t \in Threads, TestLoop(t) PROVE TypeOK'
  BY <1>5 DEF TestLoop, Goto, TypeOK, LocalType, Locations
<1>6. ASSUME NEW t \in Threads, PickVictim(t) PROVE TypeOK'
  <2>1. PICK v \in Candidates : local' = [local EXCEPT ![t].victim = v]
    BY <1>6 DEF PickVictim
  <2>2. v \in 1..Len(attr)
    BY <2>1 DEF Candidates, Active, TypeOK
  <2>3. LocalType' = LocalType
    BY <1>6 DEF PickVictim, LocalType
  <2>4. local' \in [Threads -> LocalType']
    <3>a. local[t] \in LocalType /\ v \in 0..Len(attr)
      BY <2>2 DEF TypeOK
    <3>1. [local[t] EXCEPT !.victim = v] \in LocalType
      BY <3>a DEF LocalType
    <3>2. local' = [local EXCEPT ![t] = [local[t] EXCEPT !.victim = v]]
      BY <2>1
    <3> QED BY <2>3, <3>1, <3>2 DEF TypeOK
  <2>5. \A u \in Threads : pc'[u] = "mark" => local'[u].victim # 0
    BY <1>6, <2>1, <2>2 DEF PickVictim, Goto, TypeOK, LocalType
  <2> QED
    BY <1>6, <2>4, <2>5 DEF PickVictim, Goto, TypeOK, Locations
<1>7. ASSUME NEW t \in Threads, GiveUp(t) PROVE TypeOK'
  BY <1>7 DEF GiveUp, Goto, TypeOK, LocalType, Locations
<1>8. ASSUME NEW t \in Threads, MarkVictim(t) PROVE TypeOK'
  <2> DEFINE x == [local[t] EXCEPT !.victim = 0, !.marked = local[t].marked + 1]
  <2>0. local[t] \in LocalType /\ Len(attr) \in Nat
    BY DEF TypeOK
  <2>1. x \in LocalType
    <3>1. local[t].marked + 1 \in Nat /\ 0 \in 0..Len(attr)
      BY <2>0 DEF LocalType
    <3> QED BY <2>0, <3>1 DEF LocalType
  <2>2. local' = [local EXCEPT ![t] = x]
    BY <1>8 DEF MarkVictim, TypeOK
  <2> HIDE DEF x
  <2>3. local[t].victim \in 1..Len(attr)
    BY <1>8 DEF MarkVictim, Goto, TypeOK, LocalType
  <2>c. /\ pc' \in [Threads -> Locations]
        /\ local' \in [Threads -> LocalType']
        /\ \A u \in Threads : pc'[u] = "mark" => local'[u].victim # 0
    BY <1>8, <2>1, <2>2, <2>3, LocalStep DEF MarkVictim, Goto, Locations
  <2> QED
    BY <1>8, <2>c, <2>3 DEF MarkVictim, TypeOK
<1>9. ASSUME NEW t \in Threads, Tally(t) PROVE TypeOK'
  <2> DEFINE x == [local[t] EXCEPT !.marked = 0]
  <2>1. x \in LocalType
    BY DEF TypeOK, LocalType
  <2>2. local' = [local EXCEPT ![t] = x]
    BY <1>9 DEF Tally, TypeOK
  <2> HIDE DEF x
  <2>3. stats' \in [current : Nat, count : Nat, active : Nat, pruning : Nat]
    <3>1. local[t].marked \in Nat /\ stats.pruning \in Nat
      BY DEF TypeOK, LocalType
    <3>2. stats.pruning + local[t].marked \in Nat
      BY <3>1
    <3> QED BY <1>9, <3>2 DEF Tally, TypeOK
  <2>c. /\ pc' \in [Threads -> Locations]
        /\ local' \in [Threads -> LocalType']
        /\ \A u \in Threads : pc'[u] = "mark" => local'[u].victim # 0
    BY <1>9, <2>1, <2>2, <2>3, LocalStep DEF Tally, Goto, Locations
  <2> QED
    BY <1>9, <2>c, <2>3 DEF Tally, TypeOK
<1>10. ASSUME NEW t \in Threads, NEW m \in messages, NEW p \in messages,
              Propagate(t, m, p)
       PROVE  TypeOK'
  BY <1>10, PropagateAttr DEF Propagate, TypeOK, LocalType
<1>11. ASSUME NEW t \in Threads, Clear(t) PROVE TypeOK'
  BY <1>11 DEF Clear, Goto, TypeOK, LocalType, Locations
<1>12. ASSUME NEW t \in Threads, Reset(t) PROVE TypeOK'
  BY <1>12 DEF Reset, NoStats, TypeOK, LocalType
<1>13. ASSUME NEW t \in Threads, NEW force \in BOOLEAN, CollectTier3(t, force)
       PROVE  TypeOK'
  <2>1. Tier3 \subseteq 1..Len(attr)
    BY DEF Tier3, Active, TypeOK
  <2> DEFINE x == [local[t] EXCEPT !.block = Tier3]
  <2>2. x \in LocalType
    BY <2>1 DEF TypeOK, LocalType
  <2>3. local' = [local EXCEPT ![t] = x]
    BY <1>13 DEF CollectTier3, TypeOK
  <2> HIDE DEF x
  <2>c. /\ pc' \in [Threads -> Locations]
        /\ local' \in [Threads -> LocalType']
        /\ \A u \in Threads : pc'[u] = "mark" => local'[u].victim # 0
    BY <1>13, <2>2, <2>3, LocalStep DEF CollectTier3, Goto, Locations
  <2> QED
    BY <1>13, <2>c DEF CollectTier3, TypeOK
<1>14. ASSUME NEW t \in Threads, ApplySummary(t) PROVE TypeOK'
  <2> DEFINE x == [local[t] EXCEPT !.block = {}]
  <2>1. x \in LocalType /\ local[t].block \subseteq 1..Len(attr)
    BY DEF TypeOK, LocalType
  <2>2. local' = [local EXCEPT ![t] = x]
    BY <1>14 DEF ApplySummary, TypeOK
  <2> HIDE DEF x
  <2>c. /\ pc' \in [Threads -> Locations]
        /\ local' \in [Threads -> LocalType']
        /\ \A u \in Threads : pc'[u] = "mark" => local'[u].victim # 0
    BY <1>14, <2>1, <2>2, LocalStep DEF ApplySummary, Goto, Locations
  <2> QED
    BY <1>14, <2>c, <2>1 DEF ApplySummary, TypeOK
<1>15. ASSUME NEW t \in Threads, ApplyNoSignal(t) PROVE TypeOK'
  <2> DEFINE x == [local[t] EXCEPT !.block = {}]
  <2>1. x \in LocalType /\ local[t].block \subseteq 1..Len(attr)
    BY DEF TypeOK, LocalType
  <2>2. local' = [local EXCEPT ![t] = x]
    BY <1>15 DEF ApplyNoSignal, TypeOK
  <2> HIDE DEF x
  <2>c. /\ pc' \in [Threads -> Locations]
        /\ local' \in [Threads -> LocalType']
        /\ \A u \in Threads : pc'[u] = "mark" => local'[u].victim # 0
    BY <1>15, <2>1, <2>2, LocalStep DEF ApplyNoSignal, Goto, Locations
  <2> QED
    BY <1>15, <2>c, <2>1 DEF ApplyNoSignal, TypeOK
<1>16. CASE UNCHANGED vars
  BY <1>16 DEF vars, TypeOK, LocalType
<1>17. ASSUME NEW t \in Threads, SetSummarizer(t) PROVE TypeOK'
  BY <1>17 DEF SetSummarizer, TypeOK, LocalType
<1> QED
  BY <1>1, <1>2, <1>3, <1>4, <1>5, <1>6, <1>7, <1>8, <1>9, <1>10, <1>11, <1>12,
     <1>13, <1>14, <1>15, <1>16, <1>17, <1>18
     DEF Next, Advance, Call, AnswerLLM

\* Every variable keeps its type, with a summarizer registered or not.
THEOREM TypeCorrect == Spec => []TypeOK
  BY InitType, NextType, PTL DEF Spec

-----------------------------------------------------------------------------
(* Protected messages                                                      *)

\* What a thread has chosen may still be pruned when it is marked: the victim of
\* the loop stays unprotected, and propagation raises no message of a block to
\* TIER_0 while the model answers.  So no test has to be repeated at the mark.
ChoicesHold ==
  \A t \in Threads :
    /\ pc[t] = "mark" => ~Protected(local[t].victim)
    /\ pc[t] = "llm" => summarizer /\ \A m \in local[t].block : attr[m].tier # 0

\* No step makes a message grounding or TIER_0, or ceases to.
LEMMA ProtectionStable ==
  ASSUME TypeOK, [Next]_vars
  PROVE  \A m \in 1..Len(attr) : /\ attr'[m].grounding = attr[m].grounding
                                 /\ attr'[m].tier = 0 <=> attr[m].tier = 0
<1>1. ASSUME NEW t \in Threads, NEW k \in Kinds, Add(t, k), NEW m \in 1..Len(attr)
      PROVE  attr'[m] = attr[m]
  BY <1>1, ContextAssumption DEF Add, TypeOK
<1>2. ASSUME NEW t \in Threads, NEW m \in messages, NEW p \in messages, Propagate(t, m, p),
             NEW n \in 1..Len(attr)
      PROVE  /\ attr'[n].grounding = attr[n].grounding
             /\ attr'[n].tier = 0 <=> attr[n].tier = 0
  BY <1>2, PropagateAttr
<1>3. ASSUME NEW t \in Threads,
             \/ Advance(t) \/ Clear(t) \/ Reset(t) \/ SetSummarizer(t)
             \/ \E force \in BOOLEAN : CollectTier3(t, force)
      PROVE  attr' = attr
  BY <1>3 DEF Advance, ListActive, SumTokens, WriteStats, CheckBudget, TestLoop, PickVictim,
              GiveUp, MarkVictim, Tally, AnswerLLM, ApplySummary, ApplyNoSignal, Clear,
              Reset, SetSummarizer, CollectTier3
<1>4. CASE UNCHANGED vars
  BY <1>4 DEF vars
<1> QED BY <1>1, <1>2, <1>3, <1>4 DEF Next, Call

LEMMA ProtectedStep ==
  TypeOK /\ TypeOK' /\ ProtectedKept /\ ChoicesHold /\ [Next]_vars
    => ProtectedKept' /\ ChoicesHold'
<1> SUFFICES ASSUME TypeOK, TypeOK', ProtectedKept, ChoicesHold, [Next]_vars
             PROVE  ProtectedKept' /\ ChoicesHold'
  OBVIOUS
<1> DEFINE Stable(m) == /\ attr'[m].grounding = attr[m].grounding
                        /\ attr'[m].tier = 0 <=> attr[m].tier = 0
           Keeps(u) == /\ pc'[u] = pc[u]
                       /\ local'[u].victim = local[u].victim
                       /\ local'[u].block = local[u].block
<1>1. \A m \in 1..Len(attr) : Stable(m)
  BY ProtectionStable
<1>2. /\ pruned \subseteq 1..Len(attr)
      /\ \A t \in Threads : /\ pc[t] = "mark" => local[t].victim \in 1..Len(attr)
                            /\ local[t].block \subseteq 1..Len(attr)
  <2>1. Len(attr) \in Nat /\ \A t \in Threads : local[t] \in LocalType
    BY DEF TypeOK
  <2>2. \A t \in Threads : /\ local[t].victim \in 0..Len(attr)
                           /\ local[t].block \subseteq 1..Len(attr)
    BY <2>1 DEF LocalType
  <2> QED BY <2>1, <2>2 DEF TypeOK
\* A choice that a thread keeps stays a good one.
<1>3. ASSUME NEW u \in Threads, Keeps(u), summarizer => summarizer'
      PROVE  /\ pc'[u] = "mark" => ~Protected(local[u].victim)'
             /\ pc'[u] = "llm" => /\ summarizer'
                                  /\ \A m \in local'[u].block : attr'[m].tier # 0
  <2>1. CASE pc[u] = "mark"
    <3>1. local[u].victim \in 1..Len(attr) /\ ~Protected(local[u].victim)
      BY <1>2, <2>1 DEF ChoicesHold
    <3> QED BY <1>1, <1>3, <2>1, <3>1 DEF Protected
  <2>2. CASE pc[u] = "llm"
    <3>1. summarizer /\ \A m \in local[u].block : attr[m].tier # 0
      BY <2>2 DEF ChoicesHold
    <3> QED BY <1>1, <1>2, <1>3, <2>2, <3>1
  <2> QED BY <1>3, <2>1, <2>2
<1>4. ASSUME NEW t \in Threads, \A u \in Threads \ {t} : Keeps(u), summarizer => summarizer',
             pc'[t] \notin {"mark", "llm"} \/ Keeps(t)
      PROVE  ChoicesHold'
  BY <1>3, <1>4 DEF ChoicesHold
<1>5. ASSUME summarizer => summarizer',
             \A m \in pruned' \ pruned :
               attr'[m].tier # 0 /\ (attr'[m].grounding => summarizer')
      PROVE  ProtectedKept'
  <2>1. \A m \in pruned : attr'[m].tier # 0 /\ (attr'[m].grounding => summarizer')
    BY <1>1, <1>2, <1>5 DEF ProtectedKept
  <2> QED BY <1>5, <2>1 DEF ProtectedKept
<1>6. ASSUME NEW t \in Threads, PickVictim(t)
      PROVE  ProtectedKept' /\ ChoicesHold'
  <2>1. PICK v \in Candidates : local' = [local EXCEPT ![t].victim = v]
    BY <1>6 DEF PickVictim
  <2>2. v \in 1..Len(attr) /\ ~Protected(v)
    BY <2>1 DEF Candidates, Active, TypeOK
  <2>3. attr' = attr /\ pruned' = pruned /\ summarizer' = summarizer
    BY <1>6 DEF PickVictim
  <2>4. local'[t].victim = v /\ pc'[t] = "mark"
    BY <1>6, <2>1 DEF PickVictim, Goto, TypeOK, LocalType
  <2>5. \A u \in Threads \ {t} : Keeps(u)
    BY <1>6, <2>1 DEF PickVictim, Goto, TypeOK
  <2>6. \A u \in Threads : pc'[u] = "mark" => ~Protected(local[u].victim)'
    <3>1. ~Protected(local[t].victim)'
      BY <2>2, <2>3, <2>4 DEF Protected
    <3> QED BY <1>3, <2>3, <2>5, <3>1
  <2>7. \A u \in Threads : pc'[u] = "llm" =>
          summarizer' /\ \A m \in local'[u].block : attr'[m].tier # 0
    BY <1>3, <2>3, <2>4, <2>5
  <2>8. ChoicesHold'
    BY <2>6, <2>7 DEF ChoicesHold
  <2> QED BY <2>3, <2>8 DEF ProtectedKept
<1>7. ASSUME NEW t \in Threads, MarkVictim(t)
      PROVE  ProtectedKept' /\ ChoicesHold'
  <2>1. /\ attr' = attr /\ summarizer' = summarizer
        /\ pruned' = pruned \cup {local[t].victim}
    BY <1>7 DEF MarkVictim
  <2>2. ~Protected(local[t].victim)
    BY <1>7 DEF MarkVictim, Goto, ChoicesHold
  <2>3. ProtectedKept'
    <3>1. \A m \in pruned' \ pruned :
            attr'[m].tier # 0 /\ (attr'[m].grounding => summarizer')
      BY <2>1, <2>2 DEF Protected
    <3> QED BY <1>5, <2>1, <3>1
  <2>4. pc'[t] = "loop" /\ \A u \in Threads \ {t} : Keeps(u)
    BY <1>7 DEF MarkVictim, Goto, TypeOK
  <2> QED BY <1>4, <2>1, <2>3, <2>4
<1>8. ASSUME NEW t \in Threads, NEW force \in BOOLEAN, CollectTier3(t, force)
      PROVE  ProtectedKept' /\ ChoicesHold'
  <2>1. /\ attr' = attr /\ pruned' = pruned /\ summarizer /\ summarizer'
        /\ pc'[t] = "llm"
    BY <1>8 DEF CollectTier3, Goto, TypeOK
  <2>2. local'[t].block = Tier3
    BY <1>8 DEF CollectTier3, TypeOK, LocalType
  <2>3. \A m \in Tier3 : attr[m].tier # 0
    BY DEF Tier3, Active, TypeOK, Kind, Tiers
  <2>4. \A u \in Threads \ {t} : Keeps(u)
    BY <1>8 DEF CollectTier3, Goto, TypeOK
  <2>5. \A u \in Threads : pc'[u] = "mark" => ~Protected(local[u].victim)'
    BY <1>3, <2>1, <2>4
  <2>6. \A u \in Threads : pc'[u] = "llm" =>
          summarizer' /\ \A m \in local'[u].block : attr'[m].tier # 0
    BY <1>3, <2>1, <2>2, <2>3, <2>4
  <2> QED BY <2>1, <2>5, <2>6 DEF ChoicesHold, ProtectedKept
<1>9. ASSUME NEW t \in Threads, AnswerLLM(t)
      PROVE  ProtectedKept' /\ ChoicesHold'
  <2>1. /\ attr' = attr /\ summarizer' = summarizer
        /\ pc[t] = "llm" /\ pc'[t] = "idle"
        /\ \A u \in Threads \ {t} : Keeps(u)
    BY <1>9 DEF AnswerLLM, ApplySummary, ApplyNoSignal, Goto, TypeOK
  <2>2. summarizer /\ \A m \in local[t].block : attr[m].tier # 0
    BY <2>1 DEF ChoicesHold
  <2>3. pruned' \ pruned \subseteq local[t].block
    BY <1>9 DEF AnswerLLM, ApplySummary, ApplyNoSignal
  <2>4. ProtectedKept'
    <3>1. \A m \in pruned' \ pruned :
            attr'[m].tier # 0 /\ (attr'[m].grounding => summarizer')
      BY <2>1, <2>2, <2>3
    <3> QED BY <1>5, <2>1, <3>1
  <2> QED BY <1>4, <2>1, <2>4
<1>10. ASSUME NEW t \in Threads,
              \/ ListActive(t) \/ SumTokens(t) \/ WriteStats(t) \/ CheckBudget(t) \/ TestLoop(t)
              \/ GiveUp(t) \/ Tally(t) \/ Clear(t) \/ Reset(t) \/ SetSummarizer(t)
              \/ \E k \in Kinds : Add(t, k)
              \/ \E m, p \in messages : Propagate(t, m, p)
       PROVE  ProtectedKept' /\ ChoicesHold'
  <2>0. summarizer => summarizer'
    BY <1>10 DEF ListActive, SumTokens, WriteStats, CheckBudget, TestLoop, GiveUp, Tally, Clear,
                 Reset, SetSummarizer, Add, Propagate
  <2>1. pruned' = pruned
    BY <1>10 DEF ListActive, SumTokens, WriteStats, CheckBudget, TestLoop, GiveUp, Tally, Clear,
                 Reset, SetSummarizer, Add, Propagate
  <2>2. \A u \in Threads \ {t} : Keeps(u)
    BY <1>10 DEF ListActive, SumTokens, WriteStats, CheckBudget, TestLoop, GiveUp, Tally, Clear,
                 Reset, SetSummarizer, Add, Propagate, Goto, TypeOK
  <2>3. pc'[t] \notin {"mark", "llm"} \/ Keeps(t)
    BY <1>10 DEF ListActive, SumTokens, WriteStats, CheckBudget, TestLoop, GiveUp, Tally, Clear,
                 Reset, SetSummarizer, Add, Propagate, Goto, TypeOK
  <2>4. ProtectedKept'
    <3>1. pruned' \ pruned = {}
      BY <2>1
    <3> QED BY <1>5, <2>0, <3>1
  <2> QED BY <1>4, <2>0, <2>2, <2>3, <2>4
<1>11. CASE UNCHANGED vars
  BY <1>11 DEF vars, ProtectedKept, ChoicesHold, Protected
<1> QED
  BY <1>6, <1>7, <1>8, <1>9, <1>10, <1>11 DEF Next, Advance, Call

\* No TIER_0 message is ever pruned, and no grounding message by the manager.
THEOREM ProtectedNeverPruned == Spec => []ProtectedKept
<1>1. Init => ProtectedKept /\ ChoicesHold
  BY DEF Init, ProtectedKept, ChoicesHold
<1> QED BY <1>1, ProtectedStep, TypeCorrect, PTL DEF Spec

-----------------------------------------------------------------------------
(* The token budget                                                        *)

\* What a step may do to the window without bringing it over budget: no new
\* active message, no longer message, no candidate that was not one.
LEMMA BudgetAntitone ==
  ASSUME TypeOK, TypeOK', Len(attr') = Len(attr), Active' \subseteq Active,
         \A m \in 1..Len(attr) : /\ attr'[m].tokens = attr[m].tokens
                                 /\ Protected(m)' <=> Protected(m),
         OverBudget', Candidates' # {}
  PROVE  OverBudget /\ Candidates # {}
<1>1. TokenSlots' \in SUBSET TokenSlots
  BY DEF TokenSlots
<1>2. ActiveTokens' <= ActiveTokens
  BY <1>1, SlotsFinite, FS_Subset DEF ActiveTokens
<1>3. ActiveTokens' \in Nat
  <2>1. IsFiniteSet(TokenSlots')
    BY <1>1, SlotsFinite, FS_Subset
  <2> QED BY <2>1, FS_CardinalityType DEF ActiveTokens
<1>4. OverBudget
  BY <1>2, <1>3, SlotsFinite, ContextAssumption DEF OverBudget
<1>5. Active \subseteq 1..Len(attr)
  BY DEF Active, TypeOK
<1>6. Candidates' \subseteq Candidates
  BY <1>5 DEF Candidates
<1> QED BY <1>4, <1>6

LEMMA BudgetStep ==
  TypeOK /\ TypeOK' /\ BudgetRestored /\ [Next]_vars => BudgetRestored'
<1> SUFFICES ASSUME TypeOK, TypeOK', BudgetRestored, [Next]_vars,
                    \A u \in Threads : pc'[u] \notin Settling,
                    OverBudget', Candidates' # {}
             PROVE  FALSE
  BY DEF BudgetRestored
<1>1. ASSUME UNCHANGED <<attr, messages, pruned>>
      PROVE  OverBudget /\ Candidates # {} /\ \E u \in Threads : pc[u] \in Settling
  <2>1. OverBudget /\ Candidates # {}
    BY <1>1 DEF OverBudget, ActiveTokens, TokenSlots, Candidates, Active, Protected
  <2> QED BY <2>1 DEF BudgetRestored
<1>2. ASSUME Len(attr') = Len(attr), Active' \subseteq Active, pc' = pc \/ \E t \in Threads :
               \E from \in {"idle", "llm"}, to \in {"llm", "idle", "recount"} : Goto(t, from, to),
             \A m \in 1..Len(attr) : /\ attr'[m].tokens = attr[m].tokens
                                     /\ Protected(m)' <=> Protected(m)
      PROVE  FALSE
  <2>1. OverBudget /\ Candidates # {}
    BY <1>2, BudgetAntitone
  <2>2. PICK u \in Threads : pc[u] \in Settling
    BY <2>1 DEF BudgetRestored
  <2>3. pc'[u] = pc[u]
    BY <1>2, <2>2 DEF Goto, Settling, TypeOK
  <2> QED BY <2>2, <2>3
<1>3. ASSUME NEW t \in Threads, NEW k \in Kinds, Add(t, k) PROVE FALSE
  BY <1>3 DEF Add, Goto, Settling, TypeOK
<1>4. ASSUME NEW t \in Threads, MarkVictim(t) PROVE FALSE
  BY <1>4 DEF MarkVictim, Goto, Settling, TypeOK
<1>5. ASSUME NEW t \in Threads, ListActive(t) \/ SumTokens(t) \/ WriteStats(t) \/ CheckBudget(t) \/ TestLoop(t)
                \/ PickVictim(t) \/ GiveUp(t) \/ Tally(t)
      PROVE  FALSE
  <2>1. OverBudget /\ Candidates # {} /\ \E u \in Threads : pc[u] \in Settling
    BY <1>1, <1>5 DEF ListActive, SumTokens, WriteStats, CheckBudget, TestLoop, PickVictim, GiveUp, Tally
  <2>2. \/ Goto(t, "count", "sum") \/ Goto(t, "recount", "resum")
        \/ Goto(t, "sum", "publish") \/ Goto(t, "resum", "republish")
        \/ Goto(t, "publish", "check") \/ Goto(t, "republish", "idle")
        \/ Goto(t, "check", "loop") \/ Goto(t, "loop", "pick")
        \/ Goto(t, "pick", "mark") \/ Goto(t, "tally", "recount")
    BY <1>5, <2>1, ContextAssumption
       DEF ListActive, SumTokens, WriteStats, CheckBudget, TestLoop, PickVictim, GiveUp, Tally,
           Candidates, Active
  <2>3. \A u \in Threads : pc[u] \in Settling => pc'[u] \in Settling
    BY <2>2 DEF Goto, Settling, TypeOK
  <2> QED BY <2>1, <2>3
<1>6. ASSUME NEW t \in Threads, NEW m \in messages, NEW p \in messages, Propagate(t, m, p)
      PROVE  FALSE
  <2>1. \A n \in 1..Len(attr) : /\ attr'[n].tokens = attr[n].tokens
                                /\ Protected(n)' <=> Protected(n)
    BY <1>6, PropagateAttr DEF Protected
  <2>2. Len(attr') = Len(attr) /\ Active' = Active /\ pc' = pc
    BY <1>6, PropagateAttr DEF Propagate, Active
  <2> QED BY <1>2, <2>1, <2>2
<1>7. ASSUME NEW t \in Threads, Clear(t) \/ Reset(t) PROVE FALSE
  <2>1. Candidates' = {}
    BY <1>7 DEF Clear, Reset, Candidates, Active
  <2> QED BY <2>1
<1>8. ASSUME NEW t \in Threads,
             AnswerLLM(t) \/ \E force \in BOOLEAN : CollectTier3(t, force)
      PROVE  FALSE
  <2>1. attr' = attr /\ messages' = messages /\ pruned \subseteq pruned'
    BY <1>8 DEF AnswerLLM, CollectTier3, ApplySummary, ApplyNoSignal
  <2>2. Goto(t, "idle", "llm") \/ Goto(t, "llm", "idle")
    BY <1>8 DEF AnswerLLM, CollectTier3, ApplySummary, ApplyNoSignal
  <2>3. Active' \subseteq Active
    BY <2>1 DEF Active
  <2>4. \A m \in 1..Len(attr) : Protected(m)' <=> Protected(m)
    BY <2>1 DEF Protected
  <2> QED BY <1>2, <2>1, <2>2, <2>3, <2>4
<1>9. CASE UNCHANGED vars
  BY <1>1, <1>9 DEF vars
<1>10. ASSUME NEW t \in Threads, SetSummarizer(t) PROVE FALSE
  <2>1. UNCHANGED <<attr, messages, pruned, pc>>
    BY <1>10 DEF SetSummarizer
  <2> QED BY <1>1, <2>1
<1> QED
  BY <1>3, <1>4, <1>5, <1>6, <1>7, <1>8, <1>9, <1>10 DEF Next, Advance, Call

\* However the threads interleave, a thread that leaves the window over budget
\* with something left to prune is followed by one that still has to look.
THEOREM BudgetAlwaysRestored == Spec => []BudgetRestored
<1>1. Init => BudgetRestored
  BY DEF Init, BudgetRestored, Candidates, Active
<1> QED BY <1>1, BudgetStep, TypeCorrect, PTL DEF Spec

-----------------------------------------------------------------------------
(* One caller at a time: the atomic window                                 *)

\* What the loop has still to prune.
Rest == Plain!Victims(attr, Active)

\* As long as calls do not overlap, one thread at most is in a method, and what
\* it found out is still true when it acts on it.
Solo ==
  ~overlapped =>
    /\ \A t, u \in Threads : pc[t] # "idle" /\ pc[u] # "idle" => t = u
    /\ \A t \in Threads :
         /\ pc[t] \in {"pick", "mark"} => OverBudget
         /\ pc[t] = "mark" => IsVictim(local[t].victim)
         /\ pc[t] = "llm" => summarizer /\ local[t].block = Tier3

-----------------------------------------------------------------------------
(* The closed form and the loop                                            *)

LEMMA SameCardinality ==
  \A S : Plain!Cardinality(S) = Cardinality(S) /\ Atomic!Cardinality(S) = Cardinality(S)
BY DEF Cardinality, Plain!Cardinality, Atomic!Cardinality

LEMMA KindNumbers ==
  ASSUME NEW k \in Kind PROVE k.importance \in Int /\ k.tokens \in Int
<1>1. k.importance \in 0..100 /\ k.tokens \in 0..MaxContent
  BY DEF Kind
<1> QED BY <1>1, ContextAssumption

LEMMA ListNumbers ==
  \A list \in Seq(Kind) : \A n \in 1..Len(list) :
    list[n].importance \in Int /\ list[n].tokens \in Int /\ n \in Int
<1>1. \A list \in Seq(Kind) : \A n \in 1..Len(list) : list[n] \in Kind /\ n \in Int
  OBVIOUS
<1> QED BY ONLY <1>1, KindNumbers

LEMMA SameVictims ==
  ASSUME NEW list, NEW active,
         \A n \in active : list[n].importance \in Int /\ list[n].tokens \in Int /\ n \in Int
  PROVE  Atomic!Victims(list, active) = Plain!Victims(list, active)
<1>1. \A set : Atomic!Weight(list, set) = Plain!Weight(list, set)
  BY SameCardinality DEF Atomic!Weight, Plain!Weight
<1>2. Atomic!Expendable(list, active) = Plain!Expendable(list, active)
  BY DEF Atomic!Expendable, Plain!Expendable
<1>3. \A v \in active : Atomic!Sooner(list, active, v) = Plain!Sooner(list, active, v)
  <2>1. ASSUME NEW m \in active, NEW n \in active
        PROVE  Atomic!Precedes(list, m, n) <=> Plain!Precedes(list, m, n)
    <3>1. /\ list[m].importance \in Int /\ list[n].importance \in Int
          /\ list[m].tokens \in Int /\ list[n].tokens \in Int
      OBVIOUS
    <3> DEFINE a == list[m].importance * 1000 + list[m].tokens
               b == list[n].importance * 1000 + list[n].tokens
    <3>2. a \in Int /\ b \in Int
      BY <3>1
    <3>3. Atomic!Precedes(list, m, n) <=> a > b \/ (a = b /\ m < n)
      BY DEF Atomic!Precedes
    <3>4. Plain!Precedes(list, m, n) <=> a > b \/ (a = b /\ m < n)
      BY DEF Plain!Precedes
    <3> QED BY <3>3, <3>4
  <2>2. Atomic!Expendable(list, active) \subseteq active
    BY DEF Atomic!Expendable
  <2> QED BY <1>2, <2>1, <2>2 DEF Atomic!Sooner, Plain!Sooner
<1> QED
  BY <1>1, <1>2, <1>3 DEF Atomic!Victims, Plain!Victims, Atomic!Expendable

LEMMA SameCandidates == Plain!Expendable(attr, Active) = Candidates
BY DEF Plain!Expendable, Candidates, Protected

LEMMA SameWeight == Plain!Weight(attr, Active) = ActiveTokens
BY SameCardinality DEF Plain!Weight, ActiveTokens, TokenSlots

\* A window that fits loses nothing.
LEMMA NoneWhenFits == ASSUME TypeOK, ~OverBudget PROVE Rest = {}
<1> SUFFICES ASSUME NEW v \in Rest PROVE FALSE
  OBVIOUS
<1> DEFINE S == Active \ Plain!Sooner(attr, Active, v)
           slots == {s \in (1..Len(attr)) \X (1..MaxContent) :
                       s[1] \in S /\ s[2] <= attr[s[1]].tokens}
<1>1. Cardinality(slots) > Usable
  BY SameCardinality DEF Rest, Plain!Victims, Plain!Weight
<1>2. slots \subseteq TokenSlots
  BY DEF TokenSlots
<1>3. Cardinality(slots) \in Nat /\ Cardinality(slots) <= ActiveTokens
  BY <1>2, SlotsFinite, FS_Subset, FS_CardinalityType DEF ActiveTokens
<1> HIDE DEF slots
<1> QED BY <1>1, <1>3, SlotsFinite, ContextAssumption DEF OverBudget

LEMMA NoneWhenProtected == ASSUME Candidates = {} PROVE Rest = {}
BY SameCandidates DEF Rest, Plain!Victims

\* The first victim of the closed form is the one the loop chooses, and the
\* others are the victims of the window without it.
LEMMA VictimSplits ==
  ASSUME TypeOK, NEW v, IsVictim(v), OverBudget
  PROVE  Rest = {v} \cup Plain!Victims(attr, Active \ {v})
<1> DEFINE A == Active
           B == Active \ {v}
<1>1. v \in A /\ v \in Candidates /\ A \subseteq 1..Len(attr)
  BY DEF IsVictim, Candidates, Active, TypeOK
<1>2. \A n \in A : attr[n].importance \in Int /\ attr[n].tokens \in Int /\ n \in Int
  BY <1>1, ListNumbers DEF TypeOK
<1>3. \A n \in Candidates \ {v} : Plain!Precedes(attr, v, n) /\ ~Plain!Precedes(attr, n, v)
  <2> SUFFICES ASSUME NEW n \in Candidates, n # v
               PROVE  Plain!Precedes(attr, v, n) /\ ~Plain!Precedes(attr, n, v)
    OBVIOUS
  <2>1. n \in A
    BY DEF Candidates
  <2>2. Score(v) < Score(n) \/ (Score(v) = Score(n) /\ v <= n)
    BY DEF IsVictim
  <2> DEFINE wv == attr[v].importance * 1000 + attr[v].tokens
             wn == attr[n].importance * 1000 + attr[n].tokens
  <2>3. wv \in Int /\ wn \in Int /\ Score(v) = 0 - wv /\ Score(n) = 0 - wn
    <3>1. \A x, y \in Int : x * 1000 + y \in Int /\ -(1000 * x) - y = 0 - (x * 1000 + y)
      OBVIOUS
    <3>2. /\ attr[v].importance \in Int /\ attr[v].tokens \in Int
          /\ attr[n].importance \in Int /\ attr[n].tokens \in Int
      BY <1>1, <1>2, <2>1
    <3>3. wv \in Int /\ wn \in Int
      BY <3>1, <3>2
    <3>4. /\ -(1000 * attr[v].importance) - attr[v].tokens = 0 - wv
          /\ -(1000 * attr[n].importance) - attr[n].tokens = 0 - wn
      BY <3>1, <3>2
    <3> QED BY <3>3, <3>4 DEF Score
  <2>4. Plain!Precedes(attr, v, n) <=> wv > wn \/ (wv = wn /\ v < n)
    BY DEF Plain!Precedes
  <2>5. Plain!Precedes(attr, n, v) <=> wn > wv \/ (wn = wv /\ n < v)
    BY DEF Plain!Precedes
  <2> HIDE DEF wv, wn
  <2> QED BY <1>1, <1>2, <2>1, <2>2, <2>3, <2>4, <2>5
<1>4. ~Plain!Precedes(attr, v, v)
  BY <1>1, <1>2 DEF Plain!Precedes
<1>5. Plain!Expendable(attr, A) = Candidates
  BY SameCandidates
<1>6. Plain!Expendable(attr, B) = Candidates \ {v}
  BY <1>5 DEF Plain!Expendable
<1>7. Plain!Sooner(attr, A, v) = {}
  BY <1>3, <1>4, <1>5 DEF Plain!Sooner
<1>8. \A n \in Candidates \ {v} :
        A \ Plain!Sooner(attr, A, n) = B \ Plain!Sooner(attr, B, n)
  BY <1>1, <1>3, <1>5, <1>6 DEF Plain!Sooner
<1>9. Plain!Weight(attr, A \ {}) > Usable
  <2>1. A \ {} = Active
    OBVIOUS
  <2> QED BY <2>1, SameWeight DEF OverBudget
<1>10. v \in Rest
  BY <1>1, <1>5, <1>7, <1>9 DEF Rest, Plain!Victims
<1>11. \A n \in Candidates \ {v} : n \in Rest <=> n \in Plain!Victims(attr, B)
  BY <1>5, <1>6, <1>8 DEF Rest, Plain!Victims
<1>12. Rest \subseteq Candidates /\ Plain!Victims(attr, B) \subseteq Candidates \ {v}
  BY <1>5, <1>6 DEF Rest, Plain!Victims
<1> QED BY <1>10, <1>11, <1>12

-----------------------------------------------------------------------------
(* One caller at a time                                                    *)

LEMMA OthersIdle ==
  ASSUME TypeOK, NEW t \in Threads, Advance(t) \/ Call(t), Observe(t), ~overlapped'
  PROVE  /\ ~overlapped
         /\ \A u \in Threads \ {t} : pc[u] = "idle" /\ pc'[u] = "idle"
<1>1. ~overlapped /\ \A u \in Threads \ {t} : pc[u] = "idle"
  BY DEF Observe, TypeOK
<1>2. pc' = pc \/ \E to \in Locations : pc' = [pc EXCEPT ![t] = to]
  BY DEF Advance, Call, Add, ListActive, SumTokens, WriteStats, CheckBudget, TestLoop, PickVictim, GiveUp,
         MarkVictim, Tally, Propagate, Clear, Reset, SetSummarizer, CollectTier3, AnswerLLM,
         ApplySummary, ApplyNoSignal, Goto, Locations
<1>3. \A u \in Threads \ {t} : pc'[u] = pc[u]
  BY <1>2 DEF TypeOK
<1> QED BY <1>1, <1>3

LEMMA SoloStep == TypeOK /\ Solo /\ [Next]_vars => Solo'
<1> SUFFICES ASSUME TypeOK, Solo, [Next]_vars, ~overlapped'
             PROVE  /\ \A t, u \in Threads : pc'[t] # "idle" /\ pc'[u] # "idle" => t = u
                    /\ \A t \in Threads :
                         /\ pc'[t] \in {"pick", "mark"} => OverBudget'
                         /\ pc'[t] = "mark" => IsVictim(local[t].victim)'
                         /\ pc'[t] = "llm" => summarizer' /\ local'[t].block = Tier3'
  BY DEF Solo
<1>1. CASE UNCHANGED vars
  <2>1. UNCHANGED <<attr, messages, pruned, summarized, pc, local, summarizer, overlapped>>
    BY <1>1 DEF vars
  <2>2. Active' = Active /\ OverBudget' = OverBudget /\ Tier3' = Tier3 /\ Candidates' = Candidates
    BY <2>1 DEF Active, OverBudget, ActiveTokens, TokenSlots, Tier3, Candidates, Protected
  <2>3. \A t \in Threads : IsVictim(local[t].victim) => IsVictim(local[t].victim)'
    BY <2>1, <2>2 DEF IsVictim, Score
  <2> QED BY <2>1, <2>2, <2>3 DEF Solo
<1>2. CASE Next
  <2>1. PICK t \in Threads : (Advance(t) \/ Call(t)) /\ Observe(t)
    BY <1>2 DEF Next
  <2>2. ~overlapped /\ \A u \in Threads \ {t} : pc[u] = "idle" /\ pc'[u] = "idle"
    BY <2>1, OthersIdle
  <2> DEFINE Good == /\ pc'[t] \in {"pick", "mark"} => OverBudget'
                     /\ pc'[t] = "mark" => IsVictim(local[t].victim)'
                     /\ pc'[t] = "llm" => summarizer' /\ local'[t].block = Tier3'
  <2>3. ASSUME pc'[t] \notin {"pick", "mark", "llm"} PROVE Good
    BY <2>3
  <2>4. ASSUME PickVictim(t) PROVE Good
    <3>1. pc[t] = "pick" /\ pc'[t] = "mark" /\ OverBudget
      BY <2>2, <2>4 DEF PickVictim, Goto, TypeOK, Solo
    <3>2. PICK v \in Candidates : IsVictim(v) /\ local' = [local EXCEPT ![t].victim = v]
      BY <2>4 DEF PickVictim
    <3>3. local'[t].victim = v
      BY <3>2 DEF TypeOK, LocalType
    <3>4. OverBudget'
      BY <2>4, <3>1 DEF PickVictim, OverBudget, ActiveTokens, TokenSlots, Active
    <3>5. IsVictim(v)'
      BY <2>4, <3>2 DEF PickVictim, IsVictim, Candidates, Active, Protected, Score
    <3>6. IsVictim(local[t].victim)'
      BY <3>3, <3>5
    <3> QED BY <3>1, <3>4, <3>6
  <2>5. ASSUME TestLoop(t) PROVE Good
    <3>1. pc'[t] = "tally" \/ (pc'[t] = "pick" /\ OverBudget)
      BY <2>5 DEF TestLoop, Goto, TypeOK
    <3>2. OverBudget' <=> OverBudget
      BY <2>5 DEF TestLoop, OverBudget, ActiveTokens, TokenSlots, Active
    <3> QED BY <3>1, <3>2
  <2>6. ASSUME NEW force \in BOOLEAN, CollectTier3(t, force) PROVE Good
    <3>1. pc'[t] = "llm" /\ summarizer' /\ local'[t].block = Tier3
      BY <2>6 DEF CollectTier3, Goto, TypeOK, LocalType
    <3>2. Tier3' = Tier3
      BY <2>6 DEF CollectTier3, Tier3, Active
    <3> QED BY <3>1, <3>2
  <2>7. ASSUME Advance(t) /\ ~PickVictim(t) /\ ~TestLoop(t) PROVE Good
    <3>1. pc'[t] \notin {"pick", "mark", "llm"}
      BY <2>7 DEF Advance, ListActive, SumTokens, WriteStats, CheckBudget, GiveUp, MarkVictim, Tally,
                  AnswerLLM, ApplySummary, ApplyNoSignal, Goto, TypeOK
    <3> QED BY <2>3, <3>1
  <2>8. ASSUME Call(t) /\ ~\E force \in BOOLEAN : CollectTier3(t, force) PROVE Good
    <3>1. pc'[t] \notin {"pick", "mark", "llm"}
      BY <2>8 DEF Call, Add, Propagate, Clear, Reset, SetSummarizer, Goto, TypeOK
    <3> QED BY <2>3, <3>1
  <2>9. Good
    BY <2>1, <2>4, <2>5, <2>6, <2>7, <2>8
  <2> HIDE DEF Good
  <2>10. \A u \in Threads \ {t} : pc'[u] \notin {"pick", "mark", "llm"}
    BY <2>2
  <2>11. \A a, b \in Threads : pc'[a] # "idle" /\ pc'[b] # "idle" => a = b
    BY <2>2
  <2> QED BY <2>9, <2>10, <2>11 DEF Good
<1> QED BY <1>1, <1>2

-----------------------------------------------------------------------------
(* Every step is one of AtomicWindow                                       *)

\* While only t is in a method, it decides what counts as pruned.
LEMMA SettledAlone ==
  ASSUME NEW t \in Threads, \A u \in Threads \ {t} : pc[u] = "idle"
  PROVE  Settled = IF pc[t] \in Settling THEN pruned \cup Rest ELSE pruned
BY DEF Settled, Settling, Rest

LEMMA RestUnchanged == ASSUME UNCHANGED <<attr, messages, pruned>> PROVE Rest' = Rest
BY DEF Rest, Plain!Victims, Plain!Weight, Plain!Sooner, Plain!Expendable, Plain!Precedes, Active

LEMMA RestPrimed == Rest' = Plain!Victims(attr', Active')
BY DEF Rest, Plain!Victims, Plain!Weight, Plain!Sooner, Plain!Expendable, Plain!Precedes, Active

\* The steps inside a method, but for a mark and a summary, are not seen.
LEMMA QuietStep ==
  ASSUME TypeOK, Solo, NEW t \in Threads, ~overlapped,
         \A u \in Threads \ {t} : pc[u] = "idle" /\ pc'[u] = "idle",
         \/ ListActive(t) \/ SumTokens(t) \/ WriteStats(t) \/ CheckBudget(t) \/ TestLoop(t)
         \/ PickVictim(t) \/ GiveUp(t) \/ Tally(t)
         \/ \E force \in BOOLEAN : CollectTier3(t, force)
  PROVE  Settled' = Settled /\ UNCHANGED <<attr, messages, summarized, summarizer>>
<1>1. UNCHANGED <<attr, messages, pruned, summarized, summarizer>>
  BY DEF ListActive, SumTokens, WriteStats, CheckBudget, TestLoop, PickVictim, GiveUp, Tally, CollectTier3
<1>2. Rest' = Rest
  BY <1>1, RestUnchanged
<1>3. Settled = IF pc[t] \in Settling THEN pruned \cup Rest ELSE pruned
  BY SettledAlone
<1>4. Settled' = IF pc'[t] \in Settling THEN pruned' \cup Rest' ELSE pruned'
  BY RestPrimed DEF Settled, Settling
<1>5. (pc[t] \in Settling <=> pc'[t] \in Settling) \/ Rest = {}
  <2>1. CASE ListActive(t) \/ SumTokens(t) \/ WriteStats(t) \/ PickVictim(t) \/ Tally(t)
    BY <2>1 DEF ListActive, SumTokens, WriteStats, PickVictim, Tally, Goto, TypeOK, Settling
  <2>2. CASE \E force \in BOOLEAN : CollectTier3(t, force)
    BY <2>2 DEF CollectTier3, Goto, TypeOK, Settling
  <2>3. CASE CheckBudget(t)
    BY <2>3, NoneWhenFits DEF CheckBudget, Goto, TypeOK, Settling
  <2>4. CASE TestLoop(t)
    <3>1. messages = {} => Candidates = {}
      BY DEF Candidates, Active
    <3> QED BY <2>4, <3>1, NoneWhenFits, NoneWhenProtected DEF TestLoop, Goto, TypeOK, Settling
  <2>5. CASE GiveUp(t)
    BY <2>5, NoneWhenProtected DEF GiveUp
  <2> QED BY <2>1, <2>2, <2>3, <2>4, <2>5
<1> QED BY <1>1, <1>2, <1>3, <1>4, <1>5

\* A mark settles what counted as pruned already.
LEMMA MarkStep ==
  ASSUME TypeOK, Solo, NEW t \in Threads, ~overlapped, MarkVictim(t),
         \A u \in Threads \ {t} : pc[u] = "idle" /\ pc'[u] = "idle"
  PROVE  Settled' = Settled /\ UNCHANGED <<attr, messages, summarized, summarizer>>
<1> DEFINE v == local[t].victim
<1>1. pc[t] = "mark" /\ pc'[t] = "loop" /\ pruned' = pruned \cup {v}
      /\ UNCHANGED <<attr, messages, summarized, summarizer>>
  BY DEF MarkVictim, Goto, TypeOK
<1>2. IsVictim(v) /\ OverBudget
  BY <1>1 DEF Solo
<1>3. Rest = {v} \cup Plain!Victims(attr, Active \ {v})
  BY <1>2, VictimSplits
<1>4. Active' = Active \ {v}
  BY <1>1 DEF Active
<1>5. Rest' = Plain!Victims(attr, Active \ {v})
  BY <1>1, <1>4, RestPrimed
<1>6. Settled = pruned \cup Rest
  BY <1>1, SettledAlone DEF Settling
<1>7. Settled' = pruned' \cup Rest'
  BY <1>1, RestPrimed DEF Settled, Settling
<1> QED BY <1>1, <1>3, <1>5, <1>6, <1>7

\* The append of an add is the add.
LEMMA AddStep ==
  ASSUME TypeOK, TypeOK', NEW t \in Threads, NEW k \in Kinds, Add(t, k),
         \A u \in Threads \ {t} : pc[u] = "idle" /\ pc'[u] = "idle"
  PROVE  Atomic!Add(k)
<1>1. pc[t] = "idle" /\ pc'[t] = "count" /\ pruned' = pruned
  BY DEF Add, Goto, TypeOK
<1>2. Settled = pruned
  BY <1>1, SettledAlone DEF Settling
<1>3. Settled' = pruned \cup Plain!Victims(attr', Active')
  BY <1>1 DEF Settled, Settling
<1>4. Active' = messages' \ Settled
  BY <1>1, <1>2 DEF Active
<1>5. \A n \in Active' : attr'[n].importance \in Int /\ attr'[n].tokens \in Int /\ n \in Int
  BY ListNumbers DEF Active, TypeOK
<1>6. Atomic!Victims(attr', Active') = Plain!Victims(attr', Active')
  BY <1>5, SameVictims
<1> QED BY <1>2, <1>3, <1>4, <1>6 DEF Add, Atomic!Add

\* An answer of the model is a pass of the summarizer.
LEMMA SummaryStep ==
  ASSUME TypeOK, Solo, NEW t \in Threads, ~overlapped, AnswerLLM(t),
         \A u \in Threads \ {t} : pc[u] = "idle" /\ pc'[u] = "idle"
  PROVE  Atomic!Summarize
<1>1. pc[t] = "llm" /\ pc'[t] = "idle"
  BY DEF AnswerLLM, ApplySummary, ApplyNoSignal, Goto, TypeOK
<1>2. Settled = pruned
  BY <1>1, SettledAlone DEF Settling
<1>3. Settled' = pruned'
  BY <1>1 DEF Settled, Settling
<1>4. Atomic!Block = local[t].block /\ summarizer
  BY <1>1, <1>2 DEF Solo, Atomic!Block, Tier3, Active
<1> QED
  BY <1>2, <1>3, <1>4 DEF AnswerLLM, ApplySummary, ApplyNoSignal, IsFirst, Atomic!Summarize

LEMMA AtomicStep == TypeOK /\ TypeOK' /\ Solo /\ [Next]_vars => [Atomic!Next]_(Atomic!vars)
<1> SUFFICES ASSUME TypeOK, TypeOK', Solo, [Next]_vars PROVE [Atomic!Next]_(Atomic!vars)
  OBVIOUS
<1>1. CASE overlapped'
  BY <1>1 DEF Atomic!Next, Atomic!Overlap
<1>2. CASE UNCHANGED vars
  BY <1>2, RestUnchanged, RestPrimed DEF vars, Atomic!vars, Settled, Rest
<1>3. CASE Next /\ ~overlapped'
  <2>1. PICK t \in Threads : (Advance(t) \/ Call(t)) /\ Observe(t)
    BY <1>3 DEF Next
  <2>2. ~overlapped /\ \A u \in Threads \ {t} : pc[u] = "idle" /\ pc'[u] = "idle"
    BY <1>3, <2>1, OthersIdle
  <2>3. overlapped' = overlapped
    BY <1>3, <2>2 DEF TypeOK
  <2>4. ASSUME \/ ListActive(t) \/ SumTokens(t) \/ WriteStats(t) \/ CheckBudget(t) \/ TestLoop(t)
               \/ PickVictim(t) \/ GiveUp(t) \/ Tally(t)
               \/ \E force \in BOOLEAN : CollectTier3(t, force)
        PROVE  UNCHANGED Atomic!vars
    BY <2>2, <2>3, <2>4, QuietStep DEF Atomic!vars
  <2>5. ASSUME MarkVictim(t) PROVE UNCHANGED Atomic!vars
    BY <2>2, <2>3, <2>5, MarkStep DEF Atomic!vars
  <2>6. ASSUME NEW k \in Kinds, Add(t, k) PROVE Atomic!Next
    BY <2>2, <2>3, <2>6, AddStep DEF Atomic!Next, Atomic!Alone
  <2>7. ASSUME AnswerLLM(t) PROVE Atomic!Next
    BY <2>2, <2>3, <2>7, SummaryStep DEF Atomic!Next, Atomic!Alone
  <2>8. ASSUME pc[t] = "idle", pc'[t] \in {"idle", "recount"}, pruned' = pruned
        PROVE  Settled' = Settled
    BY <2>2, <2>8 DEF Settled, Settling
  <2>9. ASSUME NEW m \in messages, NEW p \in messages, Propagate(t, m, p) PROVE Atomic!Next
    <3>1. Settled' = Settled
      BY <2>8, <2>9 DEF Propagate
    <3> QED BY <2>3, <2>9, <3>1 DEF Propagate, Atomic!Propagate, Atomic!Next, Atomic!Alone
  <2>10. ASSUME Clear(t) \/ Reset(t) PROVE Atomic!Next
    <3>1. Settled' = Settled
      BY <2>8, <2>10 DEF Clear, Reset, Goto, TypeOK
    <3> QED BY <2>3, <2>10, <3>1 DEF Clear, Reset, Atomic!Empty, Atomic!Next, Atomic!Alone
  <2>11. ASSUME SetSummarizer(t) PROVE Atomic!Next
    <3>1. Settled' = Settled
      BY <2>8, <2>11 DEF SetSummarizer
    <3> QED BY <2>3, <2>11, <3>1 DEF SetSummarizer, Atomic!SetSummarizer, Atomic!Next, Atomic!Alone
  <2> QED
    BY <2>1, <2>4, <2>5, <2>6, <2>7, <2>9, <2>10, <2>11 DEF Advance, Call
<1> QED BY <1>1, <1>2, <1>3

LEMMA AtomicInit == Init => Atomic!Init /\ Solo
<1> SUFFICES ASSUME Init PROVE Atomic!Init /\ Solo
  OBVIOUS
<1>1. \A t \in Threads : pc[t] = "idle"
  BY DEF Init
<1>2. Settled = {}
  BY <1>1 DEF Init, Settled, Settling
<1>3. Atomic!Init
  BY <1>2 DEF Init, Atomic!Init
<1>4. Solo
  BY <1>1 DEF Solo
<1> QED BY <1>3, <1>4

\* The manager does what the atomic specification says, for any budget and any
\* messages, as long as calls to it do not overlap (_prune_if_needed, add).
THEOREM AtomicWindowImplemented == Spec => ImplementsAtomicWindow
<1>1. Init => Atomic!Init /\ Solo
  BY AtomicInit
<1>2. TypeOK /\ Solo /\ [Next]_vars => Solo'
  BY SoloStep
<1>3. TypeOK /\ TypeOK' /\ Solo /\ [Next]_vars => [Atomic!Next]_(Atomic!vars)
  BY AtomicStep
<1> QED BY <1>1, <1>2, <1>3, TypeCorrect, PTL DEF Spec, ImplementsAtomicWindow, Atomic!Spec

-----------------------------------------------------------------------------
(* The statistics                                                          *)

\* The statistics are those of the list.
Right ==
  /\ stats.current = ActiveTokens
  /\ stats.count = Cardinality(messages)
  /\ stats.active = Cardinality(Active)

\* A thread that is alone in the manager stores what it has just measured, and
\* every way back to a caller leads through such a store.
Measured ==
  ~overlapped /\ ~summarizer =>
    /\ (\A t \in Threads : pc[t] = "idle") => Right
    /\ \A t \in Threads :
         /\ pc[t] = "check" => Right
         /\ pc[t] \in {"sum", "resum", "publish", "republish"} =>
              local[t].active = Cardinality(Active)
         /\ pc[t] \in {"publish", "republish"} => local[t].tokens = ActiveTokens

\* The numbers depend on the list, the marks and the messages' sizes alone.
LEMMA SameList ==
  ASSUME UNCHANGED <<attr, messages, pruned>>
  PROVE  /\ ActiveTokens' = ActiveTokens
         /\ Cardinality(Active)' = Cardinality(Active)
         /\ Cardinality(messages)' = Cardinality(messages)
BY DEF ActiveTokens, TokenSlots, Active

LEMMA MeasuredStep == TypeOK /\ Solo /\ Measured /\ [Next]_vars => Measured'
<1>. SUFFICES ASSUME TypeOK, Solo, Measured, [Next]_vars, ~overlapped', ~summarizer'
              PROVE  /\ (\A u \in Threads : pc'[u] = "idle") => Right'
                     /\ \A u \in Threads :
                          /\ pc'[u] = "check" => Right'
                          /\ pc'[u] \in {"sum", "resum", "publish", "republish"} =>
                               local'[u].active = Cardinality(Active)'
                          /\ pc'[u] \in {"publish", "republish"} =>
                               local'[u].tokens = ActiveTokens'
  BY DEF Measured
<1>1. CASE UNCHANGED vars
  BY <1>1, SameList DEF vars, Measured, Right
<1>2. CASE Next
  <2>1. PICK t \in Threads : (Advance(t) \/ Call(t)) /\ Observe(t)
    BY <1>2 DEF Next
  <2>2. ~overlapped /\ \A u \in Threads \ {t} : pc[u] = "idle" /\ pc'[u] = "idle"
    BY <2>1, OthersIdle
  <2>3. ~summarizer
    BY <2>1 DEF Advance, Call, Add, ListActive, SumTokens, WriteStats, CheckBudget, TestLoop, PickVictim,
       GiveUp, MarkVictim, Tally, Propagate, Clear, Reset, SetSummarizer, CollectTier3, AnswerLLM,
       ApplySummary, ApplyNoSignal
  <2>. DEFINE Good == /\ pc'[t] \in {"idle", "check"} => Right'
                      /\ pc'[t] \in {"sum", "resum", "publish", "republish"} =>
                           local'[t].active = Cardinality(Active)'
                      /\ pc'[t] \in {"publish", "republish"} =>
                           local'[t].tokens = ActiveTokens'
  <2>4. pc[t] \in {"idle", "check"} => Right
    BY <2>2, <2>3 DEF Measured
  <2>5. ASSUME pc'[t] \notin {"idle", "check", "sum", "resum", "publish", "republish"}
        PROVE  Good
    BY <2>5
  <2>6. ASSUME ListActive(t) PROVE Good
    <3>1. pc'[t] \in {"sum", "resum"} /\ UNCHANGED <<attr, messages, pruned>>
      BY <2>6 DEF ListActive, Goto, TypeOK
    <3>2. local'[t].active = Cardinality(Active)
      BY <2>6 DEF ListActive, TypeOK, LocalType
    <3>. QED BY <3>1, <3>2, SameList
  <2>16. ASSUME SumTokens(t) PROVE Good
    <3>1. /\ pc[t] \in {"sum", "resum"} /\ pc'[t] \in {"publish", "republish"}
          /\ UNCHANGED <<attr, messages, pruned>>
      BY <2>16 DEF SumTokens, Goto, TypeOK
    <3>2. local'[t].tokens = ActiveTokens /\ local'[t].active = local[t].active
      BY <2>16 DEF SumTokens, TypeOK, LocalType
    <3>3. local[t].active = Cardinality(Active)
      BY <2>2, <2>3, <3>1 DEF Measured
    <3>. QED BY <3>1, <3>2, <3>3, SameList
  <2>7. ASSUME WriteStats(t) PROVE Good
    <3>1. /\ pc[t] \in {"publish", "republish"} /\ pc'[t] \in {"check", "idle"}
          /\ UNCHANGED <<attr, messages, pruned>>
      BY <2>7 DEF WriteStats, Goto, TypeOK
    <3>2. local[t].tokens = ActiveTokens /\ local[t].active = Cardinality(Active)
      BY <2>2, <2>3, <3>1 DEF Measured
    <3>3. /\ stats'.current = local[t].tokens /\ stats'.active = local[t].active
          /\ stats'.count = Cardinality(messages)
      BY <2>7 DEF WriteStats, TypeOK
    <3>. QED BY <3>1, <3>2, <3>3, SameList DEF Right
  <2>8. ASSUME CheckBudget(t) PROVE Good
    <3>1. pc[t] = "check" /\ pc'[t] \in {"loop", "idle"}
      BY <2>8 DEF CheckBudget, Goto, TypeOK
    <3>2. UNCHANGED <<attr, messages, pruned, stats>> BY <2>8 DEF CheckBudget
    <3>. QED BY <2>4, <3>1, <3>2, SameList DEF Right
  <2>9. ASSUME \/ TestLoop(t) \/ PickVictim(t) \/ GiveUp(t) \/ MarkVictim(t) \/ Tally(t)
               \/ Clear(t) \/ \E k \in Kinds : Add(t, k)
        PROVE  Good
    <3>1. pc'[t] \in {"pick", "tally", "mark", "loop", "recount", "count"}
      BY <2>9 DEF TestLoop, PickVictim, GiveUp, MarkVictim, Tally, Clear, Add, Goto, TypeOK
    <3>. QED BY <2>5, <3>1
  <2>10. ~AnswerLLM(t)
    BY <2>2, <2>3 DEF AnswerLLM, ApplySummary, ApplyNoSignal, Goto, Solo
  <2>11. ASSUME NEW m \in messages, NEW p \in messages, Propagate(t, m, p) PROVE Good
    <3>1. Len(attr') = Len(attr) /\ \A n \in 1..Len(attr) : attr'[n].tokens = attr[n].tokens
      BY <2>11, PropagateAttr
    <3>2. messages' = messages /\ Active' = Active /\ stats' = stats /\ pc' = pc /\ pc[t] = "idle"
      BY <2>11 DEF Propagate, Active
    <3>3. TokenSlots' = TokenSlots BY <3>1, <3>2 DEF TokenSlots
    <3>. QED BY <2>4, <3>2, <3>3 DEF Right, ActiveTokens
  <2>12. ASSUME Reset(t) PROVE Good
    <3>1. messages' = {} /\ stats' = NoStats /\ pc'[t] = "idle"
      BY <2>12 DEF Reset
    <3>2. Active' = {} BY <3>1 DEF Active
    <3>3. TokenSlots' = {} BY <3>2 DEF TokenSlots
    <3>4. Cardinality({}) = 0 BY FS_EmptySet
    <3>. QED BY <3>1, <3>2, <3>3, <3>4 DEF Right, ActiveTokens, NoStats
  <2>13. ~SetSummarizer(t) /\ ~\E force \in BOOLEAN : CollectTier3(t, force)
    BY <2>3 DEF SetSummarizer, CollectTier3
  <2>14. Good
    BY <2>1, <2>6, <2>7, <2>8, <2>9, <2>10, <2>11, <2>12, <2>13, <2>16 DEF Advance, Call
  <2>. HIDE DEF Good
  <2>15. \A u \in Threads : u = t \/ pc'[u] = "idle" BY <2>2
  <2>. QED BY <2>14, <2>15 DEF Good
<1>. QED BY <1>1, <1>2

\* As long as calls do not overlap and no summarizer is registered, the
\* statistics a caller reads are those of the list (get_stats).
THEOREM StatsAlwaysExact == Spec => []StatsExact
<1>1. Init => Measured /\ Solo
  <2>. SUFFICES ASSUME Init PROVE Measured /\ Solo OBVIOUS
  <2>1. Active = {} /\ TokenSlots = {} BY DEF Init, Active, TokenSlots
  <2>2. Right BY <2>1, FS_EmptySet DEF Init, Right, ActiveTokens, NoStats
  <2>. QED BY <2>2, AtomicInit DEF Init, Measured
<1>2. TypeOK /\ Solo /\ [Next]_vars => Solo'
  BY SoloStep
<1>3. TypeOK /\ Solo /\ Measured /\ [Next]_vars => Measured'
  BY MeasuredStep
<1>4. Measured => StatsExact
  BY DEF Measured, Right, StatsExact, Orderly
<1>. QED BY <1>1, <1>2, <1>3, <1>4, TypeCorrect, PTL DEF Spec

-----------------------------------------------------------------------------
(* The summaries                                                           *)

\* Of the messages that a pass has chosen, those that have a summary by now
\* received it while the pass was waiting for the model.
SummarizedLate == \A t \in Threads : local[t].block \cap summarized \subseteq late

LEMMA LateStep == TypeOK /\ SummarizedLate /\ [Next]_vars => SummarizedLate'
<1> SUFFICES ASSUME TypeOK, SummarizedLate, [Next]_vars PROVE SummarizedLate'
  OBVIOUS
<1>1. CASE UNCHANGED vars
  BY <1>1 DEF vars, SummarizedLate
<1>2. ASSUME NEW t \in Threads, Advance(t) \/ Call(t), Observe(t) PROVE SummarizedLate'
  <2>1. late \subseteq late'
    BY <1>2 DEF Observe
  <2>2. \A u \in Threads \ {t} : local'[u] = local[u]
    BY <1>2 DEF Advance, Call, Add, ListActive, SumTokens, WriteStats, CheckBudget, TestLoop,
       PickVictim, GiveUp, MarkVictim, Tally, Propagate, Clear, Reset, SetSummarizer,
       CollectTier3, AnswerLLM, ApplySummary, ApplyNoSignal, TypeOK
  <2>3. \A u \in Threads \ {t} : local'[u].block \cap summarized' \subseteq late'
    BY <1>2, <2>1, <2>2 DEF Observe, SummarizedLate
  <2>4. local'[t].block \cap summarized' \subseteq late'
    <3>1. CASE \E force \in BOOLEAN : CollectTier3(t, force)
      <4>1. local'[t].block = Tier3 /\ summarized' = summarized
        BY <3>1 DEF CollectTier3, TypeOK, LocalType
      <4> QED BY <4>1 DEF Tier3
    <3>2. CASE AnswerLLM(t)
      <4>1. local'[t].block = {}
        BY <3>2 DEF AnswerLLM, ApplySummary, ApplyNoSignal, TypeOK, LocalType
      <4> QED BY <4>1
    <3>3. CASE ~AnswerLLM(t) /\ ~\E force \in BOOLEAN : CollectTier3(t, force)
      <4>1. summarized' = summarized
        BY <1>2, <3>3 DEF Advance, Call, Add, ListActive, SumTokens, WriteStats, CheckBudget,
           TestLoop, PickVictim, GiveUp, MarkVictim, Tally, Propagate, Clear, Reset, SetSummarizer
      <4>2. local'[t].block = local[t].block
        <5>1. CASE local' = local
          BY <5>1
        <5>2. CASE ListActive(t) \/ SumTokens(t) \/ WriteStats(t)
          BY <5>2 DEF ListActive, SumTokens, WriteStats, TypeOK, LocalType
        <5>3. CASE PickVictim(t) \/ MarkVictim(t) \/ Tally(t)
          BY <5>3 DEF PickVictim, MarkVictim, Tally, TypeOK, LocalType
        <5> QED
          BY <1>2, <3>3, <5>1, <5>2, <5>3 DEF Advance, Call, Add, CheckBudget, TestLoop, GiveUp,
             Propagate, Clear, Reset, SetSummarizer
      <4> QED BY <2>1, <4>1, <4>2 DEF SummarizedLate
    <3> QED BY <3>1, <3>2, <3>3
  <2> QED BY <2>3, <2>4 DEF SummarizedLate
<1> QED BY <1>1, <1>2 DEF Next

LEMMA SummaryStays ==
  ASSUME TypeOK, SummarizedLate, [Next]_vars,
         NEW m \in ((pruned' \ pruned) \cap summarized') \ late'
  PROVE  \E t \in Threads : pc[t] = "mark" /\ local[t].victim = m /\ pc'[t] # "mark"
<1>1. PICK t \in Threads : (Advance(t) \/ Call(t)) /\ Observe(t)
  BY DEF Next, vars
<1>2. late \subseteq late'
  BY <1>1 DEF Observe
<1>3. CASE MarkVictim(t)
  BY <1>3 DEF MarkVictim, Goto, TypeOK
<1>4. ~AnswerLLM(t)
  <2>1. SUFFICES ASSUME AnswerLLM(t) PROVE FALSE
    OBVIOUS
  <2>2. m \in local[t].block /\ m \in summarized
    BY <2>1 DEF AnswerLLM, ApplySummary, ApplyNoSignal
  <2> QED BY <1>2, <2>2 DEF SummarizedLate
<1>5. CASE ~MarkVictim(t)
  <2>1. pruned' = pruned
    BY <1>1, <1>4, <1>5 DEF Advance, Call, Add, ListActive, SumTokens, WriteStats, CheckBudget,
       TestLoop, PickVictim, GiveUp, Tally, Propagate, Clear, Reset, SetSummarizer, CollectTier3
  <2> QED BY <2>1
<1> QED BY <1>3, <1>5

\* For any number of threads and overlapping passes, a summary leaves the
\* window only as a victim of _prune_if_needed or with a pass of the summarizer
\* that had chosen its message before the summary was stored.
THEOREM SummariesKept == Spec => SummaryKept
<1>1. Init => SummarizedLate
  BY DEF Init, SummarizedLate
<1>2. TypeOK /\ SummarizedLate /\ [Next]_vars =>
        [\A m \in ((pruned' \ pruned) \cap summarized') \ late' :
           \E t \in Threads : pc[t] = "mark" /\ local[t].victim = m /\ pc'[t] # "mark"]_vars
  BY SummaryStays
<1> QED BY <1>1, <1>2, LateStep, TypeCorrect, PTL DEF Spec, SummaryKept

=============================================================================
