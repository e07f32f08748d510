------------------------ MODULE ToolExecutorProofs ------------------------
(***************************************************************************)
(* Proofs about execute_goal: what the shared stop event can and cannot do *)
(* to a call, for any number of calls and of callers at a time.            *)
(***************************************************************************)
EXTENDS ToolExecutor, FiniteSetTheorems, TLAPS

\* Two calls in progress at a time are both noted.
Noted == \A c, d \in InProgress : c # d => c \in overlapped

\* The event stays clear for a call that runs by itself until its own timeout.
Clear ==
  \A c \in Calls \ overlapped : phase[c] \in {"start", "join", "signal"} => ~stop

\* A worker starts after its call and ends before the call is done.
Workers ==
  /\ \A c \in alive : phase[c] \notin {"unborn", "start"} /\ outcome[c] # "done"
  /\ \A c \in Calls : outcome[c] = "done" => phase[c] = "returned"

\* A worker is cancelled after the timeout of its call, never before.
Cancelled ==
  \A c \in Calls \ overlapped :
    holder[c] = "partial" => phase[c] \in {"grace", "returned"} /\ outcome[c] # "done"

IInv == TypeOK /\ Noted /\ Clear /\ Workers /\ Cancelled

-----------------------------------------------------------------------------
\* Two members make a cardinality of more than one.
LEMMA TwoMembers ==
  ASSUME NEW S, IsFiniteSet(S), NEW c \in S, NEW d \in S, c # d
  PROVE  Cardinality(S) > 1
<1>1. Cardinality({c}) = 1 /\ IsFiniteSet({c}) BY FS_Singleton
<1>2. Cardinality({c} \cup {d}) = 2 BY <1>1, FS_AddElement
<1>3. Cardinality({c} \cup {d}) <= Cardinality(S) /\ Cardinality(S) \in Nat
  BY FS_Subset, FS_CardinalityType
<1>. QED BY <1>2, <1>3

LEMMA InitIInv == Init => IInv
<1>. SUFFICES ASSUME Init PROVE IInv OBVIOUS
<1>. USE DEF Init
<1>1. TypeOK BY DEF TypeOK, Goals, NoGoal
<1>2. Noted BY DEF Noted, InProgress
<1>3. Clear /\ Workers /\ Cancelled BY DEF Clear, Workers, Cancelled
<1>. QED BY <1>1, <1>2, <1>3 DEF IInv

\* What the history notes in a step.
LEMMA ObserveNoted == ASSUME TypeOK', Observe PROVE Noted' /\ overlapped \subseteq overlapped'
<1>1. IsFiniteSet(InProgress')
  BY ExecutorAssumption, FS_Subset DEF InProgress
<1>2. ASSUME NEW c \in InProgress', NEW d \in InProgress', c # d PROVE c \in overlapped'
  BY <1>1, <1>2, TwoMembers DEF Observe
<1>. QED BY <1>2 DEF Noted, Observe

\* A step of one call: it alone moves, and the history may note it.
LEMMA ActionTypes ==
  ASSUME TypeOK, Observe, NEW c \in Calls,
         (\E g \in Goals : Begin(c, g)) \/ BadGoal(c) \/ Caller(c) \/ Worker(c)
  PROVE  TypeOK'
<1>. USE DEF TypeOK, Enter, Return
<1>a. overlapped' \subseteq Calls BY DEF Observe, InProgress
<1>1. ASSUME NEW g \in Goals, Begin(c, g) PROVE TypeOK' BY <1>a, <1>1 DEF Begin
<1>2. CASE BadGoal(c) BY <1>a, <1>2 DEF BadGoal
<1>3. CASE StartWorker(c) BY <1>a, <1>3 DEF StartWorker
<1>4. CASE Finish(c) BY <1>a, <1>4 DEF Finish
<1>5. CASE WindowElapses(c) BY <1>a, <1>5 DEF WindowElapses
<1>6. CASE SignalStop(c) BY <1>a, <1>6 DEF SignalStop
<1>7. CASE GraceOver(c) BY <1>a, <1>7 DEF GraceOver
<1>8. CASE Worker(c) BY <1>a, <1>8 DEF Worker, ToolEnds, ToolExits, ToolCancelled, EndWorker
<1>. QED BY <1>1, <1>2, <1>3, <1>4, <1>5, <1>6, <1>7, <1>8 DEF Caller

\* The event is set by a call in its signal phase only; one beside it is noted.
LEMMA ActionClear ==
  ASSUME IInv, TypeOK', Noted', overlapped \subseteq overlapped', NEW c \in Calls,
         (\E g \in Goals : Begin(c, g)) \/ BadGoal(c) \/ Caller(c) \/ Worker(c)
  PROVE  Clear'
<1>. USE DEF IInv, TypeOK, Enter, Return, Clear
<1>1. ASSUME NEW g \in Goals, Begin(c, g) PROVE Clear' BY <1>1 DEF Begin
<1>2. CASE SignalStop(c)
  <2>. SUFFICES ASSUME NEW d \in Calls \ overlapped', phase'[d] \in {"start", "join", "signal"}
                PROVE  FALSE
    OBVIOUS
  <2>1. phase'[c] = "grace" BY <1>2 DEF SignalStop
  <2>2. c \in InProgress' /\ d \in InProgress' /\ c # d BY <2>1 DEF InProgress
  <2>. QED BY <2>2 DEF Noted
<1>3. CASE StartWorker(c) BY <1>3 DEF StartWorker
<1>4. CASE WindowElapses(c) BY <1>4 DEF WindowElapses
<1>5. CASE BadGoal(c) \/ Finish(c) \/ GraceOver(c) BY <1>5 DEF BadGoal, Finish, GraceOver
<1>6. CASE Worker(c) BY <1>6 DEF Worker, ToolEnds, ToolExits, ToolCancelled, EndWorker
<1>. QED BY <1>1, <1>2, <1>3, <1>4, <1>5, <1>6 DEF Caller

LEMMA ActionCancelled ==
  ASSUME IInv, TypeOK', overlapped \subseteq overlapped', NEW c \in Calls,
         (\E g \in Goals : Begin(c, g)) \/ BadGoal(c) \/ Caller(c) \/ Worker(c)
  PROVE  Workers' /\ Cancelled'
<1>. USE DEF IInv, TypeOK, Enter, Return, Workers, Cancelled
<1>1. ASSUME NEW g \in Goals, Begin(c, g) PROVE Workers' /\ Cancelled' BY <1>1 DEF Begin
<1>2. CASE BadGoal(c) BY <1>2 DEF BadGoal
<1>3. CASE StartWorker(c) BY <1>3 DEF StartWorker
<1>4. CASE Finish(c) BY <1>4 DEF Finish
<1>5. CASE WindowElapses(c) BY <1>5 DEF WindowElapses
<1>6. CASE SignalStop(c) BY <1>6 DEF SignalStop
<1>7. CASE GraceOver(c) BY <1>7 DEF GraceOver
<1>8. CASE ToolEnds(c) \/ ToolExits(c) BY <1>8 DEF ToolEnds, ToolExits, EndWorker
<1>9. CASE ToolCancelled(c) BY <1>9 DEF ToolCancelled, EndWorker, Clear
<1>. QED BY <1>1, <1>2, <1>3, <1>4, <1>5, <1>6, <1>7, <1>8, <1>9 DEF Caller, Worker

LEMMA NextIInv == IInv /\ [Next]_vars => IInv'
<1>1. ASSUME IInv, Next PROVE IInv'
  <2>1. PICK c \in Calls : (\E g \in Goals : Begin(c, g)) \/ BadGoal(c) \/ Caller(c) \/ Worker(c)
    BY <1>1 DEF Next
  <2>2. Observe BY <1>1 DEF Next
  <2>3. TypeOK' BY <1>1, <2>1, <2>2, ActionTypes DEF IInv
  <2>4. Noted' /\ overlapped \subseteq overlapped' BY <2>2, <2>3, ObserveNoted
  <2>5. Clear' BY <1>1, <2>1, <2>3, <2>4, ActionClear
  <2>6. Workers' /\ Cancelled' BY <1>1, <2>1, <2>3, <2>4, ActionCancelled
  <2>. QED BY <2>3, <2>4, <2>5, <2>6 DEF IInv
<1>2. ASSUME IInv, UNCHANGED vars PROVE IInv'
  BY <1>2 DEF IInv, vars, TypeOK, Noted, InProgress, Clear, Workers, Cancelled
<1>. QED BY <1>1, <1>2

LEMMA SpecIInv == Spec => []IInv
BY InitIInv, NextIInv, PTL DEF Spec

\* The types of the calls and of the state of the module that they share.
THEOREM TypeCorrect == Spec => []TypeOK
BY SpecIInv, PTL DEF IInv

\* A call that runs by itself never reports what a cancelled tool left behind
\* as its result, whatever calls came before and whichever of their workers
\* are still running.
THEOREM PartialNeverDone == Spec => []PartialNotDone
<1>1. IInv => PartialNotDone BY DEF IInv, Cancelled, PartialNotDone
<1>. QED BY <1>1, SpecIInv, PTL

\* A call that runs by itself does not find the event set before its timeout.
THEOREM EventFresh == Spec => []FreshEvent
<1>1. IInv => FreshEvent BY DEF IInv, Clear, FreshEvent
<1>. QED BY <1>1, SpecIInv, PTL

=============================================================================
