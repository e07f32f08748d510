---------------------------- MODULE LibraryProofs ----------------------------
(***************************************************************************)
(* Proofs about the two shared tables of the HTTP server, the timestamps   *)
(* of the rate limiter and the clients of the WebSocket streamer, and      *)
(* about the parts of MCLibrary.                                           *)
(***************************************************************************)
EXTENDS MCLibrary, WsStreamer, Sequences, FiniteSetTheorems, WellFoundedInduction, TLAPS

\* A set of naturals that is not empty has a least member.
LEMMA LeastMember ==
  ASSUME NEW S, S \subseteq Nat, S # {}
  PROVE  \E m \in S : \A n \in S : m <= n
<1> DEFINE R == {ss \in Nat \X Nat : ss[1] < ss[2]}
<1>1. IsWellFoundedOn(R, Nat)
  BY NatLessThanWellFounded DEF OpToRel
<1>2. PICK m \in S : \A n \in S : ~(<<n, m>> \in R)
  BY <1>1, WFMin
<1>3. ASSUME NEW n \in S PROVE m <= n
  <2>1. n < m => <<n, m>> \in R
    OBVIOUS
  <2>2. ~(<<n, m>> \in R) /\ n \in Nat /\ m \in Nat
    BY <1>2
  <2> HIDE DEF R
  <2> QED BY <2>1, <2>2
<1> QED BY <1>3

-----------------------------------------------------------------------------
(* The sliding window of RateLimiter, for any limit, window and clock      *)

\* The log holds requests that passed, and all those still in the window.
LogExact ==
  /\ log \subseteq Passed
  /\ \A r \in Passed : stamp[r] <= clock /\ (stamp[r] > clock - Window => r \in log)

\* The requests that passed in the window that ends at time t.
InWindow(t) == {s \in Passed : stamp[s] <= t /\ stamp[s] > t - Window}

Refused == {r \in Requests : verdict[r] = "refused"}

\* The window is never more than full, and it was full whenever it refused;
\* Retry-After reaches the second in which one of its requests leaves it.
RefusedFull ==
  /\ Cardinality(InWindow(clock)) <= Max
  /\ \A r \in Refused : stamp[r] <= clock /\ Cardinality(InWindow(stamp[r])) = Max

LeavesInTime(r) ==
  \E p \in InWindow(stamp[r]) : stamp[p] + Window < stamp[r] + (retry[r] + 1) * Second

LimiterInv ==
  /\ LimiterTypeOK /\ LogExact /\ WindowHonoured /\ RefusedFull
  /\ Max > 0 => \A r \in Refused : LeavesInTime(r)

LEMMA RecentExact == ASSUME LimiterTypeOK, LogExact PROVE Recent = InWindow(clock)
<1>1. \A r \in log : r \in Passed /\ stamp[r] <= clock
  BY DEF LogExact
<1>2. \A r \in Passed : stamp[r] > clock - Window => r \in log
  BY DEF LogExact
<1> QED BY <1>1, <1>2 DEF Recent, InWindow

LEMMA WindowFinite == ASSUME LimiterTypeOK, NEW t PROVE IsFiniteSet(InWindow(t))
<1>1. InWindow(t) \subseteq Requests
  BY DEF InWindow, Passed
<1> QED BY <1>1, FS_Subset, LimiterAssumption

LEMMA WholeSeconds ==
  ASSUME NEW x \in Nat, NEW s \in Nat \ {0}
  PROVE  x < (AtLeastOne(x \div s) + 1) * s /\ AtLeastOne(x \div s) \in Nat
<1>1. x \div s \in Nat /\ x < (x \div s + 1) * s
  OBVIOUS
<1>2. ASSUME NEW a \in Nat, NEW b \in Nat, a <= b PROVE (a + 1) * s <= (b + 1) * s
  BY <1>2
<1>3. /\ AtLeastOne(x \div s) \in Nat /\ x \div s <= AtLeastOne(x \div s)
      /\ (AtLeastOne(x \div s) + 1) * s \in Nat /\ (x \div s + 1) * s \in Nat
  BY <1>1 DEF AtLeastOne
<1>4. (x \div s + 1) * s <= (AtLeastOne(x \div s) + 1) * s
  BY <1>1, <1>2, <1>3
<1> QED BY <1>1, <1>3, <1>4

\* Retry-After reaches the second in which the oldest of the window leaves it.
LEMMA RetryReaches ==
  ASSUME LimiterTypeOK, LogExact
  PROVE  /\ RetryAfter \in Nat
         /\ Recent # {} =>
              \E p \in Recent : stamp[p] + Window < clock + (RetryAfter + 1) * Second
<1>1. Recent = InWindow(clock) /\ clock \in Nat /\ Window \in Nat \ {0} /\ Second \in Nat \ {0}
  BY RecentExact, LimiterAssumption DEF LimiterTypeOK
<1>2. /\ Oldest \in Nat /\ Oldest > clock - Window
      /\ Recent # {} => \E p \in Recent : stamp[p] = Oldest
  <2>1. CASE Recent = {}
    BY <1>1, <2>1 DEF Oldest
  <2>2. CASE Recent # {}
    <3> DEFINE Stamps == {stamp[r] : r \in Recent}
    <3>1. Stamps \subseteq Nat /\ Stamps # {}
      BY <2>2 DEF Recent, LimiterTypeOK
    <3>2. PICK t \in Stamps : \A n \in Stamps : t <= n
      BY <3>1, LeastMember
    <3>3. Oldest \in Stamps
      BY <2>2, <3>2 DEF Oldest
    <3>4. PICK p \in Recent : stamp[p] = Oldest
      BY <3>3
    <3> QED BY <1>1, <3>1, <3>3, <3>4 DEF InWindow
  <2> QED BY <2>1, <2>2
<1> DEFINE x == Oldest + Window - clock
<1>3. x \in Nat /\ RetryAfter = AtLeastOne(x \div Second)
  BY <1>1, <1>2 DEF RetryAfter
<1>4. RetryAfter \in Nat /\ x < (RetryAfter + 1) * Second
  BY <1>1, <1>3, WholeSeconds
<1>5. (RetryAfter + 1) * Second \in Nat
  BY <1>1, <1>4
<1>6. ASSUME NEW p \in Recent, stamp[p] = Oldest
      PROVE  stamp[p] + Window < clock + (RetryAfter + 1) * Second
  BY <1>1, <1>2, <1>4, <1>5, <1>6
<1> QED BY <1>2, <1>4, <1>6

LEMMA LimiterInitInv == LimiterInit => LimiterInv
<1> SUFFICES ASSUME LimiterInit PROVE LimiterInv
  OBVIOUS
<1>1. Passed = {} /\ Refused = {}
  BY DEF LimiterInit, Passed, Refused
<1>2. InWindow(clock) = {} /\ Cardinality({}) = 0
  BY <1>1, FS_EmptySet DEF InWindow
<1>3. LimiterTypeOK
  BY LimiterAssumption DEF LimiterInit, LimiterTypeOK
<1> QED
  BY <1>1, <1>2, <1>3, LimiterAssumption
  DEF LimiterInit, LimiterInv, LogExact, WindowHonoured, RefusedFull

LEMMA AdmitStep == ASSUME LimiterInv, NEW r \in Requests, Admit(r) PROVE LimiterInv'
<1>1. /\ verdict[r] = "none" /\ Cardinality(Recent) < Max
      /\ verdict' = [verdict EXCEPT ![r] = "passed"]
      /\ stamp' = [stamp EXCEPT ![r] = clock]
      /\ clock' = clock /\ retry' = retry /\ log' = Recent \cup {r}
  BY DEF Admit, Decide
<1>2. LimiterTypeOK'
  BY <1>1 DEF LimiterInv, LimiterTypeOK, Recent
<1>3. /\ Passed' = Passed \cup {r} /\ r \notin Passed /\ stamp'[r] = clock
      /\ \A s \in Passed : stamp'[s] = stamp[s] /\ stamp[s] \in Nat
  BY <1>1 DEF LimiterInv, LimiterTypeOK, Passed
<1>4. Recent = InWindow(clock) /\ clock \in Nat /\ Window \in Nat \ {0} /\ Max \in Nat
  BY RecentExact, LimiterAssumption DEF LimiterInv, LimiterTypeOK
<1>5. LogExact'
  <2>1. log' \subseteq Passed'
    BY <1>1, <1>3, <1>4 DEF InWindow
  <2>2. ASSUME NEW s \in Passed'
        PROVE  stamp'[s] <= clock' /\ (stamp'[s] > clock' - Window => s \in log')
    <3>1. CASE s = r
      BY <1>1, <1>3, <1>4, <3>1
    <3>2. CASE s # r
      <4>1. s \in Passed /\ stamp[s] <= clock
        BY <1>3, <3>2 DEF LimiterInv, LogExact
      <4>2. stamp[s] > clock - Window => s \in Recent
        BY <1>4, <4>1 DEF InWindow
      <4> QED BY <1>1, <1>3, <4>1, <4>2
    <3> QED BY <3>1, <3>2
  <2> QED BY <2>1, <2>2 DEF LogExact
<1>6. IsFiniteSet(Recent) /\ r \notin Recent /\ Cardinality(Recent \cup {r}) <= Max
  <2>1. IsFiniteSet(Recent)
    <3>1. Recent \subseteq Requests
      BY DEF Recent, LimiterInv, LimiterTypeOK
    <3> QED BY <3>1, FS_Subset, LimiterAssumption
  <2>2. r \notin Recent
    BY <1>3, <1>4 DEF InWindow
  <2>3. Cardinality(Recent \cup {r}) = Cardinality(Recent) + 1 /\ Cardinality(Recent) \in Nat
    BY <2>1, <2>2, FS_AddElement, FS_CardinalityType
  <2> QED BY <1>1, <1>4, <2>1, <2>2, <2>3
<1>7. ASSUME NEW q \in Passed'
      PROVE  Cardinality({s \in Passed' : stamp'[s] <= stamp'[q]
                                          /\ stamp'[s] > stamp'[q] - Window}) <= Max
  <2> DEFINE S == {s \in Passed' : stamp'[s] <= stamp'[q] /\ stamp'[s] > stamp'[q] - Window}
  <2>1. CASE stamp'[q] = clock
    <3>1. S = Recent \cup {r}
      BY <1>3, <1>4, <2>1 DEF InWindow
    <3> QED BY <1>6, <3>1
  <2>2. CASE stamp'[q] # clock
    <3>1. q \in Passed /\ stamp'[q] = stamp[q] /\ stamp[q] < clock
      BY <1>3, <1>4, <2>2 DEF LimiterInv, LogExact
    <3>2. S = {s \in Passed : stamp[s] <= stamp[q] /\ stamp[s] > stamp[q] - Window}
      BY <1>3, <1>4, <3>1
    <3> QED BY <3>1, <3>2 DEF LimiterInv, WindowHonoured
  <2> QED BY <2>1, <2>2
<1>8. WindowHonoured'
  BY <1>7 DEF WindowHonoured
<1>9. /\ Refused' = Refused
      /\ \A q \in Refused : /\ stamp'[q] = stamp[q] /\ stamp[q] \in Nat /\ stamp[q] < clock
                            /\ InWindow(stamp[q])' = InWindow(stamp[q])
  <2>1. Refused' = Refused /\ \A q \in Refused : stamp'[q] = stamp[q] /\ stamp[q] \in Nat
    BY <1>1 DEF LimiterInv, LimiterTypeOK, Refused
  <2>2. ASSUME NEW q \in Refused PROVE stamp[q] < clock
    BY <1>1, <1>4, <2>1, <2>2 DEF LimiterInv, RefusedFull
  <2>3. ASSUME NEW q \in Refused PROVE InWindow(stamp[q])' = InWindow(stamp[q])
    BY <1>3, <1>4, <2>1, <2>2, <2>3 DEF InWindow
  <2> QED BY <2>1, <2>2, <2>3
<1>10. RefusedFull'
  <2>1. InWindow(clock)' = Recent \cup {r}
    BY <1>1, <1>3, <1>4 DEF InWindow
  <2>2. ASSUME NEW q \in Refused'
        PROVE  stamp'[q] <= clock' /\ Cardinality(InWindow(stamp[q])') = Max
    BY <1>1, <1>9, <2>2 DEF LimiterInv, RefusedFull
  <2> QED BY <1>1, <1>6, <2>1, <2>2 DEF RefusedFull, InWindow
<1>11. Max > 0 => \A q \in Refused' : LeavesInTime(q)'
  <2>1. ASSUME NEW q \in Refused, LeavesInTime(q) PROVE LeavesInTime(q)'
    <3>1. PICK p \in InWindow(stamp[q]) :
             stamp[p] + Window < stamp[q] + (retry[q] + 1) * Second
      BY <2>1 DEF LeavesInTime
    <3>2. p \in Passed /\ stamp'[p] = stamp[p] /\ p \in InWindow(stamp[q])'
      BY <1>3, <1>9, <3>1 DEF InWindow
    <3> QED BY <1>1, <1>9, <3>1, <3>2 DEF LeavesInTime
  <2> QED BY <1>9, <2>1 DEF LimiterInv
<1> QED BY <1>2, <1>5, <1>8, <1>10, <1>11 DEF LimiterInv

LEMMA RefuseStep == ASSUME LimiterInv, NEW r \in Requests, Refuse(r) PROVE LimiterInv'
<1>1. /\ verdict[r] = "none" /\ Cardinality(Recent) >= Max
      /\ verdict' = [verdict EXCEPT ![r] = "refused"]
      /\ stamp' = [stamp EXCEPT ![r] = clock]
      /\ retry' = [retry EXCEPT ![r] = RetryAfter]
      /\ clock' = clock /\ log' = Recent
  BY DEF Refuse, Decide
<1>2. LimiterTypeOK'
  <2>1. RetryAfter \in Nat
    BY RetryReaches DEF LimiterInv
  <2> QED BY <1>1, <2>1 DEF LimiterInv, LimiterTypeOK, Recent
<1>3. Passed' = Passed /\ \A s \in Passed : stamp'[s] = stamp[s]
  BY <1>1 DEF LimiterInv, LimiterTypeOK, Passed
<1>4. Recent = InWindow(clock)
  BY RecentExact DEF LimiterInv
<1>5. LogExact'
  BY <1>1, <1>3, <1>4 DEF LimiterInv, LogExact, InWindow
<1>6. WindowHonoured'
  <2>1. ASSUME NEW q \in Passed
        PROVE  {s \in Passed' : stamp'[s] <= stamp'[q] /\ stamp'[s] > stamp'[q] - Window}
                 = {s \in Passed : stamp[s] <= stamp[q] /\ stamp[s] > stamp[q] - Window}
    BY <1>3
  <2> QED BY <1>3, <2>1 DEF LimiterInv, WindowHonoured
<1>7. /\ Refused' = Refused \cup {r} /\ stamp'[r] = clock /\ retry'[r] = RetryAfter
      /\ \A q \in Refused : q # r /\ stamp'[q] = stamp[q] /\ retry'[q] = retry[q]
      /\ \A q \in Refused : InWindow(stamp[q])' = InWindow(stamp[q])
      /\ InWindow(stamp[r])' = Recent
  <2>1. /\ Refused' = Refused \cup {r} /\ stamp'[r] = clock /\ retry'[r] = RetryAfter
        /\ \A q \in Refused : q # r /\ stamp'[q] = stamp[q] /\ retry'[q] = retry[q]
    BY <1>1 DEF LimiterInv, LimiterTypeOK, Refused
  <2>2. \A q \in Refused : InWindow(stamp[q])' = InWindow(stamp[q])
    BY <1>3, <2>1 DEF InWindow
  <2>3. InWindow(stamp[r])' = Recent
    BY <1>3, <1>4, <2>1 DEF InWindow
  <2> QED BY <2>1, <2>2, <2>3
<1>8. Cardinality(Recent) = Max
  BY <1>1, <1>4, FS_CardinalityType, WindowFinite, LimiterAssumption DEF LimiterInv, RefusedFull
<1>9. RefusedFull'
  <2>1. InWindow(clock)' = Recent
    BY <1>1, <1>3, <1>4 DEF InWindow
  <2>2. ASSUME NEW q \in Refused'
        PROVE  stamp'[q] <= clock' /\ Cardinality(InWindow(stamp[q])') = Max
    <3>1. CASE q = r
      BY <1>1, <1>4, <1>7, <1>8, <3>1 DEF LimiterInv, LimiterTypeOK
    <3>2. CASE q # r
      BY <1>1, <1>7, <3>2, <2>2 DEF LimiterInv, RefusedFull, Refused
    <3> QED BY <3>1, <3>2
  <2> QED BY <1>8, <2>1, <2>2, LimiterAssumption DEF RefusedFull
<1>10. Max > 0 => \A q \in Refused' : LeavesInTime(q)'
  <2> SUFFICES ASSUME Max > 0, NEW q \in Refused' PROVE LeavesInTime(q)'
    OBVIOUS
  <2>1. CASE q = r
    <3>1. Recent # {}
      BY <1>8, FS_EmptySet
    <3>2. PICK p \in Recent : stamp[p] + Window < clock + (RetryAfter + 1) * Second
      BY <3>1, RetryReaches DEF LimiterInv
    <3>3. p \in InWindow(stamp[r])' /\ stamp'[p] = stamp[p]
      BY <1>3, <1>4, <1>7, <3>2 DEF InWindow
    <3> QED BY <1>7, <2>1, <3>2, <3>3 DEF LeavesInTime
  <2>2. CASE q # r
    <3>1. q \in Refused /\ LeavesInTime(q)
      BY <1>7, <2>2 DEF LimiterInv
    <3>2. PICK p \in InWindow(stamp[q]) :
             stamp[p] + Window < stamp[q] + (retry[q] + 1) * Second
      BY <3>1 DEF LeavesInTime
    <3>3. p \in InWindow(stamp[q])' /\ stamp'[p] = stamp[p]
      BY <1>3, <1>7, <3>1, <3>2 DEF InWindow, Refused
    <3> QED BY <1>7, <3>1, <3>2, <3>3 DEF LeavesInTime
  <2> QED BY <2>1, <2>2
<1> QED BY <1>2, <1>5, <1>6, <1>9, <1>10 DEF LimiterInv

LEMMA TickStep == ASSUME LimiterInv, Tick PROVE LimiterInv'
<1> USE DEF Tick, LimiterInv
<1>1. LimiterTypeOK' /\ WindowHonoured'
  BY LimiterAssumption DEF LimiterTypeOK, WindowHonoured, Passed
<1>2. LogExact'
  BY LimiterAssumption DEF LogExact, LimiterTypeOK, Passed
<1>3. Refused' = Refused /\ \A t : InWindow(t)' = InWindow(t)
  BY DEF Refused, InWindow, Passed
<1>4. InWindow(clock)' \subseteq InWindow(clock)
  BY LimiterAssumption DEF InWindow, Passed, LogExact, LimiterTypeOK
<1>5. Cardinality(InWindow(clock)') <= Max
  BY <1>4, WindowFinite, FS_Subset, FS_CardinalityType, LimiterAssumption DEF RefusedFull
<1>6. RefusedFull'
  BY <1>3, <1>5 DEF RefusedFull, LimiterTypeOK, Refused
<1>7. Max > 0 => \A q \in Refused' : LeavesInTime(q)'
  BY <1>3 DEF LeavesInTime
<1> QED BY <1>1, <1>2, <1>6, <1>7

LEMMA LimiterNextInv == LimiterInv /\ [LimiterNext]_limiter => LimiterInv'
<1> SUFFICES ASSUME LimiterInv, [LimiterNext]_limiter PROVE LimiterInv'
  OBVIOUS
<1>1. ASSUME NEW r \in Requests, Admit(r) \/ Refuse(r) PROVE LimiterInv'
  BY <1>1, AdmitStep, RefuseStep
<1>2. CASE UNCHANGED limiter
  BY <1>2
  DEF limiter, LimiterInv, LimiterTypeOK, LogExact, WindowHonoured, RefusedFull, LeavesInTime,
      InWindow, Passed, Refused
<1> QED BY <1>1, <1>2, TickStep DEF LimiterNext

LEMMA LimiterAlways == LimiterSpec => []LimiterInv
BY LimiterInitInv, LimiterNextInv, PTL DEF LimiterSpec

\* The types of the limiter's state, the whole seconds of Retry-After included.
THEOREM LimiterTypeCorrect == LimiterSpec => []LimiterTypeOK
BY LimiterAlways, PTL DEF LimiterInv

\* No interval as long as the window has more requests of a key than the limit
\* (_check_rate_limit, _record_request), for any limit, window and arrival times.
THEOREM WindowIsHonoured == LimiterSpec => []WindowHonoured
<1>1. LimiterInv => WindowHonoured
  BY DEF LimiterInv
<1> QED BY <1>1, LimiterAlways, PTL

\* What leaves the window makes room, and room is refused to nobody: of two
\* full windows the later one has a request that the earlier one has not.
LEMMA RoomWasTaken == LimiterInv => RetrySuffices
<1> SUFFICES ASSUME LimiterInv, Max > 0, NEW r \in Refused, NEW s \in Refused,
                    stamp[s] >= stamp[r] + (retry[r] + 1) * Second
             PROVE  \E p \in Passed : stamp[r] < stamp[p] /\ stamp[p] <= stamp[s]
  BY DEF RetrySuffices, Refused
<1> DEFINE A == InWindow(stamp[r])
           B == InWindow(stamp[s])
<1>1. /\ Cardinality(A) = Max /\ Cardinality(B) = Max /\ IsFiniteSet(A) /\ Max \in Nat
  BY WindowFinite, LimiterAssumption DEF LimiterInv, RefusedFull
<1>2. PICK p \in A : stamp[p] + Window < stamp[r] + (retry[r] + 1) * Second
  BY DEF LimiterInv, LeavesInTime
<1>3. /\ (retry[r] + 1) * Second \in Nat /\ Window \in Nat
      /\ \A q \in Requests : stamp[q] \in Nat
  BY LimiterAssumption DEF LimiterInv, LimiterTypeOK, Refused
<1>4. p \notin B
  BY <1>2, <1>3 DEF InWindow, Passed, Refused
<1>5. ASSUME \A q \in Passed : ~(stamp[r] < stamp[q] /\ stamp[q] <= stamp[s])
      PROVE  FALSE
  <2>1. B \subseteq A \ {p}
    BY <1>3, <1>4, <1>5 DEF InWindow, Passed, Refused
  <2>2. Cardinality(A \ {p}) = Max - 1 /\ IsFiniteSet(A \ {p})
    BY <1>1, <1>2, FS_RemoveElement
  <2>3. Cardinality(B) <= Cardinality(A \ {p})
    BY <2>1, <2>2, FS_Subset
  <2> QED BY <1>1, <2>2, <2>3
<1> QED BY <1>5

\* Who waits a second longer than Retry-After says finds room, or another
\* request of the key took it, for any limit, window and length of a second.
THEOREM WaitingIsEnough == LimiterSpec => []RetrySuffices
BY LimiterAlways, RoomWasTaken, PTL

-----------------------------------------------------------------------------
(* The client tables of the WebSocket streamer                             *)

\* Every step keeps the types: the tables only hold clients of this streamer.
LEMMA StreamStepType == TypeOK /\ [Next]_vars => TypeOK'
<1> SUFFICES ASSUME TypeOK, [Next]_vars PROVE TypeOK'
  OBVIOUS
<1> USE DEF TypeOK, casting, GoTo, Drop
<1>1. ASSUME NEW c \in Clients, Handler(c) PROVE TypeOK'
  <2>1. CASE Handshake(c)
    BY <2>1 DEF Handshake
  <2>2. CASE Accept(c)
    BY <2>2 DEF Accept, Connect, AcceptFails
  <2>3. CASE Message(c)
    BY <2>3 DEF Message
  <2>4. CASE MessageSpoils(c)
    BY <2>4 DEF MessageSpoils
  <2>5. CASE Close(c)
    BY <2>5 DEF Close
  <2>6. CASE Answer(c)
    BY <2>6 DEF Answer, Answered, AnswerFails
  <2> QED BY <1>1, <2>1, <2>2, <2>3, <2>4, <2>5, <2>6 DEF Handler, Read
<1>2. ASSUME NEW c \in Clients, PeerLeaves(c) PROVE TypeOK'
  BY <1>2 DEF PeerLeaves
<1>3. ASSUME NEW b \in Broadcasts, Call(b) PROVE TypeOK'
  BY <1>3 DEF Call, Broadcast, Targets
<1>4. ASSUME NEW b \in Broadcasts, NEW c \in Clients, Task(b, c) PROVE TypeOK'
  <2>1. CASE SkipSend(b, c)
    BY <2>1 DEF SkipSend
  <2>2. CASE StartSend(b, c)
    BY <2>2 DEF StartSend
  <2>3. CASE SpoilSend(b, c)
    BY <2>3 DEF SpoilSend
  <2>4. CASE SendEnds(b, c)
    BY <2>4 DEF SendEnds
  <2>5. CASE SendFails(b, c)
    BY <2>5 DEF SendFails
  <2> QED
    BY <1>4, <2>1, <2>2, <2>3, <2>4, <2>5 DEF Task, RunTask, EndTask
<1>5. CASE UNCHANGED vars
  BY <1>5 DEF vars
<1> QED
  BY <1>1, <1>2, <1>3, <1>4, <1>5 DEF Next

\* The state of the tables is well typed in every behaviour.
THEOREM StreamTypeCorrect == Spec => []TypeOK
<1>1. Init => TypeOK
  BY DEF Init, TypeOK, NoCast
<1> QED
  BY <1>1, StreamStepType, PTL DEF Spec

\* A broadcast only drops a client it selected while the client was
\* registered, and a send in progress may outlive the handler: what keeps the
\* tables clean is that no step registers a client whose handler has ended.
LEMMA StepGone == TypeOK /\ GoneLeavesNothing /\ [Next]_vars => GoneLeavesNothing'
<1> SUFFICES ASSUME TypeOK, GoneLeavesNothing, [Next]_vars PROVE GoneLeavesNothing'
  OBVIOUS
<1> USE DEF TypeOK, GoneLeavesNothing, Serving, casting, GoTo, Drop
<1>1. ASSUME NEW c \in Clients, Handler(c) PROVE GoneLeavesNothing'
  <2>1. CASE Handshake(c)
    BY <2>1 DEF Handshake
  <2>2. CASE Accept(c)
    BY <2>2 DEF Accept, Connect, AcceptFails
  <2>3. CASE Message(c)
    BY <2>3 DEF Message
  <2>4. CASE MessageSpoils(c)
    BY <2>4 DEF MessageSpoils
  <2>5. CASE Close(c)
    BY <2>5 DEF Close
  <2>6. CASE Answer(c)
    BY <2>6 DEF Answer, Answered, AnswerFails
  <2> QED BY <1>1, <2>1, <2>2, <2>3, <2>4, <2>5, <2>6 DEF Handler, Read
<1>2. ASSUME NEW c \in Clients, PeerLeaves(c) PROVE GoneLeavesNothing'
  BY <1>2 DEF PeerLeaves
<1>3. ASSUME NEW b \in Broadcasts, Call(b) PROVE GoneLeavesNothing'
  BY <1>3 DEF Call, Broadcast
<1>4. ASSUME NEW b \in Broadcasts, NEW c \in Clients, Task(b, c) PROVE GoneLeavesNothing'
  <2>1. CASE SkipSend(b, c)
    BY <2>1 DEF SkipSend
  <2>2. CASE StartSend(b, c)
    BY <2>2 DEF StartSend
  <2>3. CASE SpoilSend(b, c)
    BY <2>3 DEF SpoilSend
  <2>4. CASE SendEnds(b, c)
    BY <2>4 DEF SendEnds
  <2>5. CASE SendFails(b, c)
    BY <2>5 DEF SendFails
  <2> QED
    BY <1>4, <2>1, <2>2, <2>3, <2>4, <2>5 DEF Task, RunTask, EndTask
<1>5. CASE UNCHANGED vars
  BY <1>5 DEF vars
<1> QED
  BY <1>1, <1>2, <1>3, <1>4, <1>5 DEF Next

\* A handler that is not serving, because it was refused, is still in accept
\* or has ended, has no entry in _connections nor in _subscriptions.
THEOREM GoneIsForgotten == Spec => []GoneLeavesNothing
<1>1. Init => GoneLeavesNothing
  BY DEF Init, GoneLeavesNothing
<1> QED
  BY <1>1, StepGone, StreamTypeCorrect, PTL DEF Spec

\* Each step keeps a client registered while its peer is there and no payload
\* failed to serialize: the failing sends that drop a client need a peer gone.
LEMMA StepLoss == TypeOK /\ OnlyLossUnregisters /\ [Next]_vars => OnlyLossUnregisters'
<1> SUFFICES ASSUME TypeOK, OnlyLossUnregisters, [Next]_vars PROVE OnlyLossUnregisters'
  OBVIOUS
<1> USE StreamAssumption DEF TypeOK, OnlyLossUnregisters, Serving, casting, GoTo, Drop
<1>1. ASSUME NEW c \in Clients, Handler(c) PROVE OnlyLossUnregisters'
  <2>1. CASE Handshake(c)
    BY <2>1 DEF Handshake
  <2>2. CASE Accept(c)
    BY <2>2 DEF Accept, Connect, AcceptFails
  <2>3. CASE Message(c)
    BY <2>3 DEF Message
  <2>4. CASE MessageSpoils(c)
    BY <2>4 DEF MessageSpoils
  <2>5. CASE Close(c)
    BY <2>5 DEF Close
  <2>6. CASE Answer(c)
    BY <2>6 DEF Answer, Answered, AnswerFails
  <2> QED BY <1>1, <2>1, <2>2, <2>3, <2>4, <2>5, <2>6 DEF Handler, Read
<1>2. ASSUME NEW c \in Clients, PeerLeaves(c) PROVE OnlyLossUnregisters'
  BY <1>2 DEF PeerLeaves
<1>3. ASSUME NEW b \in Broadcasts, Call(b) PROVE OnlyLossUnregisters'
  BY <1>3 DEF Call, Broadcast
<1>4. ASSUME NEW b \in Broadcasts, NEW c \in Clients, Task(b, c) PROVE OnlyLossUnregisters'
  <2>1. CASE SkipSend(b, c)
    BY <2>1 DEF SkipSend
  <2>2. CASE StartSend(b, c)
    BY <2>2 DEF StartSend
  <2>3. CASE SpoilSend(b, c)
    BY <2>3 DEF SpoilSend
  <2>4. CASE SendEnds(b, c)
    BY <2>4 DEF SendEnds
  <2>5. CASE SendFails(b, c)
    BY <2>5 DEF SendFails
  <2> QED
    BY <1>4, <2>1, <2>2, <2>3, <2>4, <2>5 DEF Task, RunTask, EndTask
<1>5. CASE UNCHANGED vars
  BY <1>5 DEF vars
<1> QED
  BY <1>1, <1>2, <1>3, <1>4, <1>5 DEF Next

\* A client whose peer is there, and which no unserializable payload was sent
\* to, stays registered as long as its handler serves it.
THEOREM StaysRegistered == Spec => []OnlyLossUnregisters
<1>1. Init => OnlyLossUnregisters
  BY DEF Init, OnlyLossUnregisters, Serving
<1> QED
  BY <1>1, StepLoss, StreamTypeCorrect, PTL DEF Spec

-----------------------------------------------------------------------------
(* Backups: a snapshot in a directory that another process writes          *)

\* What is in a file is its last version whole or, in the JSON file and
\* certainly while it is written, no version at all.
DirectoryInv ==
  /\ content \in [Backup!Files -> Int] /\ version \in [Backup!Files -> Nat]
  /\ content["db"] = version["db"]
  /\ content["json"] \in {version["json"], Backup!Empty, Backup!Torn}
  /\ writer \in {"truncated", "partial"} => content["json"] # version["json"]

\* The last version of a file that was whole at some time.
Whole(f) == version[f] - (IF content[f] < 0 THEN 1 ELSE 0)

LEMMA ServeStep ==
  ASSUME DirectoryInv, Backup!Serve
  PROVE  DirectoryInv' /\ \A f \in Backup!Files : Whole(f) \in Int /\ Whole(f) <= Whole(f)'
<1> USE DEF DirectoryInv, Backup!Files, Backup!Empty, Backup!Torn, Whole
<1>1. CASE Backup!Truncate
  BY <1>1 DEF Backup!Truncate, Backup!Write
<1>2. CASE Backup!WritePart
  BY <1>2 DEF Backup!WritePart, Backup!Write
<1>3. CASE Backup!WriteRest
  BY <1>3 DEF Backup!WriteRest, Backup!Write
<1>4. CASE Backup!Commit
  BY <1>4 DEF Backup!Commit
<1>5. CASE Backup!Kill \/ Backup!Start
  BY <1>5 DEF Backup!Kill, Backup!Start
<1> QED BY <1>1, <1>2, <1>3, <1>4, <1>5 DEF Backup!Serve

Backing ==
  [at : {"copying"}, stamp : Nat, todo : SUBSET Backup!Files, tries : Nat, failed : BOOLEAN,
   since : [Backup!Files -> Int]]

\* The directories, and the run under way.
SnapshotType ==
  /\ time \in Nat
  /\ DOMAIN snapshots \subseteq 0 .. time /\ DOMAIN complete \subseteq 0 .. time
  /\ \A t \in DOMAIN snapshots : DOMAIN snapshots[t] \subseteq Backup!Files
  /\ backup # Backup!NoBackup => backup \in Backing /\ backup.stamp \in DOMAIN snapshots

\* What a run has copied is no older than what was whole when it began, and
\* what was whole then, in this run and in those that succeeded, is not newer
\* than what a later run in the same directory would copy.
NoneNewer ==
  /\ \A t \in DOMAIN complete, f \in Backup!Files :
       complete[t][f] \in Int /\ complete[t][f] <= Whole(f)
  /\ backup # Backup!NoBackup =>
       \A f \in Backup!Files :
         /\ backup.since[f] <= Whole(f)
         /\ f \notin backup.todo /\ ~backup.failed =>
              /\ f \in DOMAIN snapshots[backup.stamp]
              /\ snapshots[backup.stamp][f] >= backup.since[f]

SnapshotsTyped ==
  \A t \in DOMAIN snapshots : \A f \in DOMAIN snapshots[t] : snapshots[t][f] \in Int

Superseded(t) == Keep > 0 /\ Cardinality(Backup!Newer(t)) >= Keep

Intact(t) ==
  /\ t \in DOMAIN snapshots
  /\ DOMAIN snapshots[t] = Backup!Files
  /\ \A f \in Backup!Files : snapshots[t][f] >= complete[t][f]

BackupInv ==
  /\ DirectoryInv /\ SnapshotType /\ SnapshotsTyped /\ NoneNewer
  /\ \A t \in DOMAIN complete : Superseded(t) \/ Intact(t)

LEMMA SameCardinality == ASSUME NEW S PROVE Backup!Cardinality(S) = Cardinality(S)
BY DEF Backup!Cardinality, Cardinality

\* A set of naturals with a bound has a greatest member.
LEMMA GreatestMember ==
  ASSUME NEW n \in Nat, NEW S, S \subseteq 0 .. n, S # {}
  PROVE  \E m \in S : \A k \in S : k <= m
<1> DEFINE T == {n - k : k \in S}
<1>1. T \subseteq Nat /\ T # {}
  <2>1. \A k \in S : n - k \in Nat
    OBVIOUS
  <2> QED BY <2>1
<1>2. PICK d \in T : \A e \in T : d <= e
  BY <1>1, LeastMember
<1>3. PICK m \in S : d = n - m
  OBVIOUS
<1>4. ASSUME NEW k \in S PROVE k <= m
  <2>1. n - k \in T
    OBVIOUS
  <2>2. n - m <= n - k
    BY <1>2, <1>3, <2>1
  <2>3. k \in Int /\ m \in Int
    OBVIOUS
  <2> QED BY <2>2, <2>3
<1> QED BY <1>4

LEMMA BoundedFinite ==
  ASSUME NEW n \in Nat, NEW D, D \subseteq 0 .. n
  PROVE  IsFiniteSet(D) /\ Cardinality(D) \in Nat
<1>1. IsFiniteSet(0 .. n) /\ D \in SUBSET (0 .. n)
  BY FS_Interval
<1> QED BY <1>1, FS_Subset, FS_CardinalityType

LEMMA NewerFinite ==
  ASSUME SnapshotType, NEW t
  PROVE  IsFiniteSet(Backup!Newer(t)) /\ Cardinality(Backup!Newer(t)) \in Nat
BY BoundedFinite DEF SnapshotType, Backup!Newer

\* Rotation keeps Keep of the directories newer than t, if there are as many:
\* the newest that it dropped would have fewer than Keep that are newer.
LEMMA RotationKeeps ==
  ASSUME SnapshotType, Keep \in Int, Keep > 0, NEW t \in Nat,
         Cardinality(Backup!Newer(t)) >= Keep
  PROVE  Cardinality({u \in Backup!Kept : u > t}) >= Keep
<1> DEFINE M == {u \in Backup!Kept : u > t}
           Dropped == Backup!Newer(t) \ M
<1>1. /\ M \subseteq Backup!Newer(t) /\ IsFiniteSet(M) /\ Cardinality(M) \in Nat
      /\ IsFiniteSet(Backup!Newer(t))
  <2>1. M \subseteq Backup!Newer(t)
    BY DEF Backup!Kept, Backup!Newer
  <2> QED BY <2>1, NewerFinite, FS_Subset, FS_CardinalityType
<1>2. SUFFICES ASSUME Cardinality(M) < Keep PROVE FALSE
  BY <1>1
<1>3. Dropped # {}
  <2>1. SUFFICES ASSUME Dropped = {} PROVE FALSE
    OBVIOUS
  <2>2. M = Backup!Newer(t)
    BY <1>1, <2>1
  <2> HIDE DEF M
  <2> QED BY <1>1, <1>2, <2>2
<1>4. Dropped \subseteq 0 .. time /\ time \in Nat
  BY DEF SnapshotType, Backup!Newer
<1>5. PICK m \in Dropped : \A k \in Dropped : k <= m
  BY <1>3, <1>4, GreatestMember
<1>6. m \in DOMAIN snapshots /\ m > t /\ m \in Nat
  BY <1>4 DEF Backup!Newer
<1>7. Backup!Newer(m) \subseteq M
  <2>1. ASSUME NEW k \in Backup!Newer(m) PROVE k \in M
    <3>1. k \in DOMAIN snapshots /\ k > m /\ k \in Nat
      BY <1>4 DEF Backup!Newer, SnapshotType
    <3>2. k \in Backup!Newer(t) /\ k \notin Dropped
      BY <1>5, <1>6, <3>1 DEF Backup!Newer
    <3> QED BY <3>2
  <2> QED BY <2>1
<1>8. Cardinality(Backup!Newer(m)) < Keep
  BY <1>1, <1>2, <1>7, FS_Subset, NewerFinite
<1>9. m \in Backup!Kept
  BY <1>6, <1>8, SameCardinality DEF Backup!Kept
<1> QED BY <1>6, <1>9

LEMMA BackupInitInv == Backup!Init => BackupInv
<1> SUFFICES ASSUME Backup!Init PROVE BackupInv
  OBVIOUS
<1> USE DEF Backup!Init, Backup!InitFiles
<1>1. DirectoryInv
  BY DEF DirectoryInv, Backup!Files
<1>2. /\ DOMAIN snapshots = {} /\ DOMAIN complete = {}
      /\ time = 0 /\ backup = Backup!NoBackup
  OBVIOUS
<1>3. SnapshotType
  BY ONLY <1>2 DEF SnapshotType
<1>4. SnapshotsTyped
  BY ONLY <1>2 DEF SnapshotsTyped
<1> QED BY <1>1, <1>2, <1>3, <1>4 DEF BackupInv, NoneNewer

\* A step of the processes that write the directory.
LEMMA DirectoryStep ==
  ASSUME BackupInv, Backup!Serve, UNCHANGED <<time, snapshots, backup, complete>>
  PROVE  BackupInv'
<1>1. DirectoryInv' /\ \A f \in Backup!Files : Whole(f) \in Int /\ Whole(f) <= Whole(f)'
  BY ServeStep DEF BackupInv
<1>2. SnapshotType' /\ SnapshotsTyped'
  BY DEF BackupInv, SnapshotType, SnapshotsTyped
<1>3. \A f \in Backup!Files : Whole(f)' \in Int
  BY <1>1 DEF DirectoryInv, Whole
<1>4. NoneNewer'
  <2>1. \A t \in DOMAIN complete, f \in Backup!Files :
           complete[t][f] \in Int /\ complete[t][f] <= Whole(f)'
    BY <1>1, <1>3 DEF BackupInv, NoneNewer
  <2>2. ASSUME backup # Backup!NoBackup, NEW f \in Backup!Files
        PROVE  backup.since[f] <= Whole(f)'
    <3>1. backup.since[f] \in Int /\ backup.since[f] <= Whole(f)
      BY <2>2 DEF BackupInv, NoneNewer, SnapshotType, Backing
    <3> QED BY <1>1, <1>3, <3>1
  <2> QED BY <2>1, <2>2 DEF BackupInv, NoneNewer
<1>5. \A t \in DOMAIN complete : Superseded(t)' \/ Intact(t)'
  BY DEF BackupInv, Superseded, Intact, Backup!Newer
<1> QED BY <1>1, <1>2, <1>4, <1>5 DEF BackupInv

\* Steps that copy nothing and end nothing leave the earlier snapshots alone.
LEMMA BeginStep == ASSUME BackupInv, Backup!BeginBackup PROVE BackupInv'
<1> USE DEF BackupInv, Backup!BeginBackup
<1>1. /\ DOMAIN snapshots' = DOMAIN snapshots \cup {time}
      /\ \A t \in DOMAIN snapshots : snapshots'[t] = snapshots[t]
      /\ time \notin DOMAIN snapshots => DOMAIN snapshots'[time] = {}
  OBVIOUS
<1>2. /\ UNCHANGED <<content, version, writer, time, complete>> /\ DirectoryInv'
      /\ \A f \in Backup!Files : Whole(f)' = Whole(f) /\ Whole(f) \in Int
  BY DEF DirectoryInv, Whole, Backup!files
<1>3. /\ backup' \in Backing /\ backup' # Backup!NoBackup
      /\ backup'.stamp = time /\ backup'.todo = Backup!Files
      /\ \A f \in Backup!Files : backup'.since[f] = Whole(f)
  <2>1. [f \in Backup!Files |-> Whole(f)] \in [Backup!Files -> Int]
    BY <1>2
  <2>2. backup' = [at |-> "copying", stamp |-> time, todo |-> Backup!Files, tries |-> 0,
                   failed |-> FALSE, since |-> [f \in Backup!Files |-> Whole(f)]]
    BY DEF Whole
  <2> QED BY <2>1, <2>2 DEF Backing, SnapshotType, Backup!NoBackup
<1>4. SnapshotType'
  BY <1>1, <1>2, <1>3 DEF SnapshotType
<1>5. SnapshotsTyped'
  BY <1>1 DEF SnapshotsTyped
<1>6. NoneNewer'
  <2>1. \A t \in DOMAIN complete', f \in Backup!Files :
           complete'[t][f] \in Int /\ complete'[t][f] <= Whole(f)'
    BY <1>2 DEF NoneNewer
  <2>2. \A f \in Backup!Files : backup'.since[f] <= Whole(f)' /\ f \in backup'.todo
    BY <1>2, <1>3
  <2> QED BY ONLY <2>1, <2>2 DEF NoneNewer
<1>7. ASSUME NEW t \in DOMAIN complete' PROVE Superseded(t)' \/ Intact(t)'
  <2>1. CASE Superseded(t)
    <3>1. Backup!Newer(t) \subseteq Backup!Newer(t)'
      BY <1>1 DEF Backup!Newer
    <3>2. /\ IsFiniteSet(Backup!Newer(t)') /\ Cardinality(Backup!Newer(t)') \in Nat
          /\ Cardinality(Backup!Newer(t)) \in Nat
      BY <1>4, BoundedFinite, NewerFinite DEF SnapshotType, Backup!Newer
    <3> QED BY <2>1, <3>1, <3>2, FS_Subset, LibraryAssumption DEF Superseded
  <2>2. CASE Intact(t)
    BY <1>1, <1>2, <2>2 DEF Intact
  <2> QED BY <1>2, <1>7, <2>1, <2>2
<1> QED BY <1>2, <1>4, <1>5, <1>6, <1>7

LEMMA CopyStep ==
  ASSUME BackupInv, NEW f \in Backup!Files, Backup!Copy(f) PROVE BackupInv'
<1> USE DEF Backup!Copy, Backup!Copying, Backup!Put
<1> DEFINE s == backup.stamp
<1>1. /\ backup # Backup!NoBackup /\ backup \in Backing /\ s \in DOMAIN snapshots
      /\ s \in Nat
  BY DEF Backup!NoBackup, BackupInv, SnapshotType, Backing
<1>2. /\ UNCHANGED <<content, version, writer, time, complete>> /\ DirectoryInv'
      /\ \A g \in Backup!Files : Whole(g)' = Whole(g)
      /\ content[f] = Whole(f) /\ content[f] \in Int
  BY DEF DirectoryInv, Whole, Backup!files, Backup!Files, Backup!Empty, Backup!Torn, BackupInv
<1>3. /\ DOMAIN snapshots' = DOMAIN snapshots
      /\ \A t \in DOMAIN snapshots : t # s => snapshots'[t] = snapshots[t]
      /\ DOMAIN snapshots'[s] = DOMAIN snapshots[s] \cup {f}
      /\ snapshots'[s][f] = content[f]
      /\ \A g \in DOMAIN snapshots[s] : g # f => snapshots'[s][g] = snapshots[s][g]
  BY <1>1
<1>4. /\ backup' \in Backing /\ backup' # Backup!NoBackup
      /\ backup'.stamp = s /\ backup'.todo = backup.todo \ {f}
      /\ backup'.failed = backup.failed /\ backup'.since = backup.since
  <2>1. backup' = [backup EXCEPT !.todo = @ \ {f}, !.tries = 0]
    OBVIOUS
  <2>2. backup' \in Backing
    <3>1. backup.todo \ {f} \in SUBSET Backup!Files
      BY <1>1 DEF Backing
    <3> QED BY ONLY <1>1, <2>1, <3>1 DEF Backing
  <2> QED BY <1>1, <2>1, <2>2 DEF Backing, Backup!NoBackup
<1>5. SnapshotType'
  BY <1>1, <1>2, <1>3, <1>4 DEF SnapshotType, BackupInv
<1>6. SnapshotsTyped'
  <2>1. ASSUME NEW t \in DOMAIN snapshots', NEW g \in DOMAIN snapshots'[t]
        PROVE  snapshots'[t][g] \in Int
    BY <1>1, <1>2, <1>3, <2>1 DEF SnapshotsTyped, BackupInv
  <2> QED BY <2>1 DEF SnapshotsTyped
<1>7. NoneNewer'
  <2>1. \A t \in DOMAIN complete', g \in Backup!Files :
           complete'[t][g] \in Int /\ complete'[t][g] <= Whole(g)'
    BY <1>2 DEF NoneNewer, BackupInv
  <2>2. ASSUME NEW g \in Backup!Files
        PROVE  /\ backup'.since[g] <= Whole(g)'
               /\ g \notin backup'.todo /\ ~backup'.failed =>
                    /\ g \in DOMAIN snapshots'[backup'.stamp]
                    /\ snapshots'[backup'.stamp][g] >= backup'.since[g]
    <3>1. backup.since[g] <= Whole(g) /\ backup.since[g] \in Int
      BY <1>1 DEF NoneNewer, BackupInv, Backing
    <3>2. CASE g = f
      BY <1>2, <1>3, <1>4, <3>1, <3>2
    <3>3. CASE g # f
      BY <1>1, <1>2, <1>3, <1>4, <3>1, <3>3 DEF NoneNewer, BackupInv
    <3> QED BY <3>2, <3>3
  <2> QED BY <2>1, <2>2 DEF NoneNewer
<1>8. ASSUME NEW t \in DOMAIN complete' PROVE Superseded(t)' \/ Intact(t)'
  <2>1. CASE Superseded(t)
    BY <1>3, <2>1 DEF Superseded, Backup!Newer
  <2>2. CASE Intact(t)
    <3>1. complete[t][f] \in Int /\ complete[t][f] <= content[f]
      BY <1>2, <1>8 DEF NoneNewer, BackupInv
    <3>2. t \in DOMAIN snapshots' /\ DOMAIN snapshots'[t] = Backup!Files
      BY <1>3, <2>2 DEF Intact
    <3>3. ASSUME NEW g \in Backup!Files PROVE snapshots'[t][g] >= complete'[t][g]
      <4>1. CASE t = s /\ g = f
        BY <1>2, <1>3, <3>1, <4>1
      <4>2. CASE ~(t = s /\ g = f)
        BY <1>2, <1>3, <2>2, <4>2 DEF Intact
      <4> QED BY <4>1, <4>2
    <3> QED BY <3>2, <3>3 DEF Intact
  <2> QED BY <1>2, <1>8, <2>1, <2>2 DEF BackupInv
<1> QED BY <1>2, <1>5, <1>6, <1>7, <1>8 DEF BackupInv

\* A file that is given up, or tried again, leaves the run failed or unchanged.
LEMMA MissStep ==
  ASSUME BackupInv, Backup!Retry \/ \E f \in Backup!Files : Backup!CopyFails(f)
  PROVE  BackupInv'
<1>1. backup # Backup!NoBackup /\ backup \in Backing /\ backup.stamp \in DOMAIN snapshots
  <2>1. backup.at = "copying"
    BY DEF Backup!Retry, Backup!CopyFails, Backup!Copying
  <2> QED BY <2>1 DEF Backup!NoBackup, BackupInv, SnapshotType
<1>2. UNCHANGED <<content, version, writer, time, snapshots, complete>>
  BY DEF Backup!Retry, Backup!CopyFails, Backup!files
<1>3. /\ backup' \in Backing /\ backup' # Backup!NoBackup
      /\ backup'.stamp = backup.stamp /\ backup'.since = backup.since
      /\ ~backup'.failed => backup'.todo = backup.todo /\ ~backup.failed
  <2>1. \/ backup' = [backup EXCEPT !.tries = @ + 1]
        \/ \E f \in Backup!Files :
             backup' = [backup EXCEPT !.todo = @ \ {f}, !.tries = 0, !.failed = TRUE]
    BY DEF Backup!Retry, Backup!CopyFails, Backup!GiveUp, Backup!Files
  <2>2. CASE backup' = [backup EXCEPT !.tries = @ + 1]
    BY <1>1, <2>2 DEF Backing, Backup!NoBackup
  <2>3. ASSUME NEW f \in Backup!Files,
               backup' = [backup EXCEPT !.todo = @ \ {f}, !.tries = 0, !.failed = TRUE]
        PROVE  /\ backup' \in Backing /\ backup' # Backup!NoBackup /\ backup'.failed
               /\ backup'.stamp = backup.stamp /\ backup'.since = backup.since
    <3>1. backup.todo \ {f} \in SUBSET Backup!Files
      BY <1>1 DEF Backing
    <3> QED BY <1>1, <2>3, <3>1 DEF Backing, Backup!NoBackup
  <2> QED BY <2>1, <2>2, <2>3
<1>4. DirectoryInv' /\ SnapshotsTyped' /\ \A f \in Backup!Files : Whole(f)' = Whole(f)
  BY <1>2 DEF BackupInv, DirectoryInv, SnapshotsTyped, Whole
<1>5. SnapshotType'
  BY <1>1, <1>2, <1>3 DEF BackupInv, SnapshotType
<1>6. NoneNewer'
  BY <1>1, <1>2, <1>3, <1>4 DEF BackupInv, NoneNewer
<1>7. \A t \in DOMAIN complete' : Superseded(t)' \/ Intact(t)'
  BY <1>2 DEF BackupInv, Superseded, Intact, Backup!Newer
<1> QED BY <1>4, <1>5, <1>6, <1>7 DEF BackupInv

\* A corrupt copy is in the directory of a run that has failed, and of no other.
LEMMA CorruptStep == ASSUME BackupInv, Backup!CopyCorrupt PROVE BackupInv'
<1> DEFINE s == backup.stamp
<1>1. /\ backup # Backup!NoBackup /\ backup \in Backing /\ s \in DOMAIN snapshots
  BY DEF Backup!CopyCorrupt, Backup!Copying, Backup!NoBackup, BackupInv, SnapshotType
<1>2. /\ UNCHANGED <<content, version, writer, time>> /\ DirectoryInv'
      /\ \A g \in Backup!Files : Whole(g)' = Whole(g)
  BY DEF Backup!CopyCorrupt, Backup!files, DirectoryInv, Whole, BackupInv
<1>3. /\ DOMAIN snapshots' = DOMAIN snapshots
      /\ \A t \in DOMAIN snapshots : t # s => snapshots'[t] = snapshots[t]
      /\ DOMAIN snapshots'[s] = DOMAIN snapshots[s] \cup {"db"}
      /\ \A g \in DOMAIN snapshots[s] : g # "db" => snapshots'[s][g] = snapshots[s][g]
  BY <1>1 DEF Backup!CopyCorrupt, Backup!Put
<1>4. /\ DOMAIN complete' = DOMAIN complete \ {s}
      /\ \A t \in DOMAIN complete' : complete'[t] = complete[t]
  BY DEF Backup!CopyCorrupt
<1>5. /\ backup' \in Backing /\ backup' # Backup!NoBackup /\ backup'.failed
      /\ backup'.stamp = s /\ backup'.since = backup.since
  <2>1. backup' = [backup EXCEPT !.todo = @ \ {"db"}, !.tries = 0, !.failed = TRUE]
    BY DEF Backup!CopyCorrupt, Backup!GiveUp
  <2>2. backup.todo \ {"db"} \in SUBSET Backup!Files
    BY <1>1 DEF Backing
  <2> QED BY <1>1, <2>1, <2>2 DEF Backing, Backup!NoBackup
<1>6. SnapshotType'
  <2>1. \A t \in DOMAIN snapshots' : DOMAIN snapshots'[t] \subseteq Backup!Files
    BY <1>3 DEF BackupInv, SnapshotType, Backup!Files
  <2> QED BY <1>1, <1>2, <1>3, <1>4, <1>5, <2>1 DEF BackupInv, SnapshotType
<1>7. SnapshotsTyped'
  <2>1. ASSUME NEW t \in DOMAIN snapshots', NEW g \in DOMAIN snapshots'[t]
        PROVE  snapshots'[t][g] \in Int
    <3>1. CASE t # s
      BY <1>3, <2>1, <3>1 DEF BackupInv, SnapshotsTyped
    <3>2. CASE t = s /\ g = "db"
      BY <1>1, <3>2 DEF Backup!CopyCorrupt, Backup!Put, Backup!Torn
    <3>3. CASE t = s /\ g # "db"
      BY <1>1, <1>3, <2>1, <3>3 DEF BackupInv, SnapshotsTyped
    <3> QED BY <3>1, <3>2, <3>3
  <2> QED BY <2>1 DEF SnapshotsTyped
<1>8. NoneNewer'
  BY <1>1, <1>2, <1>4, <1>5 DEF BackupInv, NoneNewer
<1>9. \A t \in DOMAIN complete' : Superseded(t)' \/ Intact(t)'
  BY <1>3, <1>4 DEF BackupInv, Superseded, Intact, Backup!Newer
<1> QED BY <1>2, <1>6, <1>7, <1>8, <1>9 DEF BackupInv

LEMMA EndStep == ASSUME BackupInv, Backup!EndBackup PROVE BackupInv'
<1> USE DEF Backup!EndBackup
<1> DEFINE s == backup.stamp
<1>1. /\ backup # Backup!NoBackup /\ backup \in Backing /\ s \in DOMAIN snapshots
      /\ backup.todo = {}
  BY DEF Backup!NoBackup, BackupInv, SnapshotType, Backing
<1>2. /\ UNCHANGED <<content, version, writer, time>> /\ DirectoryInv'
      /\ \A f \in Backup!Files : Whole(f)' = Whole(f)
  BY DEF DirectoryInv, Whole, Backup!files, BackupInv
<1>3. /\ DOMAIN snapshots' = IF Keep <= 0 THEN DOMAIN snapshots ELSE Backup!Kept
      /\ DOMAIN snapshots' \subseteq DOMAIN snapshots
      /\ \A t \in DOMAIN snapshots' : snapshots'[t] = snapshots[t]
  BY DEF Backup!Kept
<1>4. /\ backup.failed => complete' = complete
      /\ ~backup.failed =>
           /\ DOMAIN complete' = DOMAIN complete \cup {s}
           /\ complete'[s] = backup.since
           /\ \A t \in DOMAIN complete : t # s => complete'[t] = complete[t]
  OBVIOUS
<1>5. backup' = Backup!NoBackup
  OBVIOUS
<1>6. SnapshotType'
  <2>1. DOMAIN complete' \subseteq 0 .. time
    BY <1>1, <1>4 DEF BackupInv, SnapshotType
  <2> QED BY <1>2, <1>3, <1>5, <2>1 DEF BackupInv, SnapshotType
<1>7. SnapshotsTyped'
  BY <1>3 DEF BackupInv, SnapshotsTyped
<1>8. NoneNewer'
  <2>1. ASSUME NEW t \in DOMAIN complete', NEW f \in Backup!Files
        PROVE  complete'[t][f] \in Int /\ complete'[t][f] <= Whole(f)'
    <3>1. CASE t = s /\ ~backup.failed
      <4>1. backup.since[f] \in Int /\ backup.since[f] <= Whole(f)
        BY <1>1 DEF BackupInv, NoneNewer, Backing
      <4> QED BY <1>2, <1>4, <3>1, <4>1
    <3>2. CASE ~(t = s /\ ~backup.failed)
      <4>1. t \in DOMAIN complete /\ complete'[t] = complete[t]
        BY <1>4, <2>1, <3>2
      <4> QED BY <1>2, <4>1 DEF BackupInv, NoneNewer
    <3> QED BY <3>1, <3>2
  <2> QED BY <1>5, <2>1 DEF NoneNewer
\* Either t was superseded and stays so, or it was intact and is kept.
<1>9. ASSUME NEW t \in DOMAIN complete', Superseded(t) PROVE Superseded(t)'
  <2>1. Keep > 0 /\ Keep \in Int /\ Cardinality(Backup!Newer(t)) >= Keep /\ t \in Nat
    BY <1>6, <1>9, LibraryAssumption DEF Superseded, SnapshotType
  <2>2. Cardinality({u \in Backup!Kept : u > t}) >= Keep
    BY <2>1, RotationKeeps DEF BackupInv
  <2>3. Backup!Newer(t)' = {u \in Backup!Kept : u > t}
    BY <1>3, <2>1 DEF Backup!Newer
  <2> QED BY <2>1, <2>2, <2>3 DEF Superseded
<1>10. ASSUME NEW t \in DOMAIN complete', ~Superseded(t), t \in DOMAIN snapshots
       PROVE  t \in DOMAIN snapshots'
  <2>1. CASE Keep <= 0
    BY <1>3, <1>10, <2>1
  <2>2. CASE ~(Keep <= 0)
    <3>1. Cardinality(Backup!Newer(t)) < Keep
      BY <1>10, <2>2, NewerFinite, LibraryAssumption DEF BackupInv, Superseded
    <3>2. t \in Backup!Kept
      BY <1>10, <3>1, SameCardinality DEF Backup!Kept
    <3> QED BY <1>3, <2>2, <3>2
  <2> QED BY <2>1, <2>2
<1>11. ASSUME NEW t \in DOMAIN complete', ~Superseded(t) PROVE Intact(t)'
  <2>1. CASE t = s /\ ~backup.failed
    <3>1. \A f \in Backup!Files :
             f \in DOMAIN snapshots[s] /\ snapshots[s][f] >= backup.since[f]
      BY <1>1, <2>1 DEF BackupInv, NoneNewer
    <3>2. DOMAIN snapshots[s] = Backup!Files
      BY <1>1, <3>1 DEF BackupInv, SnapshotType
    <3>3. t \in DOMAIN snapshots' /\ snapshots'[t] = snapshots[s] /\ complete'[t] = backup.since
      BY <1>1, <1>3, <1>4, <1>10, <1>11, <2>1
    <3> QED BY <3>1, <3>2, <3>3 DEF Intact
  <2>2. CASE ~(t = s /\ ~backup.failed)
    <3>1. t \in DOMAIN complete /\ complete'[t] = complete[t]
      BY <1>4, <1>11, <2>2
    <3>2. Intact(t)
      BY <1>11, <3>1 DEF BackupInv
    <3>3. t \in DOMAIN snapshots' /\ snapshots'[t] = snapshots[t]
      BY <1>3, <1>10, <1>11, <3>2 DEF Intact
    <3> QED BY <3>1, <3>2, <3>3 DEF Intact
  <2> QED BY <2>1, <2>2
<1> QED BY <1>2, <1>6, <1>7, <1>8, <1>9, <1>11 DEF BackupInv

LEMMA BackupStep == ASSUME BackupInv, Backup!Next PROVE BackupInv'
<1>1. CASE Backup!BackupKilled \/ Backup!Tick
  <2>1. /\ UNCHANGED <<content, version, writer, snapshots, complete>>
        /\ time' \in {time, time + 1}
        /\ backup' = backup \/ backup' = Backup!NoBackup
    BY <1>1 DEF Backup!BackupKilled, Backup!Tick, Backup!files, BackupInv, SnapshotType
  <2>2. DirectoryInv' /\ SnapshotsTyped' /\ \A f \in Backup!Files : Whole(f)' = Whole(f)
    BY <2>1 DEF BackupInv, DirectoryInv, SnapshotsTyped, Whole
  <2>3. SnapshotType'
    <3>1. time' \in Nat /\ 0 .. time \subseteq 0 .. time'
      BY <2>1 DEF BackupInv, SnapshotType
    <3>2. DOMAIN snapshots' \subseteq 0 .. time' /\ DOMAIN complete' \subseteq 0 .. time'
      BY <2>1, <3>1 DEF BackupInv, SnapshotType
    <3> QED BY <2>1, <3>1, <3>2 DEF BackupInv, SnapshotType
  <2>4. NoneNewer'
    BY <2>1, <2>2 DEF BackupInv, NoneNewer
  <2>5. \A t \in DOMAIN complete' : Superseded(t)' \/ Intact(t)'
    BY <2>1 DEF BackupInv, Superseded, Intact, Backup!Newer
  <2> QED BY <2>2, <2>3, <2>4, <2>5 DEF BackupInv
<1> QED BY <1>1, DirectoryStep, BeginStep, CopyStep, MissStep, CorruptStep, EndStep DEF Backup!Next

LEMMA BackupStutter ==
  ASSUME BackupInv, UNCHANGED <<content, version, writer, time, snapshots, backup, complete>>
  PROVE  BackupInv'
BY DEF BackupInv, DirectoryInv, SnapshotType, SnapshotsTyped, NoneNewer, Superseded, Intact,
   Whole, Backup!Newer

\* In a behaviour of another part no backup is ever made.
BackupsApart == IF subject = "backups" THEN BackupInv ELSE DOMAIN complete = {}

LEMMA BackupsApartStep == BackupsApart /\ [LibraryNext]_LibraryVars => BackupsApart'
<1> SUFFICES ASSUME BackupsApart, [LibraryNext]_LibraryVars PROVE BackupsApart'
  OBVIOUS
<1>1. subject' = subject
  BY DEF LibraryNext, LibraryVars
<1>2. CASE subject = "backups"
  <2>1. Backup!Next \/ UNCHANGED <<content, version, writer, time, snapshots, backup, complete>>
    BY <1>2 DEF LibraryNext, LibraryVars, directory, backups
  <2> QED BY <1>1, <1>2, <2>1, BackupStep, BackupStutter DEF BackupsApart
<1>3. CASE subject # "backups"
  <2>1. complete' = complete
    BY <1>3 DEF LibraryNext, LibraryVars, backups
  <2> QED BY <1>1, <1>3, <2>1 DEF BackupsApart
<1> QED BY <1>2, <1>3

\* Until Keep newer directories are made, a backup that reported success is in
\* its own with every file, each in a version written whole and no older than
\* the run (run_backup, _rotate_backups): for any number of backups, several in
\* one second among them, and any Keep, with rotation or without; unless a later
\* one of the same second leaves its corrupt copy of the database there.
THEOREM BackupsKept == LibrarySpec => []CompleteKept
<1>1. LibraryInit => BackupsApart
  BY BackupInitInv DEF LibraryInit, BackupsApart, Backup!Init
<1>2. BackupsApart => CompleteKept
  BY SameCardinality
  DEF BackupsApart, BackupInv, Superseded, Intact, CompleteKept, Backup!CompleteKept
<1> QED BY <1>1, <1>2, BackupsApartStep, PTL DEF LibrarySpec

-----------------------------------------------------------------------------
(* StartupGate: the check, then the first call                             *)

GateType ==
  /\ content \in [Gate!Files -> Nat \cup {Gate!Empty, Gate!Torn, Gate!Foreign}]
  /\ version \in [Gate!Files -> Nat]
  /\ disturbed \in BOOLEAN

\* From the check on, the file is not torn unless somebody wrote.
GateInv ==
  /\ GateType
  /\ mcp \in {"checked", "serving"} /\ ~disturbed => content["json"] # Gate!Torn
  /\ Gate!FreshStartExplained

\* The writer, and whoever puts an earlier file back, keep the types.
LEMMA GateWriter ==
  ASSUME GateType, Gate!Serve \/ Gate!Restore PROVE content' \in [Gate!Files ->
           Nat \cup {Gate!Empty, Gate!Torn, Gate!Foreign}] /\ version' \in [Gate!Files -> Nat]
<1>. USE DEF GateType, Gate!Files, Gate!Empty, Gate!Torn, Gate!Foreign
<1>1. CASE Gate!Truncate
  BY <1>1 DEF Gate!Truncate, Gate!Write
<1>2. CASE Gate!WritePart
  BY <1>2 DEF Gate!WritePart, Gate!Write
<1>3. CASE Gate!WriteRest
  BY <1>3 DEF Gate!WriteRest, Gate!Write
<1>4. CASE Gate!Commit
  <2>1. content["db"] + 1 \in Nat \cup {Gate!Empty, Gate!Torn, Gate!Foreign}
    BY <1>4 DEF Gate!Commit
  <2> QED BY <1>4, <2>1 DEF Gate!Commit
<1>5. CASE Gate!Kill \/ Gate!Start
  BY <1>5 DEF Gate!Kill, Gate!Start
<1>6. CASE Gate!Restore
  <2>1. PICK c \in 0 .. version["json"] - 1 \cup {Gate!Foreign} :
          content' = [content EXCEPT !["json"] = c]
    BY <1>6 DEF Gate!Restore
  <2> QED BY <1>6, <2>1 DEF Gate!Restore
<1> QED BY <1>1, <1>2, <1>3, <1>4, <1>5, <1>6 DEF Gate!Serve

LEMMA GateStep == ASSUME GateInv, Gate!Next PROVE GateInv'
<1> USE DEF GateInv, GateType, Gate!FreshStartExplained
<1>1. CASE Gate!StartMcp
  BY <1>1 DEF Gate!StartMcp, Gate!Problems, Gate!Files, Gate!files
<1>2. CASE Gate!LoadQueue
  <2>1. /\ UNCHANGED <<content, version, disturbed>> /\ mcp = "checked" /\ mcp' = "serving"
        /\ loaded' \in Gate!Loads(content["json"])
    BY <1>2 DEF Gate!LoadQueue, Gate!files
  <2>2. content["json"] \in Nat \cup {Gate!Empty, Gate!Torn, Gate!Foreign}
    BY DEF Gate!Files
  <2>3. CASE content["json"] \in Nat
    <3>1. loaded' = content["json"]
      <4>1. content["json"] >= 0 /\ content["json"] # Gate!Foreign
        BY <2>3 DEF Gate!Foreign
      <4>2. Gate!Loads(content["json"]) = {content["json"]}
        BY <4>1 DEF Gate!Loads
      <4> QED BY <2>1, <4>2
    <3>2. ~(loaded' < 0)
      BY <2>3, <3>1
    <3>3. content["json"] # Gate!Torn
      BY <2>3 DEF Gate!Torn
    <3>4. GateType'
      BY <2>1
    <3> QED BY <2>1, <3>2, <3>3, <3>4
  <2>4. CASE content["json"] \in {Gate!Empty, Gate!Foreign}
    <3>1. GateType'
      BY <2>1
    <3>2. content["json"] # Gate!Torn
      BY <2>4 DEF Gate!Empty, Gate!Foreign, Gate!Torn
    <3> QED BY <2>1, <2>4, <3>1, <3>2
  <2>5. CASE content["json"] = Gate!Torn
    BY <2>1, <2>5
  <2> QED BY <2>2, <2>3, <2>4, <2>5
<1>3. CASE Gate!StopMcp
  BY <1>3 DEF Gate!StopMcp, Gate!files
<1>4. CASE /\ Gate!Serve \/ Gate!Restore
           /\ disturbed' = (disturbed \/ content' # content)
           /\ UNCHANGED <<mcp, loaded>>
  <2>1. disturbed' \in BOOLEAN /\ (~disturbed' => ~disturbed /\ content' = content)
    BY <1>4
  <2> QED BY <1>4, <2>1, GateWriter
<1> QED BY <1>1, <1>2, <1>3, <1>4 DEF Gate!Next

\* In a behaviour of another part the MCP server is not started.
GateApart == IF subject = "gate" THEN GateInv ELSE mcp = "off"

LEMMA GateApartStep == GateApart /\ [LibraryNext]_LibraryVars => GateApart'
<1> SUFFICES ASSUME GateApart, [LibraryNext]_LibraryVars PROVE GateApart'
  OBVIOUS
<1>1. subject' = subject
  BY DEF LibraryNext, LibraryVars
<1>2. CASE subject = "gate"
  <2>1. Gate!Next \/ UNCHANGED <<content, version, mcp, loaded, disturbed>>
    BY <1>2 DEF LibraryNext, LibraryVars, directory, gate
  <2>2. UNCHANGED <<content, version, mcp, loaded, disturbed>> => GateInv'
    BY <1>2 DEF GateApart, GateInv, GateType, Gate!FreshStartExplained
  <2> QED BY <1>1, <1>2, <2>1, <2>2, GateStep DEF GateApart
<1>3. CASE subject # "gate"
  <2>1. mcp' = mcp
    BY <1>3 DEF LibraryNext, LibraryVars, gate
  <2> QED BY <1>1, <1>3, <2>1 DEF GateApart
<1> QED BY <1>2, <1>3

\* What the MCP server takes for a fresh start, and would rewrite as one, is
\* never a queue that a write left torn before the check (mcp/server.py main,
\* integrity.py, task_queue.py _load), whoever writes, is killed and puts an
\* earlier file back in which order, for any number of writes; a file that was
\* empty, or parses to something else, may be, as the two ask different things.
THEOREM TornNeverFresh == LibrarySpec => []FreshStartExplained
<1>1. LibraryInit => GateApart
  <2> SUFFICES ASSUME LibraryInit PROVE GateApart
    OBVIOUS
  <2>1. Gate!InitFiles /\ mcp = "off" /\ disturbed = FALSE
    BY DEF LibraryInit, Gate!Init
  <2>2. GateType
    BY <2>1 DEF GateType, Gate!InitFiles
  <2> QED BY <2>1, <2>2 DEF GateApart, GateInv, Gate!FreshStartExplained
<1>2. GateApart => FreshStartExplained
  BY DEF GateApart, GateInv, FreshStartExplained, Gate!FreshStartExplained
<1> QED BY <1>1, <1>2, GateApartStep, PTL DEF LibrarySpec

-----------------------------------------------------------------------------
(* McpServer: one answer to each request, and the task it names            *)

Line == [hasId : BOOLEAN, task : BOOLEAN]
Outcomes == {"result", "void", "invalid", "raised", "done", "timeout", "failed"}
Reply1 == [id : Nat, outcome : Outcomes]
Busy == {"adding", "marking", "executing", "replying"}

StdioType ==
  /\ loop \in {"reading", "down"} \cup Busy
  /\ lines \in Seq(Line) /\ replies \in Seq(Reply1)
  /\ DOMAIN stored \subseteq 1 .. Len(lines) /\ cut \subseteq 1 .. Len(lines)
  /\ wiped \in BOOLEAN

\* The request under way is the last that was read; nobody heard of it yet, and
\* the queue it opened is the one in the file, with the verdict to be told.
VerdictWritten == Len(lines) \in DOMAIN stored /\ stored[Len(lines)] \in Stdio!Verdicts

UnderWay ==
  loop \in Busy =>
    /\ Len(lines) >= 1 /\ Len(lines) \notin cut
    /\ tasks = stored
    /\ \A i \in DOMAIN replies : replies[i].id # Len(lines)
    /\ loop = "replying" => VerdictWritten

Ordered ==
  /\ \A i \in DOMAIN replies : replies[i].id <= Len(lines)
  /\ \A i, j \in DOMAIN replies :
       i < j /\ replies[i].id # 0 /\ replies[j].id # 0 => replies[i].id < replies[j].id

\* Who was read, and is not under way, was either answered or cut off.
AnsweredOrCut ==
  \A n \in 1 .. Len(lines) :
    lines[n].hasId /\ (loop \in Busy => n # Len(lines)) =>
      (n \in cut <=> \A i \in DOMAIN replies : replies[i].id # n)

VerdictsKept ==
  \A i \in DOMAIN replies :
    replies[i].outcome \in Stdio!Verdicts /\ replies[i].id # 0 =>
      IF replies[i].id \in DOMAIN stored
        THEN stored[replies[i].id] = replies[i].outcome
        ELSE wiped

StatusAnswered ==
  \A n \in DOMAIN stored :
    \/ n \in cut
    \/ stored[n] \in Stdio!Verdicts
    \/ \A i \in DOMAIN replies : replies[i].id = n => replies[i].outcome = "raised"

StdioInv ==
  /\ StdioType /\ UnderWay /\ Ordered
  /\ AnsweredOrCut /\ VerdictsKept /\ StatusAnswered

\* What an answer does to the replies: nothing, for want of an id, or one more.
Added(hasId, id, outcome) ==
  /\ replies' \in Seq(Reply1)
  /\ \/ ~hasId /\ replies' = replies
     \/ /\ DOMAIN replies' = DOMAIN replies \cup {Len(replies) + 1}
        /\ \A i \in DOMAIN replies : replies'[i] = replies[i] /\ i < Len(replies) + 1
        /\ replies'[Len(replies) + 1].id = IF hasId THEN id ELSE 0
        /\ replies'[Len(replies) + 1].outcome = outcome

LEMMA AnswerAdds ==
  ASSUME replies \in Seq(Reply1), NEW line \in Line, NEW id \in Nat, NEW outcome \in Outcomes,
         replies' = replies \o Stdio!Answers(line, id, outcome)
  PROVE  Added(line.hasId, id, outcome)
<1> DEFINE r == [id |-> IF line.hasId THEN id ELSE 0, outcome |-> outcome]
<1>1. CASE Stdio!Answers(line, id, outcome) = <<>>
  <2>1. replies' = replies
    BY <1>1
  <2>2. ~line.hasId
    BY <1>1 DEF Stdio!Answers
  <2> QED BY <2>1, <2>2 DEF Added
<1>2. CASE Stdio!Answers(line, id, outcome) = <<r>>
  <2>1. replies' = Append(replies, r) /\ r \in Reply1
    BY <1>2 DEF Reply1
  <2> QED BY <2>1 DEF Added, Reply1
<1> QED BY <1>1, <1>2 DEF Stdio!Answers, Stdio!Null

LEMMA StdioInitInv == Stdio!Init => StdioInv
<1> SUFFICES ASSUME Stdio!Init PROVE StdioInv
  OBVIOUS
<1>1. /\ loop = "reading" /\ wiped = FALSE /\ cut = {} /\ Len(lines) = 0
      /\ lines \in Seq(Line) /\ replies \in Seq(Reply1)
      /\ DOMAIN replies = {} /\ DOMAIN stored = {}
  BY DEF Stdio!Init
<1>2. StdioType /\ UnderWay
  BY <1>1 DEF StdioType, UnderWay, Busy
<1> QED
  BY <1>1, <1>2 DEF StdioInv, Ordered, AnsweredOrCut, VerdictsKept, StatusAnswered

\* A line that is read; what is asked of the earlier ones does not change.
LEMMA ReadAdds ==
  ASSUME lines \in Seq(Line), NEW line \in Line, Stdio!Read(line)
  PROVE  /\ lines' \in Seq(Line) /\ Len(lines) \in Nat /\ Len(lines') = Len(lines) + 1
         /\ \A n \in 1 .. Len(lines) : lines'[n] = lines[n]
         /\ lines'[Len(lines')] = line
BY DEF Stdio!Read

LEMMA StdioFacts ==
  ASSUME StdioInv
  PROVE  /\ \A i \in DOMAIN replies :
              /\ i \in Nat /\ i < Len(replies) + 1
              /\ replies[i].id \in Nat /\ replies[i].id <= Len(lines)
         /\ Len(replies) + 1 \notin DOMAIN replies /\ Len(replies) \in Nat
         /\ Len(lines) \in Nat /\ lines \in Seq(Line) /\ replies \in Seq(Reply1)
         /\ DOMAIN stored \subseteq 1 .. Len(lines) /\ cut \subseteq 1 .. Len(lines)
<1>1. DOMAIN replies = 1 .. Len(replies) /\ Len(replies) \in Nat /\ Len(lines) \in Nat
  BY DEF StdioInv, StdioType
<1>2. \A i \in 1 .. Len(replies) : replies[i] \in Reply1
  BY DEF StdioInv, StdioType
<1>3. \A i \in DOMAIN replies : replies[i].id \in Nat
  BY <1>1, <1>2 DEF Reply1
<1> QED BY <1>1, <1>3 DEF StdioInv, StdioType, Ordered

\* What an answer to a new request adds.
LEMMA AddedFacts ==
  ASSUME StdioInv, NEW hasId \in BOOLEAN, NEW id \in Nat \ {0}, NEW outcome, Added(hasId, id, outcome),
         \A i \in DOMAIN replies : replies[i].id < id
  PROVE  /\ \A i \in DOMAIN replies' :
              \/ i \in DOMAIN replies /\ replies'[i] = replies[i]
              \/ replies'[i].id \in {0, id} /\ replies'[i].outcome = outcome
         /\ \A i \in DOMAIN replies' : replies'[i].id <= id
         /\ \A i, j \in DOMAIN replies' :
              i < j /\ replies'[i].id # 0 /\ replies'[j].id # 0 =>
                replies'[i].id < replies'[j].id
         /\ \A n \in Nat : n # 0 /\ n # id =>
              ((\A i \in DOMAIN replies' : replies'[i].id # n)
                 <=> (\A i \in DOMAIN replies : replies[i].id # n))
<1> DEFINE k == Len(replies) + 1
<1>1. /\ \A i \in DOMAIN replies : i \in Nat /\ i < k /\ replies[i].id \in Nat
      /\ k \in Nat /\ k \notin DOMAIN replies
  BY StdioFacts
<1>2. \A i, j \in DOMAIN replies :
        i < j /\ replies[i].id # 0 /\ replies[j].id # 0 => replies[i].id < replies[j].id
  BY DEF StdioInv, Ordered
<1>3. CASE ~hasId /\ replies' = replies
  BY <1>1, <1>2, <1>3
<1>4. CASE /\ DOMAIN replies' = DOMAIN replies \cup {k}
           /\ \A i \in DOMAIN replies : replies'[i] = replies[i]
           /\ replies'[k].id = IF hasId THEN id ELSE 0
           /\ replies'[k].outcome = outcome
  <2> HIDE DEF k
  <2>1. \A i \in DOMAIN replies' :
          \/ i \in DOMAIN replies /\ replies'[i] = replies[i]
          \/ i = k /\ replies'[i].id \in {0, id} /\ replies'[i].outcome = outcome
    BY <1>4
  <2>2. \A i \in DOMAIN replies' : replies'[i].id <= id
    BY <1>1, <2>1
  <2>3. ASSUME NEW i \in DOMAIN replies', NEW j \in DOMAIN replies', i < j,
               replies'[i].id # 0, replies'[j].id # 0
        PROVE  replies'[i].id < replies'[j].id
    <3>1. i \in DOMAIN replies
      BY <1>1, <2>1, <2>3
    <3>2. CASE j \in DOMAIN replies
      BY <1>2, <1>4, <2>3, <3>1, <3>2
    <3>3. CASE j = k
      BY <1>4, <2>1, <2>3, <3>1, <3>3
    <3> QED BY <2>1, <3>2, <3>3
  <2>4. ASSUME NEW n \in Nat, n # 0, n # id
        PROVE  (\A i \in DOMAIN replies' : replies'[i].id # n)
                 <=> (\A i \in DOMAIN replies : replies[i].id # n)
    BY <1>4, <2>4
  <2> QED BY <2>1, <2>2, <2>3, <2>4
<1> QED BY <1>3, <1>4 DEF Added

LEMMA DispatchStep ==
  ASSUME StdioInv, NEW hasId \in BOOLEAN, NEW outcome \in {"result", "void", "invalid", "raised"},
         Stdio!Dispatch(hasId, outcome)
  PROVE  StdioInv'
<1> DEFINE line == [hasId |-> hasId, task |-> FALSE]
           now == Len(lines)
<1>1. /\ Stdio!Read(line) /\ loop = "reading"
      /\ replies' = replies \o Stdio!Answers(line, now + 1, outcome)
      /\ UNCHANGED <<loop, tasks, stored, cut, wiped>>
  BY DEF Stdio!Dispatch, Stdio!Read, Stdio!Now
<1>2. /\ line \in Line /\ lines \in Seq(Line) /\ replies \in Seq(Reply1) /\ now \in Nat
      /\ loop' = "reading" /\ loop' \notin Busy
  BY <1>1 DEF Line, StdioInv, StdioType, Busy
<1>3. /\ lines' \in Seq(Line) /\ Len(lines') = now + 1
      /\ \A n \in 1 .. now : lines'[n] = lines[n]
      /\ lines'[now + 1].hasId = hasId
  <2>1. line.hasId = hasId
    OBVIOUS
  <2> HIDE DEF line
  <2>2. /\ lines' \in Seq(Line) /\ Len(lines') = now + 1
        /\ \A n \in 1 .. now : lines'[n] = lines[n]
        /\ lines'[now + 1] = line
    BY <1>1, <1>2, ReadAdds
  <2> QED BY <2>1, <2>2
<1>4. Added(hasId, now + 1, outcome)
  <2>1. line.hasId = hasId
    OBVIOUS
  <2>a. now + 1 \in Nat
    BY <1>2
  <2>b. outcome \in Outcomes
    BY DEF Outcomes
  <2> HIDE DEF line
  <2>2. Added(line.hasId, now + 1, outcome)
    BY <1>1, <1>2, <2>1, <2>a, <2>b, AnswerAdds
  <2> QED BY <2>1, <2>2
<1>5. outcome \notin Stdio!Verdicts
  BY DEF Stdio!Verdicts
<1>6. /\ \A i \in DOMAIN replies : replies[i].id \in Nat /\ replies[i].id < now + 1
      /\ DOMAIN stored \subseteq 1 .. now /\ cut \subseteq 1 .. now
  BY <1>2, StdioFacts
<1> HIDE DEF now, line
<1>7. StdioType' /\ UnderWay'
  BY <1>1, <1>2, <1>3, <1>4, <1>6 DEF StdioInv, StdioType, UnderWay, Added, now
<1>8. now + 1 \in Nat \ {0}
  BY <1>2
<1>9. /\ Ordered'
      /\ hasId => \E i \in DOMAIN replies' : replies'[i].id = now + 1
      /\ \A n \in Nat : n # 0 /\ n # now + 1 =>
           ((\A i \in DOMAIN replies' : replies'[i].id # n)
              <=> (\A i \in DOMAIN replies : replies[i].id # n))
  <2> USE <1>4, <1>6, <1>8
  <2>1. Ordered'
    BY <1>3, AddedFacts DEF Ordered
  <2>2. ASSUME hasId PROVE \E i \in DOMAIN replies' : replies'[i].id = now + 1
    BY <2>2 DEF Added
  <2>3. \A n \in Nat : n # 0 /\ n # now + 1 =>
          ((\A i \in DOMAIN replies' : replies'[i].id # n)
             <=> (\A i \in DOMAIN replies : replies[i].id # n))
    BY AddedFacts
  <2> QED BY <2>1, <2>2, <2>3
<1>10. AnsweredOrCut'
  <2>1. ASSUME NEW n \in 1 .. now, lines[n].hasId
        PROVE  n \in cut <=> \A i \in DOMAIN replies' : replies'[i].id # n
    <3>1. n \in cut <=> \A i \in DOMAIN replies : replies[i].id # n
      BY <1>1, <2>1 DEF StdioInv, AnsweredOrCut, Busy, now
    <3>2. n \in Nat /\ n # 0 /\ n # now + 1
      BY <1>2
    <3> QED BY <1>9, <3>1, <3>2
  <2>2. hasId => now + 1 \notin cut /\ \E i \in DOMAIN replies' : replies'[i].id = now + 1
    BY <1>2, <1>6, <1>9
  <2>3. ASSUME NEW n \in 1 .. Len(lines'), lines'[n].hasId
        PROVE  n \in cut' <=> \A i \in DOMAIN replies' : replies'[i].id # n
    <3>1. n \in 1 .. now \/ n = now + 1
      BY <1>2, <1>3
    <3> QED BY <1>1, <1>3, <2>1, <2>2, <2>3, <3>1
  <2> QED BY <2>3 DEF AnsweredOrCut
<1>11. VerdictsKept'
  <2>1. ASSUME NEW i \in DOMAIN replies', replies'[i].outcome \in Stdio!Verdicts
        PROVE  i \in DOMAIN replies /\ replies'[i] = replies[i]
    BY <1>4, <1>5, <1>6, <1>8, <2>1, AddedFacts
  <2> QED BY <1>1, <2>1 DEF StdioInv, VerdictsKept
<1>12. StatusAnswered'
  <2>1. ASSUME NEW n \in DOMAIN stored, NEW i \in DOMAIN replies', replies'[i].id = n
        PROVE  i \in DOMAIN replies /\ replies'[i] = replies[i]
    <3>1. n \in Nat /\ n # 0 /\ n # now + 1
      BY <1>2, <1>6
    <3> QED BY <1>4, <1>6, <1>8, <2>1, <3>1, AddedFacts
  <2> QED BY <1>1, <2>1 DEF StdioInv, StatusAnswered
<1> QED BY <1>7, <1>9, <1>10, <1>11, <1>12 DEF StdioInv

\* A step that touches the entry of the request under way only, or leaves the
\* file truncated.
Rewrites ==
  /\ wiped' \in BOOLEAN /\ (wiped => wiped')
  /\ DOMAIN stored' \subseteq DOMAIN stored \cup {Len(lines)}
  /\ \A n \in DOMAIN stored' : n # Len(lines) => stored'[n] = stored[n]
  /\ \A n \in DOMAIN stored : n \in DOMAIN stored' \/ wiped'

LEMMA SaveRewrites ==
  ASSUME StdioInv, loop \in Busy, NEW st, Stdio!Save(st), UNCHANGED wiped
  PROVE  /\ Rewrites /\ tasks' = stored'
         /\ Len(lines) \in DOMAIN stored' /\ stored'[Len(lines)] = st
BY DEF StdioInv, StdioType, UnderWay, Stdio!Save, Stdio!Now, Rewrites

LEMMA WriteRewrites ==
  ASSUME StdioInv, NEW wipes \in BOOLEAN, Stdio!WriteEnds(wipes)
  PROVE  Rewrites
BY DEF StdioInv, StdioType, Stdio!WriteEnds, Rewrites

\* An answer to the request under way, with what became of its task.
LEMMA ReplyStep ==
  ASSUME StdioInv, loop \in Busy, NEW outcome \in {"raised", "done", "timeout", "failed"},
         Stdio!Reply(outcome), Rewrites, UNCHANGED <<lines, cut>>,
         outcome # "raised" =>
           Len(lines) \in DOMAIN stored' /\ stored'[Len(lines)] = outcome
  PROVE  StdioInv'
<1> DEFINE now == Len(lines)
           line == lines[now]
<1>1. /\ now \in Nat \ {0} /\ now \notin cut /\ DOMAIN stored \subseteq 1 .. now
      /\ lines \in Seq(Line) /\ replies \in Seq(Reply1) /\ line \in Line
      /\ \A i \in DOMAIN replies : replies[i].id \in Nat /\ replies[i].id < now
      /\ \A i \in DOMAIN replies : replies[i].id # now
  BY StdioFacts DEF StdioInv, UnderWay
<1>2. /\ loop' = "reading" /\ loop' \notin Busy
      /\ replies' = replies \o Stdio!Answers(line, now, outcome)
  BY DEF Stdio!Reply, Stdio!Now, Busy
<1>3. line.hasId \in BOOLEAN /\ outcome \in Outcomes
  BY <1>1 DEF Line, Outcomes
<1> HIDE DEF now, line
<1>4. Added(line.hasId, now, outcome)
  BY <1>1, <1>2, <1>3, AnswerAdds
<1>5. lines' = lines /\ cut' = cut /\ Len(lines') = now
  BY DEF now
<1>6. \A i \in DOMAIN replies' :
        \/ i \in DOMAIN replies /\ replies'[i] = replies[i]
        \/ replies'[i].id \in {0, now} /\ replies'[i].outcome = outcome
  BY <1>1, <1>3, <1>4, AddedFacts
<1>7. Ordered'
  BY <1>1, <1>3, <1>4, <1>5, AddedFacts DEF Ordered
<1>8. /\ wiped' \in BOOLEAN /\ (wiped => wiped')
      /\ DOMAIN stored' \subseteq DOMAIN stored \cup {now}
      /\ \A n \in DOMAIN stored' : n # now => stored'[n] = stored[n]
      /\ \A n \in DOMAIN stored : n \in DOMAIN stored' \/ wiped'
  BY DEF Rewrites, now
<1>9. StdioType' /\ UnderWay'
  <2>1. DOMAIN stored' \subseteq 1 .. now
    BY <1>1, <1>8
  <2> QED
    BY <1>1, <1>2, <1>4, <1>5, <1>8, <2>1 DEF StdioInv, StdioType, UnderWay, Added, now
<1>10. AnsweredOrCut'
  <2> SUFFICES ASSUME NEW n \in 1 .. now, lines[n].hasId
               PROVE  n \in cut <=> \A i \in DOMAIN replies' : replies'[i].id # n
    BY <1>5 DEF AnsweredOrCut
  <2>1. CASE n # now
    <3>1. n \in cut <=> \A i \in DOMAIN replies : replies[i].id # n
      BY <2>1 DEF StdioInv, AnsweredOrCut, now
    <3>2. n \in Nat /\ n # 0
      BY <1>1
    <3> QED BY <1>1, <1>3, <1>4, <2>1, <3>1, <3>2, AddedFacts
  <2>2. CASE n = now
    <3>1. \E i \in DOMAIN replies' : replies'[i].id = now
      BY <1>4, <2>2 DEF Added, line
    <3> QED BY <1>1, <2>2, <3>1
  <2> QED BY <2>1, <2>2
<1>11. VerdictsKept'
  <2> SUFFICES ASSUME NEW i \in DOMAIN replies', replies'[i].outcome \in Stdio!Verdicts,
                      replies'[i].id # 0
               PROVE  IF replies'[i].id \in DOMAIN stored'
                        THEN stored'[replies'[i].id] = replies'[i].outcome
                        ELSE wiped'
    BY DEF VerdictsKept
  <2>1. CASE i \in DOMAIN replies /\ replies'[i] = replies[i]
    <3>1. replies[i].id # now
      BY <1>1, <2>1
    <3>2. IF replies[i].id \in DOMAIN stored
            THEN stored[replies[i].id] = replies[i].outcome
            ELSE wiped
      BY <2>1 DEF StdioInv, VerdictsKept
    <3> QED BY <1>8, <2>1, <3>1, <3>2
  <2>2. CASE replies'[i].id \in {0, now} /\ replies'[i].outcome = outcome
    <3>1. outcome # "raised"
      BY <2>2 DEF Stdio!Verdicts
    <3> QED BY <2>2, <3>1 DEF now
  <2> QED BY <1>6, <2>1, <2>2
<1>12. StatusAnswered'
  <2> SUFFICES ASSUME NEW n \in DOMAIN stored', n \notin cut, stored'[n] \notin Stdio!Verdicts,
                      NEW i \in DOMAIN replies', replies'[i].id = n
               PROVE  replies'[i].outcome = "raised"
    BY <1>5 DEF StatusAnswered
  <2>1. CASE n = now
    <3>1. outcome = "raised"
      BY <2>1 DEF Stdio!Verdicts, now
    <3> QED BY <1>1, <1>6, <2>1, <3>1
  <2>2. CASE n # now
    <3>1. n \in DOMAIN stored /\ stored'[n] = stored[n] /\ n # 0
      BY <1>1, <1>8, <2>2
    <3>2. i \in DOMAIN replies /\ replies'[i] = replies[i]
      BY <1>6, <2>2, <3>1
    <3> QED BY <3>1, <3>2 DEF StdioInv, StatusAnswered
  <2> QED BY <2>1, <2>2
<1> QED BY <1>7, <1>9, <1>10, <1>11, <1>12 DEF StdioInv

\* A step that reads and answers nothing.
LEMMA QuietStep ==
  ASSUME StdioInv, UNCHANGED <<lines, replies, cut>>, Rewrites,
         \/ /\ loop \in Busy /\ loop' \in Busy
            /\ tasks' = stored'
            /\ loop' = "replying" => VerdictWritten'
         \/ /\ loop \in {"reading", "down"} /\ loop' \in {"reading", "down"}
            /\ stored' = stored
  PROVE  StdioInv'
<1> DEFINE now == Len(lines)
<1>1. /\ DOMAIN stored \subseteq 1 .. now /\ now \in Nat
      /\ \A i \in DOMAIN replies : replies[i].id \in Nat
      /\ \A n \in DOMAIN stored' : n # now => n \in DOMAIN stored /\ stored'[n] = stored[n]
      /\ DOMAIN stored' \subseteq DOMAIN stored \cup {now}
      /\ \A n \in DOMAIN stored : n \in DOMAIN stored' \/ wiped'
      /\ wiped' \in BOOLEAN /\ (wiped => wiped')
  BY StdioFacts DEF Rewrites
<1>2. \/ /\ loop \in Busy /\ loop' \in Busy /\ tasks' = stored'
         /\ loop' = "replying" => VerdictWritten'
         /\ now >= 1 /\ now \notin cut /\ \A i \in DOMAIN replies : replies[i].id # now
      \/ stored' = stored /\ loop \notin Busy /\ loop' \notin Busy
  BY DEF StdioInv, UnderWay, Busy
<1>3. StdioType'
  <2>1. DOMAIN stored' \subseteq 1 .. now
    BY <1>1, <1>2
  <2>2. loop' \in {"reading", "down"} \cup Busy
    OBVIOUS
  <2> QED BY <1>1, <2>1, <2>2 DEF StdioInv, StdioType
<1>4. UnderWay'
  BY <1>2 DEF UnderWay
<1>5. Ordered' /\ AnsweredOrCut'
  BY <1>2 DEF StdioInv, Ordered, AnsweredOrCut
<1>6. VerdictsKept'
  <2> SUFFICES ASSUME NEW i \in DOMAIN replies, replies[i].outcome \in Stdio!Verdicts,
                      replies[i].id # 0
               PROVE  IF replies[i].id \in DOMAIN stored'
                        THEN stored'[replies[i].id] = replies[i].outcome
                        ELSE wiped'
    BY DEF VerdictsKept
  <2>1. IF replies[i].id \in DOMAIN stored
          THEN stored[replies[i].id] = replies[i].outcome
          ELSE wiped
    BY DEF StdioInv, VerdictsKept
  <2> QED BY <1>1, <1>2, <2>1
<1>7. StatusAnswered'
  BY <1>1, <1>2 DEF StdioInv, StatusAnswered
<1> QED BY <1>3, <1>4, <1>5, <1>6, <1>7 DEF StdioInv

\* A line that has no answer, or not yet.
LEMMA LineStep ==
  ASSUME StdioInv, NEW line \in Line, Stdio!Read(line),
         UNCHANGED <<replies, stored, cut, wiped>>,
         \/ loop' = "down" /\ ~line.hasId
         \/ loop' \in Busy \ {"replying"} /\ tasks' = stored
  PROVE  StdioInv'
<1> DEFINE now == Len(lines)
<1>1. /\ lines \in Seq(Line) /\ now \in Nat /\ loop = "reading"
      /\ DOMAIN stored \subseteq 1 .. now /\ cut \subseteq 1 .. now
      /\ \A i \in DOMAIN replies : replies[i].id \in Nat /\ replies[i].id <= now
  BY StdioFacts DEF Stdio!Read
<1>2. /\ lines' \in Seq(Line) /\ Len(lines') = now + 1
      /\ \A n \in 1 .. now : lines'[n] = lines[n]
      /\ lines'[now + 1] = line
  BY <1>1, ReadAdds
<1> HIDE DEF now
<1>3. StdioType'
  BY <1>1, <1>2 DEF StdioInv, StdioType, Busy
<1>4. UnderWay'
  BY <1>1, <1>2 DEF UnderWay, Busy
<1>5. Ordered' /\ VerdictsKept' /\ StatusAnswered'
  BY <1>1, <1>2 DEF StdioInv, Ordered, VerdictsKept, StatusAnswered
<1>6. AnsweredOrCut'
  <2> SUFFICES ASSUME NEW n \in 1 .. (now + 1), lines'[n].hasId, loop' \in Busy => n # now + 1
               PROVE  n \in cut <=> \A i \in DOMAIN replies : replies[i].id # n
    BY <1>2 DEF AnsweredOrCut
  <2>1. n \in 1 .. now
    BY <1>1, <1>2
  <2> QED BY <1>1, <1>2, <2>1 DEF StdioInv, AnsweredOrCut, Busy, now
<1> QED BY <1>3, <1>4, <1>5, <1>6 DEF StdioInv

LEMMA KillStep ==
  ASSUME StdioInv, NEW wipes \in BOOLEAN, Stdio!Kill(wipes) PROVE StdioInv'
<1> DEFINE now == Len(lines)
<1>1. /\ UNCHANGED <<lines, replies, tasks>> /\ loop' = "down" /\ loop' \notin Busy
      /\ \/ loop = "reading" /\ cut' = cut /\ stored' = stored /\ wiped' = wiped
         \/ loop \in Busy /\ cut' = cut \cup {now}
      /\ Stdio!WriteEnds(wipes)
  BY DEF Stdio!Kill, Stdio!WriteEnds, Stdio!Saving, Stdio!Now, StdioInv, StdioType, Busy
<1>2. /\ now \in Nat /\ DOMAIN stored \subseteq 1 .. now
      /\ DOMAIN stored' = {} \/ stored' = stored
      /\ wiped' \in BOOLEAN /\ (wiped => wiped') /\ (stored' # stored => wiped')
  BY <1>1, StdioFacts DEF Stdio!WriteEnds, StdioInv, StdioType
<1>3. loop \in Busy => now >= 1 /\ now \notin cut /\ \A i \in DOMAIN replies : replies[i].id # now
  BY DEF StdioInv, UnderWay
<1>4. cut \subseteq cut' /\ cut' \subseteq 1 .. now
  BY <1>1, <1>2, <1>3, StdioFacts
<1>5. StdioType' /\ UnderWay' /\ Ordered'
  BY <1>1, <1>2, <1>4 DEF StdioInv, StdioType, UnderWay, Ordered
<1>6. AnsweredOrCut'
  BY <1>1, <1>3 DEF StdioInv, AnsweredOrCut, Busy
<1>7. VerdictsKept'
  BY <1>1, <1>2 DEF StdioInv, VerdictsKept
<1>8. StatusAnswered'
  BY <1>1, <1>2, <1>4 DEF StdioInv, StatusAnswered
<1> QED BY <1>5, <1>6, <1>7, <1>8 DEF StdioInv

LEMMA StdioStep == StdioInv /\ Stdio!Next => StdioInv'
<1> SUFFICES ASSUME StdioInv, Stdio!Next PROVE StdioInv'
  OBVIOUS
<1>1. ASSUME NEW hasId \in BOOLEAN, Stdio!OpenQueue(hasId) PROVE StdioInv'
  <2> DEFINE line == [hasId |-> hasId, task |-> TRUE]
  <2>1. line \in Line /\ Stdio!Read(line) /\ loop' \in Busy \ {"replying"} /\ tasks' = stored
        /\ UNCHANGED <<replies, stored, cut, wiped>>
    BY <1>1 DEF Stdio!OpenQueue, Line, Busy
  <2> HIDE DEF line
  <2> QED BY <2>1, LineStep
<1>2. CASE Stdio!Undecodable
  <2> DEFINE line == [hasId |-> FALSE, task |-> FALSE]
  <2>1. line \in Line /\ Stdio!Read(line) /\ loop' = "down" /\ ~line.hasId
        /\ UNCHANGED <<replies, stored, cut, wiped>>
    BY <1>2 DEF Stdio!Undecodable, Line
  <2> HIDE DEF line
  <2> QED BY <2>1, LineStep
<1>3. CASE Stdio!AddTask \/ Stdio!MarkRunning
  <2>1. /\ loop \in Busy /\ loop' \in Busy \ {"replying"}
        /\ UNCHANGED <<lines, replies, cut, wiped>>
        /\ \E st \in {"queued", "running"} : Stdio!Save(st)
    BY <1>3 DEF Stdio!AddTask, Stdio!MarkRunning, Busy
  <2>2. Rewrites /\ tasks' = stored'
    BY <2>1, SaveRewrites
  <2> QED BY <2>1, <2>2, QuietStep
<1>4. CASE Stdio!EndOfInput \/ Stdio!Start
  <2>1. /\ loop \in {"reading", "down"} /\ loop' \in {"reading", "down"}
        /\ UNCHANGED <<lines, replies, stored, cut, wiped>>
    BY <1>4 DEF Stdio!EndOfInput, Stdio!Start
  <2>2. Rewrites
    BY <2>1 DEF Rewrites, StdioInv, StdioType
  <2> QED BY <2>1, <2>2, QuietStep
<1>5. ASSUME NEW v \in Stdio!Verdicts, Stdio!SaveVerdict(v) PROVE StdioInv'
  <2>1. /\ loop \in Busy /\ loop' = "replying" /\ UNCHANGED <<lines, replies, cut, wiped>>
        /\ Stdio!Save(v)
    BY <1>5 DEF Stdio!SaveVerdict, Busy
  <2>2. Rewrites /\ tasks' = stored' /\ Len(lines) \in DOMAIN stored' /\ stored'[Len(lines)] = v
    BY <2>1, SaveRewrites
  <2>3. VerdictWritten' /\ loop' \in Busy
    BY <2>1, <2>2 DEF VerdictWritten, Busy
  <2> QED BY <2>1, <2>2, <2>3, QuietStep
<1>8. CASE Stdio!Finish
  <2> DEFINE v == stored[Len(lines)]
  <2>1. /\ loop = "replying" /\ loop \in Busy /\ UNCHANGED <<lines, stored, cut, wiped>>
        /\ Stdio!Reply(tasks[Len(lines)])
    BY <1>8 DEF Stdio!Finish, Stdio!Now, Busy
  <2>2. tasks = stored /\ VerdictWritten
    BY <2>1 DEF StdioInv, UnderWay
  <2>3. /\ Len(lines) \in DOMAIN stored' /\ stored'[Len(lines)] = v
        /\ v \in {"raised", "done", "timeout", "failed"} /\ Stdio!Reply(v)
    BY <2>1, <2>2 DEF VerdictWritten, Stdio!Verdicts
  <2>4. Rewrites
    BY <2>1 DEF Rewrites, StdioInv, StdioType
  <2> HIDE DEF v
  <2> QED BY <2>1, <2>3, <2>4, ReplyStep
<1>6. CASE Stdio!ExecuteRaises
  <2>1. loop \in Busy /\ Stdio!Reply("raised") /\ UNCHANGED <<lines, stored, cut, wiped>>
    BY <1>6 DEF Stdio!ExecuteRaises, Busy
  <2>2. Rewrites
    BY <2>1 DEF Rewrites, StdioInv, StdioType
  <2> QED BY <2>1, <2>2, ReplyStep
<1>7. ASSUME NEW wipes \in BOOLEAN, Stdio!SaveFails(wipes) PROVE StdioInv'
  <2>1. /\ loop \in Busy /\ Stdio!Reply("raised") /\ UNCHANGED <<lines, cut>>
        /\ Stdio!WriteEnds(wipes)
    BY <1>7 DEF Stdio!SaveFails, Stdio!Saving, Busy
  <2>2. Rewrites
    BY <2>1, WriteRewrites
  <2> QED BY <2>1, <2>2, ReplyStep
<1> QED
  BY <1>1, <1>2, <1>3, <1>4, <1>5, <1>6, <1>7, <1>8, DispatchStep, KillStep DEF Stdio!Next

LEMMA StdioCardinality == ASSUME NEW S PROVE Stdio!Cardinality(S) = Cardinality(S)
BY DEF Stdio!Cardinality, Cardinality

\* Answers in order are no two to the same request.
LEMMA OneAnswerEach ==
  ASSUME StdioInv, loop = "reading", NEW n \in DOMAIN lines, lines[n].hasId
  PROVE  Cardinality(Stdio!AnswersTo(n)) = IF n \in cut THEN 0 ELSE 1
<1>1. n \in 1 .. Len(lines) /\ loop \notin Busy
  BY DEF StdioInv, StdioType, Busy
<1>2. n \in cut <=> \A i \in DOMAIN replies : replies[i].id # n
  BY <1>1 DEF StdioInv, AnsweredOrCut
<1>3. CASE n \in cut
  <2>1. Stdio!AnswersTo(n) = {}
    BY <1>2, <1>3 DEF Stdio!AnswersTo
  <2> QED BY <1>3, <2>1, FS_EmptySet
<1>4. CASE n \notin cut
  <2>1. PICK i \in DOMAIN replies : replies[i].id = n
    BY <1>2, <1>4
  <2>2. ASSUME NEW j \in DOMAIN replies, replies[j].id = n PROVE j = i
    <3>1. i \in Nat /\ j \in Nat /\ n # 0 /\ n \in Nat
      BY <1>1, <2>1 DEF StdioInv, StdioType
    <3>2. ~ (i < j) /\ ~ (j < i)
      BY <2>1, <2>2, <3>1 DEF StdioInv, Ordered
    <3> QED BY <3>1, <3>2
  <2>3. Stdio!AnswersTo(n) = {i}
    BY <2>1, <2>2 DEF Stdio!AnswersTo
  <2> QED BY <1>4, <2>3, FS_Singleton
<1> QED BY <1>3, <1>4

LEMMA StdioTells == StdioInv => RepliesTrue
<1> SUFFICES ASSUME StdioInv PROVE RepliesTrue
  OBVIOUS
<1>1. \A i, j \in DOMAIN replies :
        i < j /\ 0 \notin {replies[i].id, replies[j].id} => replies[i].id < replies[j].id
  BY DEF StdioInv, Ordered
<1>2. loop = "reading" =>
        \A n \in DOMAIN lines :
          lines[n].hasId => Stdio!Cardinality(Stdio!AnswersTo(n)) = IF n \in cut THEN 0 ELSE 1
  BY OneAnswerEach, StdioCardinality
<1>3. \A n \in DOMAIN stored :
        n \in cut \/ stored[n] \in Stdio!Verdicts
          \/ \A i \in Stdio!AnswersTo(n) : replies[i].outcome = "raised"
  BY DEF StdioInv, StatusAnswered, Stdio!AnswersTo
<1> QED
  BY <1>1, <1>2, <1>3
  DEF RepliesTrue, Stdio!RepliesTrue, Stdio!Null, StdioInv, VerdictsKept

LEMMA StdioStutter == StdioInv /\ UNCHANGED stdio => StdioInv'
BY DEF stdio, StdioInv, StdioType, UnderWay, VerdictWritten, Ordered, AnsweredOrCut,
       VerdictsKept, StatusAnswered

LEMMA StdioOrAnother == StdioInv /\ [LibraryNext]_LibraryVars => StdioInv'
<1> SUFFICES ASSUME StdioInv, [LibraryNext]_LibraryVars PROVE StdioInv'
  OBVIOUS
<1>1. Stdio!Next \/ UNCHANGED stdio
  BY DEF LibraryNext, LibraryVars
<1> QED BY <1>1, StdioStep, StdioStutter

\* A client of the MCP server can rely on what it is told (mcp/server.py main,
\* dispatch; handlers.py task_execute): for any number of lines, processes and
\* failed writes, each request that did not end its process has one answer, in
\* the order of the requests, and a task the status its answer names.
THEOREM RepliesAlwaysTrue == LibrarySpec => []RepliesTrue
<1>1. LibraryInit => StdioInv
  BY StdioInitInv DEF LibraryInit
<1> QED BY <1>1, StdioOrAnother, StdioTells, PTL DEF LibrarySpec

-----------------------------------------------------------------------------
(* Decomposer: what the depth-first search says of the rounds              *)

LEMMA TaskCardinality == ASSUME NEW S PROVE Tasking!Cardinality(S) = Cardinality(S)
BY DEF Tasking!Cardinality, Cardinality

\* The place of a number in a finite set in ascending order.
Rank(S, t) == Cardinality({u \in S : u <= t})

LEMMA RankRises ==
  ASSUME NEW S \in SUBSET Int, IsFiniteSet(S), NEW t \in S
  PROVE  /\ Rank(S, t) \in 1 .. Cardinality(S)
         /\ \A u \in S : t < u => Rank(S, t) < Rank(S, u)
<1> DEFINE Below(v) == {w \in S : w <= v}
<1>1. \A v \in S : /\ IsFiniteSet(Below(v)) /\ Cardinality(Below(v)) \in Nat
                   /\ Cardinality(Below(v)) <= Cardinality(S)
  BY FS_Subset, FS_CardinalityType
<1>2. Cardinality(Below(t)) # 0
  <2>1. t \in Below(t)
    OBVIOUS
  <2> QED BY <1>1, <2>1, FS_EmptySet
<1>3. ASSUME NEW u \in S, t < u PROVE Cardinality(Below(t)) < Cardinality(Below(u))
  <2>1. Below(t) \in SUBSET Below(u) /\ u \in Below(u) /\ u \notin Below(t)
    <3>1. t \in Int /\ u \in Int /\ \A w \in S : w \in Int
      OBVIOUS
    <3>2. \A w \in S : w <= t => w <= u
      BY <1>3, <3>1
    <3>3. u <= u /\ ~ (u <= t)
      BY <1>3, <3>1
    <3> QED BY <3>2, <3>3
  <2> HIDE DEF Below
  <2>2. /\ Cardinality(Below(t)) <= Cardinality(Below(u))
        /\ Cardinality(Below(u)) # Cardinality(Below(t))
    BY <1>1, <2>1, FS_Subset
  <2> QED BY <1>1, <2>2
<1>4. Cardinality(S) \in Nat
  BY FS_CardinalityType
<1> QED BY <1>1, <1>2, <1>3, <1>4 DEF Rank

\* A finite set of numbers has a list in ascending order.
LEMMA SortedList ==
  ASSUME NEW S \in SUBSET Int, IsFiniteSet(S)
  PROVE  \E s \in [1 .. Cardinality(S) -> S] :
           \A i, j \in DOMAIN s : i < j => s[i] < s[j]
<1> DEFINE n == Cardinality(S)
           rank == [t \in S |-> Rank(S, t)]
           s == [i \in 1 .. n |-> CHOOSE t \in S : rank[t] = i]
<1>1. n \in Nat /\ rank \in [S -> 1 .. n]
  BY RankRises, FS_CardinalityType
<1>2. \A t, u \in S : t < u => rank[t] < rank[u]
  BY RankRises
<1> HIDE DEF n
<1>3. IsFiniteSet(1 .. n) /\ Cardinality(1 .. n) = n
  BY <1>1, FS_Interval
<1> HIDE DEF rank
<1>4. rank \in Injection(S, 1 .. n)
  <2> SUFFICES ASSUME NEW t \in S, NEW u \in S, rank[t] = rank[u] PROVE t = u
    BY <1>1 DEF Injection, IsInjective
  <2>1. rank[t] \in Int /\ t \in Int /\ u \in Int
    BY <1>1
  <2> QED BY <1>2, <2>1
<1>5. rank \in Surjection(S, 1 .. n)
  BY <1>3, <1>4, FS_Injection DEF n
<1>6. \A i \in 1 .. n : s[i] \in S /\ rank[s[i]] = i
  BY <1>5 DEF Surjection
<1>7. s \in [1 .. n -> S]
  BY <1>6
<1> HIDE DEF s
<1>8. ASSUME NEW i \in 1 .. n, NEW j \in 1 .. n, i < j PROVE s[i] < s[j]
  <2>1. s[i] \in Int /\ s[j] \in Int /\ i \in Int /\ j \in Int
    <3>1. s[i] \in S /\ s[j] \in S
      BY <1>7
    <3>2. i \in Int /\ j \in Int
      BY <1>1
    <3>3. \A v \in S : v \in Int
      OBVIOUS
    <3> QED BY ONLY <3>1, <3>2, <3>3
  <2>2. ~ (s[j] < s[i]) /\ s[i] # s[j]
    BY <1>2, <1>6, <1>8, <2>1
  <2> QED BY <2>1, <2>2
<1> QED BY <1>7, <1>8 DEF n

LEMMA ListOf ==
  ASSUME NEW S \in SUBSET Int, IsFiniteSet(S)
  PROVE  /\ Tasking!InOrder(S) \in Seq(S)
         /\ {Tasking!InOrder(S)[i] : i \in DOMAIN Tasking!InOrder(S)} = S
<1> DEFINE n == Cardinality(S)
           s == Tasking!InOrder(S)
<1>1. s \in [1 .. n -> S] /\ \A i, j \in DOMAIN s : i < j => s[i] < s[j]
  BY SortedList, TaskCardinality DEF Tasking!InOrder
<1>2. n \in Nat /\ IsFiniteSet(1 .. n) /\ Cardinality(1 .. n) = n
  BY FS_CardinalityType, FS_Interval
<1> HIDE DEF n, s
<1>3. s \in Injection(1 .. n, S)
  <2> SUFFICES ASSUME NEW i \in 1 .. n, NEW j \in 1 .. n, s[i] = s[j] PROVE i = j
    BY <1>1 DEF Injection, IsInjective
  <2>1. s[i] \in S /\ s[i] \in Int /\ i \in Int /\ j \in Int
    <3>1. s[i] \in S
      BY <1>1
    <3>2. i \in Int /\ j \in Int
      BY <1>2
    <3>3. \A v \in S : v \in Int
      OBVIOUS
    <3> QED BY ONLY <3>1, <3>2, <3>3
  <2>2. ~ (i < j) /\ ~ (j < i)
    BY <1>1, <2>1
  <2> QED BY <2>1, <2>2
<1>4. s \in Surjection(1 .. n, S)
  BY <1>2, <1>3, FS_Injection DEF n
<1>5. s \in Seq(S)
  BY <1>1, <1>2
<1>6. \A t \in S : \E i \in 1 .. n : s[i] = t
  BY <1>4 DEF Surjection
<1>7. {s[i] : i \in DOMAIN s} = S
  BY <1>1, <1>6
<1> QED BY <1>5, <1>7 DEF s

TaskIds == Tasking!Tasks \cup {Missing}
Frame == [id : TaskIds, todo : SUBSET TaskIds]

DependsOn(id) == IF id \in Tasking!Tasks THEN deps[id] ELSE {}

\* The ids whose call of has_cycle returned False.
Finished == seen \ recStack

\* In every part of the set somebody depends on nobody of it: no circle, and
\* without a word on paths.
Founded(set) ==
  \A part \in SUBSET set : part # {} => \E t \in part : DependsOn(t) \cap part = {}

Circle(set) == set # {} /\ \A t \in set : deps[t] \cap set # {}

TaskType ==
  /\ deps \in [Tasking!Tasks -> SUBSET TaskIds]
  /\ status \in [Tasking!Tasks -> {"PENDING", "RUNNING", "DONE"}]
  /\ frames \in Seq(Frame) /\ seen \subseteq TaskIds /\ recStack \subseteq seen
  /\ plan \in Seq(Tasking!Tasks) /\ completed \subseteq Tasking!Tasks /\ round \in Nat

\* The calls under way are a path through the graph, and each has seen the
\* dependencies that it is through with return.
SearchStack ==
  /\ recStack = {frames[i].id : i \in DOMAIN frames}
  /\ \A i, j \in DOMAIN frames : frames[i].id = frames[j].id => i = j
  /\ \A i \in DOMAIN frames :
       /\ frames[i].todo \subseteq DependsOn(frames[i].id)
       /\ DependsOn(frames[i].id) \ frames[i].todo \subseteq Finished
  /\ \A i \in DOMAIN frames : i > 1 => frames[i - 1].id \in DependsOn(frames[i].id)

FinishedClosed == \A t \in Finished : DependsOn(t) \subseteq Finished

Search == SearchStack /\ FinishedClosed /\ Founded(Finished)

VerdictTrue ==
  /\ validated = "cycle" => \E set \in SUBSET Tasking!Tasks : Circle(set)
  /\ validated = "missing" => \E t \in Tasking!Tasks : ~ deps[t] \subseteq Tasking!Tasks
  /\ validated = "valid" =>
       Founded(Tasking!Tasks) /\ \A t \in Tasking!Tasks : deps[t] \subseteq Tasking!Tasks
  /\ validated \in {"none", "cycle", "missing", "valid"}

Untouched == at = "empty" => frames = <<>> /\ seen = {} /\ validated = "none" /\ round = 0

\* The list and the set agree, nobody comes before what it depends on, nobody
\* of a circle ever comes, and at the end nobody is left who could.
PlanSound ==
  /\ {plan[i] : i \in DOMAIN plan} = completed
  /\ \A t \in Tasking!Tasks : status[t] = "PENDING" <=> t \notin completed
  /\ round = 0 => plan = <<>>
  /\ round <= Cardinality(completed)
  /\ \A i \in DOMAIN plan : deps[plan[i]] \subseteq {plan[j] : j \in 1 .. i - 1}
  /\ \A set \in SUBSET Tasking!Tasks : Circle(set) => set \cap completed = {}
  /\ at = "planned" => \A t \in Tasking!Tasks \ completed : ~ deps[t] \subseteq completed

TaskInv == TaskType /\ Search /\ VerdictTrue /\ Untouched /\ PlanSound

\* Before a graph is there.
LEMMA NewGraph ==
  ASSUME deps \in [Tasking!Tasks -> SUBSET TaskIds],
         status \in [Tasking!Tasks -> {"PENDING", "RUNNING", "DONE"}],
         \A t \in Tasking!Tasks : status[t] = "PENDING",
         frames = <<>>, seen = {}, recStack = {}, validated = "none", at # "planned",
         plan = <<>>, completed = {}, round = 0
  PROVE  TaskInv
<1>1. Cardinality({}) = 0
  BY FS_EmptySet
<1>2. TaskType
  BY DEF TaskType
<1>3. Search
  BY DEF Search, SearchStack, FinishedClosed, Founded, Finished
<1>4. VerdictTrue /\ Untouched
  BY DEF VerdictTrue, Untouched
<1>5. PlanSound
  BY <1>1 DEF PlanSound
<1> QED BY <1>2, <1>3, <1>4, <1>5 DEF TaskInv

LEMMA Pushed ==
  ASSUME NEW R, NEW s \in Seq(R), NEW r \in R
  PROVE  /\ <<r>> \o s \in Seq(R) /\ Len(<<r>> \o s) = Len(s) + 1
         /\ DOMAIN (<<r>> \o s) = 1 .. (Len(s) + 1)
         /\ (<<r>> \o s)[1] = r
         /\ \A i \in 2 .. (Len(s) + 1) : (<<r>> \o s)[i] = s[i - 1] /\ i - 1 \in DOMAIN s
OBVIOUS

LEMMA Popped ==
  ASSUME NEW R, NEW s \in Seq(R), s # <<>>
  PROVE  /\ Tail(s) \in Seq(R) /\ Head(s) = s[1] /\ 1 \in DOMAIN s
         /\ \A i \in DOMAIN s : i \in Nat
         /\ \A i \in DOMAIN Tail(s) : Tail(s)[i] = s[i + 1] /\ i + 1 \in DOMAIN s
         /\ \A i \in DOMAIN s : i > 1 => i - 1 \in DOMAIN Tail(s) /\ Tail(s)[i - 1] = s[i]
OBVIOUS

\* A call of has_cycle, from the loop over the tasks or from the call above it.
LEMMA OpenStep ==
  ASSUME TaskInv, NEW id \in TaskIds, id \notin seen, Tasking!Open(id), deps' = deps,
         frames # <<>> => id \in DependsOn(frames[1].id)
  PROVE  /\ frames' \in Seq(Frame) /\ seen' \subseteq TaskIds /\ recStack' \subseteq seen'
         /\ Search'
<1> DEFINE todo == IF id \in Tasking!Tasks THEN deps[id] ELSE {}
           r == [id |-> id, todo |-> todo]
<1>1. /\ frames \in Seq(Frame) /\ seen \subseteq TaskIds /\ recStack \subseteq seen
      /\ deps \in [Tasking!Tasks -> SUBSET TaskIds]
  BY DEF TaskInv, TaskType
<1>2. r \in Frame /\ r.id = id /\ r.todo = DependsOn(id)
  BY <1>1 DEF Frame, DependsOn
<1>3. frames' = <<r>> \o frames /\ seen' = seen \cup {id} /\ recStack' = recStack \cup {id}
  BY DEF Tasking!Open
<1> HIDE DEF r
<1>4. /\ frames' \in Seq(Frame) /\ DOMAIN frames' = 1 .. (Len(frames) + 1)
      /\ frames'[1] = r /\ Len(frames) \in Nat
      /\ \A i \in 2 .. (Len(frames) + 1) : frames'[i] = frames[i - 1] /\ i - 1 \in DOMAIN frames
  BY <1>1, <1>2, <1>3, Pushed
<1>5. Finished' = Finished
  BY <1>1, <1>3 DEF Finished
<1>6. \A i \in DOMAIN frames' : i = 1 \/ i \in 2 .. (Len(frames) + 1)
  BY <1>4
<1>7. \A i \in DOMAIN frames : i + 1 \in 2 .. (Len(frames) + 1) /\ frames'[i + 1] = frames[i]
  BY <1>1, <1>4
<1>8. FinishedClosed' /\ Founded(Finished)'
  BY <1>5 DEF TaskInv, Search, FinishedClosed, Founded, DependsOn
<1>9. SearchStack'
  <2>1. /\ recStack = {frames[i].id : i \in DOMAIN frames}
        /\ \A i, j \in DOMAIN frames : frames[i].id = frames[j].id => i = j
        /\ \A i \in DOMAIN frames :
             /\ frames[i].todo \subseteq DependsOn(frames[i].id)
             /\ DependsOn(frames[i].id) \ frames[i].todo \subseteq Finished
        /\ \A i \in DOMAIN frames : i > 1 => frames[i - 1].id \in DependsOn(frames[i].id)
    BY DEF TaskInv, Search, SearchStack
  <2>2. recStack' = {frames'[i].id : i \in DOMAIN frames'}
    <3>1. ASSUME NEW x \in recStack' PROVE \E i \in DOMAIN frames' : frames'[i].id = x
      <4>1. CASE x = id
        BY <1>2, <1>4, <4>1
      <4>2. CASE x \in recStack
        <5>1. PICK i \in DOMAIN frames : frames[i].id = x
          BY <2>1, <4>2
        <5>2. i + 1 \in DOMAIN frames'
          BY <1>4, <1>7
        <5> QED BY <1>7, <5>1, <5>2
      <4> QED BY <1>3, <3>1, <4>1, <4>2
    <3>2. ASSUME NEW i \in DOMAIN frames' PROVE frames'[i].id \in recStack'
      BY <1>2, <1>3, <1>4, <1>6, <2>1
    <3> QED BY <3>1, <3>2
  <2>3. ASSUME NEW i \in DOMAIN frames', NEW j \in DOMAIN frames',
               frames'[i].id = frames'[j].id
        PROVE  i = j
    <3>1. \A k \in 2 .. (Len(frames) + 1) : frames'[k].id \in recStack /\ frames'[k].id # id
      BY <1>1, <1>4, <2>1
    <3>2. CASE i = 1 \/ j = 1
      BY <1>2, <1>4, <1>6, <2>3, <3>1, <3>2
    <3>3. CASE i \in 2 .. (Len(frames) + 1) /\ j \in 2 .. (Len(frames) + 1)
      <4>1. i - 1 = j - 1
        BY <1>4, <2>1, <2>3, <3>3
      <4> QED BY <1>4, <3>3, <4>1
    <3> QED BY <1>6, <3>2, <3>3
  <2>4. \A i \in DOMAIN frames' :
          /\ frames'[i].todo \subseteq DependsOn(frames'[i].id)
          /\ DependsOn(frames'[i].id) \ frames'[i].todo \subseteq Finished
    BY <1>2, <1>4, <1>6, <2>1
  <2>5. \A i \in DOMAIN frames' : i > 1 => frames'[i - 1].id \in DependsOn(frames'[i].id)
    <3> SUFFICES ASSUME NEW i \in DOMAIN frames', i > 1
                 PROVE  frames'[i - 1].id \in DependsOn(frames'[i].id)
      OBVIOUS
    <3>1. i \in 2 .. (Len(frames) + 1) /\ frames'[i] = frames[i - 1] /\ i - 1 \in DOMAIN frames
      BY <1>4, <1>6
    <3>2. CASE i = 2
      <4>1. frames # <<>> /\ frames'[i - 1] = r /\ frames'[i] = frames[1]
        BY <1>1, <1>4, <3>1, <3>2
      <4> QED BY <1>2, <4>1
    <3>3. CASE i > 2
      <4>1. i - 1 \in 2 .. (Len(frames) + 1) /\ (i - 1) - 1 \in DOMAIN frames
            /\ frames'[i - 1] = frames[(i - 1) - 1] /\ i - 1 > 1
        BY <1>4, <3>1, <3>3
      <4> QED BY <2>1, <3>1, <4>1
    <3> QED BY <1>4, <3>1, <3>2, <3>3
  <2> QED BY <1>5, <2>2, <2>3, <2>4, <2>5 DEF SearchStack, DependsOn
<1> QED BY <1>1, <1>3, <1>4, <1>8, <1>9 DEF Search

LEMMA PassOverStep ==
  ASSUME TaskInv, Tasking!PassOver
  PROVE  frames' \in Seq(Frame) /\ Search'
<1>1. PICK d \in Head(frames).todo \cap seen :
        d \notin recStack /\ frames' = [frames EXCEPT ![1].todo = @ \ {d}]
  BY DEF Tasking!PassOver
<1>2. /\ frames \in Seq(Frame) /\ frames # <<>> /\ UNCHANGED <<seen, recStack, deps>>
      /\ 1 \in DOMAIN frames /\ frames[1] \in Frame
  BY DEF TaskInv, TaskType, Tasking!PassOver
<1>3. frames[1].todo \ {d} \in SUBSET TaskIds
  BY <1>2 DEF Frame
<1>4. [frames[1] EXCEPT !.todo = @ \ {d}] \in Frame
  BY <1>2, <1>3 DEF Frame
<1>5. /\ frames' \in Seq(Frame) /\ DOMAIN frames' = DOMAIN frames
      /\ \A i \in DOMAIN frames : i # 1 => frames'[i] = frames[i]
      /\ frames'[1].id = frames[1].id /\ frames'[1].todo = frames[1].todo \ {d}
  BY <1>1, <1>2, <1>4 DEF Frame
<1>6. d \in Finished /\ Finished' = Finished
  BY <1>1, <1>2 DEF Finished
<1>7. /\ recStack = {frames[i].id : i \in DOMAIN frames}
      /\ \A i, j \in DOMAIN frames : frames[i].id = frames[j].id => i = j
      /\ \A i \in DOMAIN frames :
           /\ frames[i].todo \subseteq DependsOn(frames[i].id)
           /\ DependsOn(frames[i].id) \ frames[i].todo \subseteq Finished
      /\ \A i \in DOMAIN frames : i > 1 => frames[i - 1].id \in DependsOn(frames[i].id)
  BY DEF TaskInv, Search, SearchStack
<1>8. \A i \in DOMAIN frames : frames'[i].id = frames[i].id
  BY <1>5
<1>9. \A i \in DOMAIN frames : i > 1 => i - 1 \in DOMAIN frames
  BY <1>2
<1>10. SearchStack'
  <2>1. recStack' = {frames'[i].id : i \in DOMAIN frames'}
    BY <1>2, <1>5, <1>7, <1>8
  <2>2. \A i, j \in DOMAIN frames' : frames'[i].id = frames'[j].id => i = j
    BY <1>5, <1>7, <1>8
  <2>3. \A i \in DOMAIN frames' :
          /\ frames'[i].todo \subseteq DependsOn(frames'[i].id)
          /\ DependsOn(frames'[i].id) \ frames'[i].todo \subseteq Finished
    BY <1>5, <1>6, <1>7, <1>8
  <2>4. \A i \in DOMAIN frames' : i > 1 => frames'[i - 1].id \in DependsOn(frames'[i].id)
    BY <1>5, <1>7, <1>8, <1>9
  <2> QED BY <1>2, <1>6, <2>1, <2>2, <2>3, <2>4 DEF SearchStack, DependsOn
<1>11. FinishedClosed' /\ Founded(Finished)'
  BY <1>2, <1>6 DEF TaskInv, Search, FinishedClosed, Founded, DependsOn
<1> QED BY <1>5, <1>10, <1>11 DEF Search

\* has_cycle returns False: everything its task depends on has returned before,
\* so the task can join those without putting them in a circle.
LEMMA ReturnStep ==
  ASSUME TaskInv, Tasking!Return
  PROVE  frames' \in Seq(Frame) /\ recStack' \subseteq seen' /\ Search'
<1> DEFINE id == frames[1].id
<1>1. /\ frames \in Seq(Frame) /\ frames # <<>> /\ UNCHANGED <<seen, deps>>
      /\ recStack \subseteq seen
  BY DEF TaskInv, TaskType, Tasking!Return
<1>2. /\ frames' \in Seq(Frame) /\ 1 \in DOMAIN frames
      /\ \A i \in DOMAIN frames : i \in Nat
      /\ \A i \in DOMAIN frames' : frames'[i] = frames[i + 1] /\ i + 1 \in DOMAIN frames
      /\ \A i \in DOMAIN frames : i > 1 => i - 1 \in DOMAIN frames' /\ frames'[i - 1] = frames[i]
      /\ frames[1].todo = {} /\ recStack' = recStack \ {id}
  BY <1>1, Popped DEF Tasking!Return
<1>3. /\ recStack = {frames[i].id : i \in DOMAIN frames}
      /\ \A i, j \in DOMAIN frames : frames[i].id = frames[j].id => i = j
      /\ \A i \in DOMAIN frames :
           /\ frames[i].todo \subseteq DependsOn(frames[i].id)
           /\ DependsOn(frames[i].id) \ frames[i].todo \subseteq Finished
      /\ \A i \in DOMAIN frames : i > 1 => frames[i - 1].id \in DependsOn(frames[i].id)
  BY DEF TaskInv, Search, SearchStack
<1>4. DependsOn(id) \subseteq Finished
  BY <1>2, <1>3
<1>5. id \in recStack
  BY <1>2, <1>3
<1> HIDE DEF id
<1>6. Finished' = Finished \cup {id} /\ id \notin Finished
  BY <1>1, <1>2, <1>5 DEF Finished
<1>7. FinishedClosed'
  BY <1>1, <1>4, <1>6 DEF TaskInv, Search, FinishedClosed, DependsOn
<1>8. Founded(Finished')
  <2> SUFFICES ASSUME NEW part \in SUBSET Finished', part # {}
               PROVE  \E t \in part : DependsOn(t) \cap part = {}
    BY DEF Founded
  <2>1. CASE part \subseteq {id}
    BY <1>4, <1>6, <2>1
  <2>2. CASE ~ part \subseteq {id}
    <3>1. part \ {id} \in SUBSET Finished /\ part \ {id} # {}
      BY <1>6, <2>2
    <3>2. PICK t \in part \ {id} : DependsOn(t) \cap (part \ {id}) = {}
      BY <3>1 DEF TaskInv, Search, Founded
    <3>3. id \notin DependsOn(t)
      BY <1>6, <3>1, <3>2 DEF TaskInv, Search, FinishedClosed
    <3> QED BY <3>2, <3>3
  <2> QED BY <2>1, <2>2
<1>9. Founded(Finished)'
  BY <1>1, <1>8 DEF Founded, DependsOn
<1>10. SearchStack'
  <2>1. recStack' = {frames'[i].id : i \in DOMAIN frames'}
    <3>1. ASSUME NEW x \in recStack' PROVE \E i \in DOMAIN frames' : frames'[i].id = x
      <4>1. PICK i \in DOMAIN frames : frames[i].id = x /\ i # 1
        BY <1>2, <1>3, <3>1 DEF id
      <4>2. i > 1
        BY <1>1, <4>1
      <4> QED BY <1>2, <4>1, <4>2
    <3>2. ASSUME NEW i \in DOMAIN frames' PROVE frames'[i].id \in recStack'
      <4>1. i \in Nat /\ i + 1 # 1 /\ i + 1 \in DOMAIN frames /\ frames'[i] = frames[i + 1]
        BY <1>1, <1>2
      <4> QED BY <1>2, <1>3, <4>1 DEF id
    <3> QED BY <3>1, <3>2
  <2>2. ASSUME NEW i \in DOMAIN frames', NEW j \in DOMAIN frames',
               frames'[i].id = frames'[j].id
        PROVE  i = j
    <3>1. i \in Nat /\ j \in Nat /\ i + 1 = j + 1
      BY <1>1, <1>2, <1>3, <2>2
    <3> QED BY <3>1
  <2>3. \A i \in DOMAIN frames' :
          /\ frames'[i].todo \subseteq DependsOn(frames'[i].id)
          /\ DependsOn(frames'[i].id) \ frames'[i].todo \subseteq Finished'
    BY <1>2, <1>3, <1>6
  <2>4. ASSUME NEW i \in DOMAIN frames', i > 1
        PROVE  frames'[i - 1].id \in DependsOn(frames'[i].id)
    <3>1. i \in Nat /\ i - 1 \in DOMAIN frames' /\ (i - 1) + 1 = i /\ (i + 1) - 1 = i /\ i + 1 > 1
      BY <1>2, <2>4
    <3>2. frames'[i - 1] = frames[i] /\ frames'[i] = frames[i + 1] /\ i + 1 \in DOMAIN frames
      BY <1>2, <3>1
    <3>3. frames[(i + 1) - 1].id \in DependsOn(frames[i + 1].id)
      BY <1>3, <3>1, <3>2
    <3> QED BY <3>1, <3>2, <3>3
  <2> QED BY <1>1, <2>1, <2>2, <2>3, <2>4 DEF SearchStack, DependsOn
<1> QED BY <1>1, <1>2, <1>7, <1>9, <1>10 DEF Search

\* A dependency that is under way closes a circle: the calls from it to the
\* innermost one.
LEMMA CircleFound ==
  ASSUME TaskInv, frames # <<>>, NEW d \in Head(frames).todo \cap recStack
  PROVE  \E set \in SUBSET Tasking!Tasks : Circle(set)
<1>1. frames \in Seq(Frame) /\ Head(frames) = frames[1] /\ 1 \in DOMAIN frames
  BY DEF TaskInv, TaskType
<1>2. /\ recStack = {frames[i].id : i \in DOMAIN frames}
      /\ frames[1].todo \subseteq DependsOn(frames[1].id)
      /\ \A i \in DOMAIN frames : i > 1 => frames[i - 1].id \in DependsOn(frames[i].id)
  BY <1>1 DEF TaskInv, Search, SearchStack
<1>3. PICK k \in DOMAIN frames : frames[k].id = d
  BY <1>2
<1> DEFINE set == {frames[i].id : i \in 1 .. k}
<1>4. k \in Nat /\ k >= 1 /\ \A i \in 1 .. k : i \in DOMAIN frames
  BY <1>1, <1>3
<1>5. ASSUME NEW i \in 1 .. k PROVE DependsOn(frames[i].id) \cap set # {}
  <2>1. CASE i = 1
    <3>1. d \in set /\ d \in DependsOn(frames[1].id)
      BY <1>1, <1>2, <1>3, <1>4
    <3> QED BY <2>1, <3>1
  <2>2. CASE i > 1
    <3>1. i - 1 \in 1 .. k
      BY <1>4, <2>2
    <3>2. frames[i - 1].id \in set
      BY <3>1
    <3>3. frames[i - 1].id \in DependsOn(frames[i].id)
      BY <1>2, <1>4, <2>2
    <3> QED BY <3>2, <3>3
  <2> QED BY <1>4, <2>1, <2>2
<1>6. frames[1].id \in set
  BY <1>4
<1>7. \A t \in set : DependsOn(t) \cap set # {}
  BY <1>5
<1> HIDE DEF set
<1>8. set \subseteq Tasking!Tasks /\ \A t \in set : deps[t] \cap set # {}
  BY <1>7 DEF DependsOn
<1> QED BY <1>6, <1>8 DEF Circle

LEMMA TasksFinite == IsFiniteSet(Tasking!Tasks) /\ Cardinality(Tasking!Tasks) = N
BY FS_Interval, LibraryAssumption DEF Tasking!Tasks

LEMMA PlanRoundStep ==
  ASSUME TaskInv, Tasking!PlanRound
  PROVE  TaskType' /\ PlanSound'
<1> DEFINE all == Tasking!Tasks
           ready == Tasking!Ready
           s == Tasking!InOrder(ready)
<1>1. /\ deps \in [all -> SUBSET TaskIds]
      /\ status \in [all -> {"PENDING", "RUNNING", "DONE"}]
      /\ plan \in Seq(all) /\ completed \subseteq all /\ round \in Nat
  BY DEF TaskInv, TaskType
<1>2. /\ {plan[i] : i \in DOMAIN plan} = completed
      /\ \A t \in all : status[t] = "PENDING" <=> t \notin completed
      /\ round <= Cardinality(completed)
      /\ \A i \in DOMAIN plan : deps[plan[i]] \subseteq {plan[j] : j \in 1 .. i - 1}
      /\ \A set \in SUBSET all : Circle(set) => set \cap completed = {}
  BY DEF TaskInv, PlanSound
<1>3. /\ ready \subseteq all /\ ready # {} /\ ready \cap completed = {}
      /\ \A t \in ready : deps[t] \subseteq completed
  BY <1>2 DEF Tasking!PlanRound, Tasking!Ready, Tasking!CanExecute
<1>4. IsFiniteSet(ready) /\ ready \in SUBSET Int
  <2>1. ready \in SUBSET Tasking!Tasks
    BY <1>3
  <2>2. \A t \in Tasking!Tasks : t \in Int
    BY LibraryAssumption DEF Tasking!Tasks
  <2> HIDE DEF ready, all
  <2> QED BY <2>1, <2>2, FS_Subset, TasksFinite
<1>5. s \in Seq(ready) /\ {s[i] : i \in DOMAIN s} = ready
  BY <1>4, ListOf
<1>6. /\ plan' = plan \o s /\ completed' = completed \cup ready /\ round' = round + 1
      /\ status' = [t \in all |-> IF t \in ready THEN "RUNNING" ELSE status[t]]
      /\ UNCHANGED <<deps, at, seen, recStack, frames, validated>>
      /\ at # "planned"
  BY DEF Tasking!PlanRound, Tasking!Planning, Tasking!search
<1> HIDE DEF ready, s, all
<1>7. /\ s \in Seq(all) /\ plan' \in Seq(all) /\ Len(plan) \in Nat /\ Len(s) \in Nat
      /\ DOMAIN plan' = 1 .. (Len(plan) + Len(s))
      /\ DOMAIN plan = 1 .. Len(plan) /\ DOMAIN s = 1 .. Len(s)
      /\ \A i \in 1 .. Len(plan) : plan'[i] = plan[i]
      /\ \A i \in 1 .. Len(s) : plan'[Len(plan) + i] = s[i]
  <2>1. s \in Seq(all)
    BY <1>3, <1>5
  <2> QED BY <1>1, <1>6, <2>1
<1>8. \A i \in DOMAIN plan' : i \in Nat /\ (i \in 1 .. Len(plan) \/ i - Len(plan) \in 1 .. Len(s))
  BY <1>7
<1>9. \A i \in DOMAIN plan' : i \notin 1 .. Len(plan) => plan'[i] \in ready
  <2> SUFFICES ASSUME NEW i \in DOMAIN plan', i \notin 1 .. Len(plan) PROVE plan'[i] \in ready
    OBVIOUS
  <2>1. i - Len(plan) \in 1 .. Len(s) /\ Len(plan) + (i - Len(plan)) = i
    BY <1>7, <1>8
  <2>2. plan'[i] = s[i - Len(plan)]
    BY <1>7, <2>1
  <2> QED BY <1>5, <1>7, <2>1, <2>2
<1>10. {plan'[i] : i \in DOMAIN plan'} = completed'
  <2>1. ASSUME NEW t \in completed PROVE \E i \in DOMAIN plan' : plan'[i] = t
    <3>1. PICK i \in 1 .. Len(plan) : plan[i] = t
      BY <1>2, <1>7, <2>1
    <3>2. i \in DOMAIN plan'
      BY <1>7
    <3> QED BY <1>7, <3>1, <3>2
  <2>2. ASSUME NEW t \in ready PROVE \E i \in DOMAIN plan' : plan'[i] = t
    <3>1. PICK i \in 1 .. Len(s) : s[i] = t
      BY <1>5, <1>7
    <3>2. Len(plan) + i \in DOMAIN plan'
      BY <1>7
    <3> QED BY <1>7, <3>1, <3>2
  <2>3. \A i \in DOMAIN plan' : plan'[i] \in completed \cup ready
    BY <1>2, <1>7, <1>9
  <2> QED BY <1>6, <2>1, <2>2, <2>3
<1>11. \A t \in all : status'[t] = "PENDING" <=> t \notin completed'
  BY <1>2, <1>6
<1>12. round' <= Cardinality(completed')
  <2>1. PICK t \in ready : t \notin completed
    BY <1>3
  <2>2. IsFiniteSet(completed) /\ IsFiniteSet(completed') /\ completed \cup {t} \in SUBSET completed'
    BY <1>1, <1>3, <1>6, TasksFinite, FS_Subset DEF all
  <2>3. Cardinality(completed \cup {t}) = Cardinality(completed) + 1
    BY <2>1, <2>2, FS_AddElement
  <2>4. Cardinality(completed \cup {t}) <= Cardinality(completed')
    BY <2>2, FS_Subset
  <2>5. Cardinality(completed) \in Nat /\ Cardinality(completed') \in Nat
    BY <2>2, FS_CardinalityType
  <2> QED BY <1>1, <1>2, <1>6, <2>3, <2>4, <2>5
<1>13. \A i \in DOMAIN plan' : deps[plan'[i]] \subseteq {plan'[j] : j \in 1 .. i - 1}
  <2> SUFFICES ASSUME NEW i \in DOMAIN plan', NEW d \in deps[plan'[i]]
               PROVE  \E j \in 1 .. i - 1 : plan'[j] = d
    OBVIOUS
  <2>1. CASE i \in 1 .. Len(plan)
    <3>0. plan'[i] = plan[i] /\ i \in DOMAIN plan
      BY <1>7, <2>1
    <3>1. PICK j \in 1 .. i - 1 : plan[j] = d
      BY <1>2, <3>0
    <3>2. j \in 1 .. Len(plan)
      BY <1>7, <2>1
    <3> QED BY <1>7, <3>1, <3>2
  <2>2. CASE i \notin 1 .. Len(plan)
    <3>1. d \in completed
      BY <1>3, <1>9, <2>2
    <3>2. PICK j \in 1 .. Len(plan) : plan[j] = d
      BY <1>2, <1>7, <3>1
    <3>3. j \in 1 .. i - 1
      BY <1>7, <1>8, <2>2
    <3> QED BY <1>7, <3>2, <3>3
  <2> QED BY <2>1, <2>2
<1>14. \A set \in SUBSET all : Circle(set) => set \cap completed' = {}
  <2> SUFFICES ASSUME NEW set \in SUBSET all, Circle(set), NEW t \in set, t \in ready
               PROVE  FALSE
    BY <1>2, <1>6
  <2>1. deps[t] \cap set # {} /\ deps[t] \subseteq completed
    BY <1>3 DEF Circle
  <2> QED BY <1>2, <2>1
<1>15. TaskType'
  <2>1. status' \in [all -> {"PENDING", "RUNNING", "DONE"}]
    BY <1>1, <1>6
  <2>2. completed' \subseteq all /\ round' \in Nat
    BY <1>1, <1>3, <1>6
  <2> QED BY <1>6, <1>7, <2>1, <2>2 DEF TaskInv, TaskType, all
<1>16. round' # 0
  BY <1>1, <1>6
<1> QED BY <1>6, <1>10, <1>11, <1>12, <1>13, <1>14, <1>15, <1>16 DEF PlanSound, Circle, all

\* The bound on the rounds is never what ends them early.
LEMMA PlanEndsStep ==
  ASSUME TaskInv, Tasking!PlanEnds
  PROVE  TaskType' /\ PlanSound'
<1> DEFINE all == Tasking!Tasks
<1>1. /\ status \in [all -> {"PENDING", "RUNNING", "DONE"}] /\ completed \subseteq all
      /\ status' = [t \in all |-> IF at = "executing" /\ status[t] = "RUNNING"
                                      THEN "DONE" ELSE status[t]]
      /\ UNCHANGED <<deps, seen, recStack, frames, validated, plan, completed, round>>
  BY DEF TaskInv, TaskType, Tasking!PlanEnds, Tasking!search, Tasking!rounds
<1>2. status' \in [all -> {"PENDING", "RUNNING", "DONE"}]
  BY <1>1
<1>3. \A t \in all : status'[t] = "PENDING" <=> t \notin completed
  BY <1>1 DEF TaskInv, PlanSound
<1>4. ASSUME NEW t \in all \ completed PROVE ~ deps[t] \subseteq completed
  <2>1. CASE Tasking!Ready = {}
    BY <2>1, <1>4 DEF TaskInv, PlanSound, Tasking!Ready, Tasking!CanExecute
  <2>2. CASE round = N + 1
    <3>1. /\ IsFiniteSet(completed) /\ Cardinality(completed) <= N
          /\ Cardinality(completed) \in Nat
      BY <1>1, TasksFinite, FS_Subset, FS_CardinalityType
    <3>2. N + 1 <= Cardinality(completed)
      BY <2>2 DEF TaskInv, PlanSound
    <3> QED BY <3>1, <3>2, LibraryAssumption
  <2> QED BY <2>1, <2>2 DEF Tasking!PlanEnds
<1>5. TaskType'
  BY <1>1, <1>2 DEF TaskInv, TaskType
<1>6. PlanSound'
  BY <1>1, <1>3, <1>4 DEF TaskInv, PlanSound, Circle
<1> QED BY <1>5, <1>6

LEMMA TaskInitInv == Tasking!Init => TaskInv
<1> SUFFICES ASSUME Tasking!Init PROVE TaskInv
  OBVIOUS
<1>1. /\ deps \in [Tasking!Tasks -> SUBSET TaskIds]
      /\ status \in [Tasking!Tasks -> {"PENDING", "RUNNING", "DONE"}]
      /\ \A t \in Tasking!Tasks : status[t] = "PENDING"
      /\ frames = <<>> /\ seen = {} /\ recStack = {} /\ validated = "none" /\ at = "empty"
      /\ plan = <<>> /\ completed = {} /\ round = 0
  BY DEF Tasking!Init, TaskIds
<1> QED BY <1>1, NewGraph

LEMMA GraphStep ==
  ASSUME TaskInv, at = "empty", at' = "idle",
         deps' \in [Tasking!Tasks -> SUBSET TaskIds],
         UNCHANGED <<status, seen, recStack, frames, validated, plan, completed, round>>
  PROVE  TaskInv'
<1>1. /\ frames = <<>> /\ seen = {} /\ validated = "none" /\ round = 0
      /\ recStack = {} /\ plan = <<>> /\ completed = {}
      /\ status \in [Tasking!Tasks -> {"PENDING", "RUNNING", "DONE"}]
      /\ \A t \in Tasking!Tasks : status[t] = "PENDING"
  BY DEF TaskInv, TaskType, Untouched, PlanSound
<1>2. Cardinality({}) = 0
  BY FS_EmptySet
<1>3. TaskType'
  BY <1>1 DEF TaskType
<1>4. Search'
  BY <1>1 DEF Search, SearchStack, FinishedClosed, Founded, Finished
<1>5. VerdictTrue' /\ Untouched'
  BY <1>1 DEF VerdictTrue, Untouched
<1>6. PlanSound'
  BY <1>1, <1>2 DEF PlanSound
<1> QED BY <1>3, <1>4, <1>5, <1>6 DEF TaskInv

\* A step of the search leaves the graph, the verdict and the rounds.
LEMMA SearchStep ==
  ASSUME TaskInv, UNCHANGED <<deps, status, at, validated, plan, completed, round>>,
         at # "empty",
         frames' \in Seq(Frame), seen' \subseteq TaskIds, recStack' \subseteq seen', Search'
  PROVE  TaskInv'
<1>1. TaskType'
  BY DEF TaskInv, TaskType
<1>2. VerdictTrue' /\ Untouched'
  BY DEF TaskInv, VerdictTrue, Untouched, Founded, DependsOn, Circle
<1>3. PlanSound'
  BY DEF TaskInv, PlanSound, Circle
<1> QED BY <1>1, <1>2, <1>3 DEF TaskInv

LEMMA SearchKept ==
  ASSUME Search, UNCHANGED <<deps, seen, recStack, frames>>
  PROVE  Search'
BY DEF Search, SearchStack, FinishedClosed, Founded, Finished, DependsOn

LEMMA VerdictKept ==
  ASSUME VerdictTrue, UNCHANGED <<deps, validated>>
  PROVE  VerdictTrue'
BY DEF VerdictTrue, Founded, DependsOn, Circle

LEMMA VerdictStep ==
  ASSUME TaskInv, Tasking!CycleFound \/ Tasking!CheckMissing
  PROVE  TaskInv'
<1>1. UNCHANGED <<deps, status, seen, recStack, frames, plan, completed, round>> /\ at' = "idle"
  BY DEF Tasking!CycleFound, Tasking!CheckMissing, Tasking!rounds
<1>2. VerdictTrue'
  <2>1. CASE Tasking!CycleFound
    <3>1. validated' = "cycle" /\ \E set \in SUBSET Tasking!Tasks : Circle(set)
      BY <2>1, CircleFound DEF Tasking!CycleFound
    <3> QED BY <1>1, <3>1 DEF VerdictTrue, Circle
  <2>2. CASE Tasking!CheckMissing
    <3>1. /\ frames = <<>> /\ Tasking!Tasks \subseteq seen
          /\ validated' = IF \E t \in Tasking!Tasks : ~ deps[t] \subseteq Tasking!Tasks
                            THEN "missing" ELSE "valid"
      BY <2>2 DEF Tasking!CheckMissing
    <3>2. Finished = seen
      BY <3>1 DEF TaskInv, Search, SearchStack, Finished
    <3>3. Founded(Tasking!Tasks)
      BY <3>1, <3>2 DEF TaskInv, Search, Founded
    <3>4. Founded(Tasking!Tasks)'
      BY <1>1, <3>3 DEF Founded, DependsOn
    <3> QED BY <1>1, <3>1, <3>4 DEF VerdictTrue
  <2> QED BY <2>1, <2>2
<1>3. TaskType' /\ Search' /\ Untouched'
  BY <1>1, SearchKept DEF TaskInv, TaskType, Untouched
<1>4. PlanSound'
  BY <1>1 DEF TaskInv, PlanSound, Circle
<1> QED BY <1>2, <1>3, <1>4 DEF TaskInv

LEMMA TaskStep == TaskInv /\ Tasking!Next => TaskInv'
<1> SUFFICES ASSUME TaskInv, Tasking!Next PROVE TaskInv'
  OBVIOUS
<1>1. /\ deps \in [Tasking!Tasks -> SUBSET TaskIds] /\ seen \subseteq TaskIds
      /\ recStack \subseteq seen /\ frames \in Seq(Frame)
  BY DEF TaskInv, TaskType
<1>2. ASSUME NEW c \in [Tasking!Tasks -> TaskCategories], Tasking!Decompose(c) PROVE TaskInv'
  <2>1. deps' \in [Tasking!Tasks -> SUBSET TaskIds]
    BY <1>2, LibraryAssumption DEF Tasking!Decompose, Tasking!Inferred, TaskIds, Tasking!Tasks
  <2> QED
    BY <1>2, <2>1, GraphStep DEF Tasking!Decompose, Tasking!search, Tasking!rounds
<1>3. ASSUME NEW g \in Tasking!Graphs, Tasking!Assemble(g) PROVE TaskInv'
  <2>1. deps' \in [Tasking!Tasks -> SUBSET TaskIds]
    BY <1>3 DEF Tasking!Assemble, Tasking!Graphs, TaskIds
  <2> QED
    BY <1>3, <2>1, GraphStep DEF Tasking!Assemble, Tasking!search, Tasking!rounds
<1>4. CASE Tasking!NextRoot
  <2>1. PICK t \in Tasking!Tasks \ seen : Tasking!Open(t)
    BY <1>4 DEF Tasking!NextRoot
  <2>2. /\ frames = <<>> /\ at # "empty" /\ t \in TaskIds
        /\ UNCHANGED <<deps, status, at, validated, plan, completed, round>>
    BY <1>4 DEF Tasking!NextRoot, Tasking!rounds, TaskIds
  <2> QED BY <2>1, <2>2, OpenStep, SearchStep
<1>5. CASE Tasking!Descend
  <2>1. PICK d \in Head(frames).todo \ seen : Tasking!Open(d)
    BY <1>5 DEF Tasking!Descend
  <2>2. /\ frames # <<>> /\ at # "empty"
        /\ UNCHANGED <<deps, status, at, validated, plan, completed, round>>
    BY <1>5 DEF Tasking!Descend, Tasking!rounds
  <2>3. Head(frames) = frames[1] /\ 1 \in DOMAIN frames
    BY <1>1, <2>2
  <2>4. d \in DependsOn(frames[1].id)
    BY <2>1, <2>3 DEF TaskInv, Search, SearchStack
  <2>5. d \in TaskIds
    BY <1>1, <2>4 DEF DependsOn
  <2> QED BY <2>1, <2>2, <2>4, <2>5, OpenStep, SearchStep
<1>6. CASE Tasking!PassOver
  <2>1. /\ UNCHANGED <<deps, status, at, seen, recStack, validated, plan, completed, round>>
        /\ at # "empty"
    BY <1>6 DEF Tasking!PassOver, Tasking!rounds
  <2> QED BY <1>1, <1>6, <2>1, PassOverStep, SearchStep
<1>7. CASE Tasking!Return
  <2>1. /\ UNCHANGED <<deps, status, at, seen, validated, plan, completed, round>>
        /\ at # "empty"
    BY <1>7 DEF Tasking!Return, Tasking!rounds
  <2> QED BY <1>1, <1>7, <2>1, ReturnStep, SearchStep
<1>8. CASE Tasking!Validate \/ Tasking!StartPlan("planning") \/ Tasking!StartPlan("executing")
  <2>1. /\ UNCHANGED <<deps, status, seen, recStack, frames, validated, plan, round>>
        /\ at # "empty" /\ at' # "empty" /\ at' # "planned"
        /\ round = 0 /\ completed' \in {completed, {}}
    BY <1>8 DEF Tasking!Validate, Tasking!StartPlan, Tasking!search, Tasking!rounds
  <2>2. completed' = completed
    <3>1. plan = <<>> /\ completed = {plan[i] : i \in DOMAIN plan}
      BY <2>1 DEF TaskInv, PlanSound
    <3>2. completed = {}
      BY <3>1
    <3> QED BY <2>1, <3>2
  <2>3. TaskType' /\ Search' /\ VerdictTrue' /\ Untouched'
    BY <2>1, <2>2, SearchKept, VerdictKept DEF TaskInv, TaskType, Untouched
  <2>4. PlanSound'
    BY <2>1, <2>2 DEF TaskInv, PlanSound, Circle
  <2> QED BY <2>3, <2>4 DEF TaskInv
<1>9. CASE Tasking!PlanRound \/ Tasking!PlanEnds
  <2>1. /\ UNCHANGED <<deps, seen, recStack, frames, validated>>
        /\ at' # "empty"
    BY <1>9 DEF Tasking!PlanRound, Tasking!PlanEnds, Tasking!Planning, Tasking!search
  <2>2. Search' /\ VerdictTrue' /\ Untouched'
    BY <2>1, SearchKept, VerdictKept DEF TaskInv, Untouched
  <2> QED BY <1>9, <2>2, PlanRoundStep, PlanEndsStep DEF TaskInv
<1> QED
  BY <1>2, <1>3, <1>4, <1>5, <1>6, <1>7, <1>8, <1>9, VerdictStep DEF Tasking!Next

LEMMA TaskStutter == TaskInv /\ UNCHANGED tasking => TaskInv'
<1> SUFFICES ASSUME TaskInv, UNCHANGED tasking PROVE TaskInv'
  OBVIOUS
<1>1. UNCHANGED <<deps, status, at, seen, recStack, frames, validated, plan, completed, round>>
  BY DEF tasking
<1>2. TaskType' /\ Search' /\ VerdictTrue' /\ Untouched'
  BY <1>1, SearchKept, VerdictKept DEF TaskInv, TaskType, Untouched
<1>3. PlanSound'
  BY <1>1 DEF TaskInv, PlanSound, Circle
<1> QED BY <1>2, <1>3 DEF TaskInv

\* Nobody outside a plan that ended is free to run: so it is complete if the
\* graph is founded, and not if somebody is in a circle or waits for nobody.
LEMMA VerdictTells == TaskInv => VerdictForetellsPlan
<1> SUFFICES ASSUME TaskInv PROVE VerdictForetellsPlan
  OBVIOUS
<1> DEFINE left == Tasking!Tasks \ completed
<1>1. /\ {plan[i] : i \in DOMAIN plan} = completed /\ completed \subseteq Tasking!Tasks
      /\ \A i \in DOMAIN plan : deps[plan[i]] \subseteq {plan[j] : j \in 1 .. i - 1}
      /\ \A set \in SUBSET Tasking!Tasks : Circle(set) => set \cap completed = {}
      /\ at = "planned" => \A t \in left : ~ deps[t] \subseteq completed
      /\ plan \in Seq(Tasking!Tasks)
  BY DEF TaskInv, TaskType, PlanSound
<1>2. Tasking!ToSet(plan) = completed
  BY <1>1 DEF Tasking!ToSet
<1>3. ASSUME at = "planned", validated = "valid" PROVE completed = Tasking!Tasks
  <2> SUFFICES ASSUME left # {} PROVE FALSE
    BY <1>1
  <2>1. PICK t \in left : DependsOn(t) \cap left = {}
    BY <1>3 DEF TaskInv, VerdictTrue, Founded
  <2>2. deps[t] \subseteq Tasking!Tasks /\ DependsOn(t) = deps[t]
    BY <1>3 DEF TaskInv, VerdictTrue, DependsOn
  <2>3. deps[t] \subseteq completed
    BY <2>1, <2>2
  <2> QED BY <1>1, <1>3, <2>3
<1>4. ASSUME validated = "cycle" PROVE completed # Tasking!Tasks
  BY <1>1, <1>4 DEF TaskInv, VerdictTrue, Circle
<1>5. ASSUME validated = "missing" PROVE completed # Tasking!Tasks
  <2>1. PICK t \in Tasking!Tasks : ~ deps[t] \subseteq Tasking!Tasks
    BY <1>5 DEF TaskInv, VerdictTrue
  <2>2. t \notin completed
    <3> SUFFICES ASSUME t \in completed PROVE FALSE
      OBVIOUS
    <3>1. PICK i \in DOMAIN plan : plan[i] = t
      BY <1>1
    <3>2. \A j \in 1 .. i - 1 : j \in DOMAIN plan /\ plan[j] \in Tasking!Tasks
      BY <1>1
    <3> QED BY <1>1, <2>1, <3>1, <3>2
  <2> QED BY <2>1, <2>2
<1>6. validated \in {"none", "cycle", "missing", "valid"}
  BY DEF TaskInv, VerdictTrue
<1> QED
  BY <1>1, <1>2, <1>3, <1>4, <1>5, <1>6
  DEF VerdictForetellsPlan, Tasking!VerdictForetellsPlan

LEMMA TasksOrAnother == TaskInv /\ [LibraryNext]_LibraryVars => TaskInv'
<1> SUFFICES ASSUME TaskInv, [LibraryNext]_LibraryVars PROVE TaskInv'
  OBVIOUS
<1>1. Tasking!Next \/ UNCHANGED tasking
  BY DEF LibraryNext, LibraryVars
<1> QED BY <1>1, TaskStep, TaskStutter

\* What validate_graph says of a graph is what plan_execution does with it, for
\* graphs of any size with self-loops, circles and dependencies that name no
\* task: the depth-first search and the rounds, which share no code, agree, and
\* in a plan everything comes after what it depends on.
THEOREM ValidationForetells == LibrarySpec => []VerdictForetellsPlan
<1>1. LibraryInit => TaskInv
  BY TaskInitInv DEF LibraryInit
<1> QED BY <1>1, TasksOrAnother, VerdictTells, PTL DEF LibrarySpec

-----------------------------------------------------------------------------
(* Reflection: what is remembered of a category, and its mistakes          *)

LEMMA LessonCardinality == ASSUME NEW S PROVE Lessons!Cardinality(S) = Cardinality(S)
BY DEF Lessons!Cardinality, Cardinality

LessonIds == ({"fallback", "llm"} \X Nat) \cup ({"failure"} \X FailedTasks)
Lesson == [kind : Lessons!Kinds, count : Nat \ {0}, resolved : BOOLEAN]
Noted == [id : LessonIds, kind : Lessons!Kinds]

\* A dict of lessons, with the counter that goes with it.
Counted(ls, ms) ==
  /\ \A id \in DOMAIN ls : ls[id] \in Lesson
  /\ ms \in [Categories -> Nat]
  /\ \A c \in Categories :
       IsFiniteSet(Lessons!Returns(ls, c)) /\ Cardinality(Lessons!Returns(ls, c)) <= ms[c]

LessonInv ==
  /\ report \in Seq(Noted)
  /\ Counted(lessons, mistakes)
  /\ Counted(file.lessons, file.mistakes)

\* Fewer returns need no more mistakes.
LEMMA FewerCounted ==
  ASSUME NEW ls, NEW ms, Counted(ls, ms), NEW kept,
         \A id \in DOMAIN kept : kept[id] \in Lesson,
         \A c \in Categories : Lessons!Returns(kept, c) \subseteq Lessons!Returns(ls, c)
  PROVE  Counted(kept, ms)
<1> SUFFICES ASSUME NEW c \in Categories
             PROVE  /\ IsFiniteSet(Lessons!Returns(kept, c))
                    /\ Cardinality(Lessons!Returns(kept, c)) <= ms[c]
  BY DEF Counted
<1> DEFINE all == Lessons!Returns(ls, c)
           fewer == Lessons!Returns(kept, c)
<1>1. IsFiniteSet(all) /\ Cardinality(all) <= ms[c] /\ ms[c] \in Nat /\ fewer \in SUBSET all
  BY DEF Counted
<1> HIDE DEF all, fewer
<1>2. IsFiniteSet(fewer) /\ Cardinality(fewer) <= Cardinality(all)
  BY <1>1, FS_Subset
<1>3. Cardinality(fewer) \in Nat /\ Cardinality(all) \in Nat
  BY <1>1, <1>2, FS_CardinalityType
<1>4. IsFiniteSet(fewer) /\ Cardinality(fewer) <= ms[c]
  BY <1>1, <1>2, <1>3
<1> QED BY <1>4 DEF fewer

\* One return more, and one mistake more.
LEMMA MistakeCounted ==
  ASSUME NEW ls, NEW ms, Counted(ls, ms), NEW more, NEW k \in Categories, NEW back,
         \A id \in DOMAIN more : more[id] \in Lesson,
         \A c \in Categories :
           Lessons!Returns(more, c)
             \subseteq Lessons!Returns(ls, c) \cup (IF c = k THEN {back} ELSE {})
  PROVE  Counted(more, [ms EXCEPT ![k] = @ + 1])
<1> DEFINE ns == [ms EXCEPT ![k] = @ + 1]
<1>1. ms \in [Categories -> Nat] /\ ns \in [Categories -> Nat]
  BY DEF Counted
<1>2. ASSUME NEW c \in Categories
      PROVE  /\ IsFiniteSet(Lessons!Returns(more, c))
             /\ Cardinality(Lessons!Returns(more, c)) <= ns[c]
  <2> DEFINE all == Lessons!Returns(ls, c)
             now == Lessons!Returns(more, c)
             bound == all \cup (IF c = k THEN {back} ELSE {})
  <2>1. IsFiniteSet(all) /\ Cardinality(all) <= ms[c] /\ ms[c] \in Nat /\ now \in SUBSET bound
    BY <1>1 DEF Counted
  <2> HIDE DEF all, now
  <2>2. IsFiniteSet(bound) /\ Cardinality(bound) <= ns[c]
    <3>1. CASE c = k
      <4>1. ns[c] = ms[c] + 1 /\ bound = all \cup {back}
        BY <1>1, <3>1
      <4>2. IsFiniteSet(all \cup {back}) /\ Cardinality(all \cup {back}) <= Cardinality(all) + 1
        <5>1. Cardinality(all) \in Nat
          BY <2>1, FS_CardinalityType
        <5>2. /\ IsFiniteSet(all \cup {back})
              /\ Cardinality(all \cup {back}) =
                   IF back \in all THEN Cardinality(all) ELSE Cardinality(all) + 1
          BY <2>1, FS_AddElement
        <5> HIDE DEF bound, ns
        <5> QED BY <5>1, <5>2
      <4>3. Cardinality(all) \in Nat /\ Cardinality(all \cup {back}) \in Nat
        BY <2>1, <4>2, FS_CardinalityType
      <4> HIDE DEF ns, bound
      <4> QED BY <2>1, <4>1, <4>2, <4>3
    <3>2. CASE c # k
      <4>1. ns[c] = ms[c] /\ bound = all
        BY <1>1, <3>2
      <4> QED BY <2>1, <4>1
    <3> QED BY <3>1, <3>2
  <2> HIDE DEF bound, ns
  <2>3. IsFiniteSet(now) /\ Cardinality(now) <= Cardinality(bound)
    BY <2>1, <2>2, FS_Subset
  <2>4. Cardinality(now) \in Nat /\ Cardinality(bound) \in Nat /\ ns[c] \in Nat
    BY <1>1, <2>2, <2>3, FS_CardinalityType
  <2>5. IsFiniteSet(now) /\ Cardinality(now) <= ns[c]
    BY <2>2, <2>3, <2>4
  <2> QED BY <2>5 DEF now
<1> QED BY <1>1, <1>2 DEF Counted

LEMMA ActiveCounted ==
  ASSUME NEW ls, NEW ms, Counted(ls, ms)
  PROVE  Counted(Lessons!Active(ls), ms)
<1>1. \A id \in DOMAIN Lessons!Active(ls) :
        id \in DOMAIN ls /\ Lessons!Active(ls)[id] = ls[id] /\ ls[id] \in Lesson
  BY DEF Lessons!Active, Counted
<1>2. \A c \in Categories : Lessons!Returns(Lessons!Active(ls), c) \subseteq Lessons!Returns(ls, c)
  BY <1>1 DEF Lessons!Returns
<1> QED BY <1>1, <1>2, FewerCounted

LEMMA NothingCounted == Counted(Lessons!Empty.lessons, Lessons!Empty.mistakes)
<1>1. \A c \in Categories : Lessons!Returns(Lessons!NoLessons, c) = {}
  BY DEF Lessons!Returns, Lessons!NoLessons
<1>2. IsFiniteSet({}) /\ Cardinality({}) = 0
  BY FS_EmptySet
<1>3. Lessons!Empty.mistakes \in [Categories -> Nat] /\ Lessons!Empty.lessons = Lessons!NoLessons
  BY DEF Lessons!Empty
<1>4. \A id \in DOMAIN Lessons!NoLessons : Lessons!NoLessons[id] \in Lesson
  BY DEF Lessons!NoLessons
<1>5. \A c \in Categories :
        /\ IsFiniteSet(Lessons!Returns(Lessons!NoLessons, c))
        /\ Cardinality(Lessons!Returns(Lessons!NoLessons, c)) <= Lessons!Empty.mistakes[c]
  <2> SUFFICES ASSUME NEW c \in Categories
               PROVE  0 <= Lessons!Empty.mistakes[c]
    BY <1>1, <1>2
  <2>1. Lessons!Empty.mistakes[c] \in Nat
    BY <1>3
  <2> QED BY <2>1
<1> QED BY <1>3, <1>4, <1>5 DEF Counted

\* A lesson of a known kind comes back: one return, one mistake.
LEMMA MergeStep ==
  ASSUME LessonInv, NEW lesson \in Noted, Lessons!Merge(lesson)
  PROVE  Counted(lessons', mistakes')
<1>1. PICK id \in Lessons!Similar(lesson) : lessons' = [lessons EXCEPT ![id].count = @ + 1]
  BY DEF Lessons!Merge
<1>2. id \in DOMAIN lessons /\ lessons[id].kind = lesson.kind /\ lesson.kind[1] \in Categories
  BY <1>1 DEF Lessons!Similar, Noted, Lessons!Kinds
<1>3. mistakes' = [mistakes EXCEPT ![lesson.kind[1]] = @ + 1]
  BY DEF Lessons!Merge, Lessons!CountMistake
<1>4. /\ Counted(lessons, mistakes)
      /\ \A i \in DOMAIN lessons : lessons[i] \in Lesson
  BY DEF LessonInv, Counted
<1>5. /\ DOMAIN lessons' = DOMAIN lessons
      /\ \A i \in DOMAIN lessons : i # id => lessons'[i] = lessons[i]
      /\ lessons'[id].kind = lessons[id].kind /\ lessons'[id].count = lessons[id].count + 1
      /\ lessons'[id].resolved = lessons[id].resolved
      /\ lessons[id].count \in Nat \ {0}
      /\ lessons'[id] = [lessons[id] EXCEPT !.count = @ + 1]
  BY <1>1, <1>2, <1>4 DEF Lesson
<1>6. \A i \in DOMAIN lessons' : lessons'[i] \in Lesson
  BY <1>4, <1>5 DEF Lesson
<1> DEFINE back == <<id, lessons[id].count + 1>>
<1>7. ASSUME NEW c \in Categories
      PROVE  Lessons!Returns(lessons', c)
               \subseteq Lessons!Returns(lessons, c)
                           \cup (IF c = lesson.kind[1] THEN {back} ELSE {})
  <2> SUFFICES ASSUME NEW i \in DOMAIN lessons', lessons'[i].kind[1] = c,
                      NEW n \in 2 .. lessons'[i].count
               PROVE  \/ <<i, n>> \in Lessons!Returns(lessons, c)
                      \/ c = lesson.kind[1] /\ <<i, n>> = back
    BY DEF Lessons!Returns
  <2>1. CASE i # id
    BY <1>5, <2>1 DEF Lessons!Returns
  <2>2. CASE i = id /\ n = lessons[id].count + 1
    BY <1>2, <1>5, <2>2
  <2>3. CASE i = id /\ n # lessons[id].count + 1
    <3>1. n \in 2 .. (lessons[id].count + 1)
      BY <1>5, <2>3
    <3>2. n \in 2 .. lessons[id].count
      BY <1>5, <2>3, <3>1
    <3>3. lessons[i].kind[1] = c /\ i \in DOMAIN lessons /\ n \in 2 .. lessons[i].count
      BY <1>5, <2>3, <3>2
    <3> QED BY <3>3 DEF Lessons!Returns
  <2> QED BY <2>1, <2>2, <2>3
<1> HIDE DEF back
<1> QED BY <1>2, <1>3, <1>4, <1>6, <1>7, MistakeCounted

\* A lesson of a new kind, which may take the place of another under its id.
LEMMA StoreStep ==
  ASSUME LessonInv, NEW lesson \in Noted, Lessons!Store(lesson)
  PROVE  Counted(lessons', mistakes') /\ Counted(file'.lessons, file'.mistakes)
<1> DEFINE new == [kind |-> lesson.kind, count |-> 1, resolved |-> FALSE]
<1>1. /\ lessons' = [id \in DOMAIN lessons \cup {lesson.id} |->
                      IF id = lesson.id THEN new ELSE lessons[id]]
      /\ file' = Lessons!Saved(lessons')
      /\ mistakes' = [mistakes EXCEPT ![lesson.kind[1]] = @ + 1]
  BY DEF Lessons!Store, Lessons!CountMistake
<1>2. new \in Lesson /\ new.count = 1 /\ lesson.kind[1] \in Categories
  BY DEF Noted, Lesson, Lessons!Kinds
<1> HIDE DEF new
<1>3. Counted(lessons, mistakes)
  BY DEF LessonInv
<1>4. \A id \in DOMAIN lessons' : lessons'[id] \in Lesson
  BY <1>1, <1>2, <1>3 DEF Counted
<1>5. \A c \in Categories : Lessons!Returns(lessons', c) \subseteq Lessons!Returns(lessons, c)
  <2> SUFFICES ASSUME NEW c \in Categories, NEW id \in DOMAIN lessons',
                      lessons'[id].kind[1] = c, NEW n \in 2 .. lessons'[id].count
               PROVE  <<id, n>> \in Lessons!Returns(lessons, c)
    BY DEF Lessons!Returns
  <2>1. id # lesson.id
    BY <1>1, <1>2
  <2> QED BY <1>1, <2>1 DEF Lessons!Returns
<1>6. Counted(lessons', mistakes)
  BY <1>3, <1>4, <1>5, FewerCounted
<1>7. Counted(file'.lessons, file'.mistakes)
  <2>1. file'.lessons = Lessons!Active(lessons') /\ file'.mistakes = mistakes
    BY <1>1 DEF Lessons!Saved
  <2> QED BY <1>6, <2>1, ActiveCounted
<1>8. Counted(lessons', [mistakes EXCEPT ![lesson.kind[1]] = @ + 1])
  BY <1>2, <1>4, <1>5, <1>3, MistakeCounted
<1> QED BY <1>1, <1>7, <1>8

LEMMA LessonInitInv == Lessons!Init => LessonInv
<1> SUFFICES ASSUME Lessons!Init PROVE LessonInv
  OBVIOUS
<1>1. /\ lessons = Lessons!Empty.lessons /\ mistakes = Lessons!Empty.mistakes
      /\ file.lessons = Lessons!Empty.lessons /\ file.mistakes = Lessons!Empty.mistakes
      /\ report = <<>>
  BY DEF Lessons!Init, Lessons!Empty
<1>2. report \in Seq(Noted)
  BY <1>1
<1> QED BY <1>1, <1>2, NothingCounted DEF LessonInv

LEMMA ReportsNoted ==
  ASSUME NEW source \in {"fallback", "llm"}, NEW kinds \in Lessons!Reports
  PROVE  Lessons!Numbered(source, kinds) \in Seq(Noted)
<1>1. PICK n \in 1 .. MaxReport : kinds \in [1 .. n -> Lessons!Kinds]
  BY DEF Lessons!Reports
<1>2. \A i \in 1 .. n : [id |-> <<source, i - 1>>, kind |-> kinds[i]] \in Noted
  BY <1>1 DEF Noted, LessonIds
<1>3. Lessons!Numbered(source, kinds) \in [1 .. n -> Noted] /\ n \in Nat
  BY <1>1, <1>2 DEF Lessons!Numbered
<1> QED BY <1>3

LEMMA LessonStep == LessonInv /\ Lessons!Next => LessonInv'
<1> SUFFICES ASSUME LessonInv, Lessons!Next PROVE LessonInv'
  OBVIOUS
<1>1. /\ report \in Seq(Noted)
      /\ Counted(lessons, mistakes) /\ Counted(file.lessons, file.mistakes)
  BY DEF LessonInv
<1>2. ASSUME NEW s \in {"fallback", "llm"}, NEW ks \in Lessons!Reports,
             Lessons!Analyze(s, ks) \/ Lessons!Reflect(s, ks)
      PROVE  LessonInv'
  <2>1. report' \in Seq(Noted)
    BY <1>2, ReportsNoted DEF Lessons!Analyze, Lessons!Reflect
  <2>2. /\ file' = file
        /\ \/ lessons' = lessons /\ mistakes' = mistakes
           \/ lessons' = file.lessons /\ mistakes' = file.mistakes
    BY <1>2 DEF Lessons!Analyze, Lessons!Reflect
  <2> QED BY <1>1, <2>1, <2>2 DEF LessonInv
<1>3. ASSUME NEW t \in FailedTasks, NEW k \in Lessons!Kinds, Lessons!RecordFailure(t, k)
      PROVE  LessonInv'
  <2>1. [id |-> <<"failure", t>>, kind |-> k] \in Noted
    BY DEF Noted, LessonIds
  <2>2. report' \in Seq(Noted) /\ UNCHANGED <<lessons, mistakes, file>>
    BY <1>3, <2>1 DEF Lessons!RecordFailure
  <2> QED BY <1>1, <2>2 DEF LessonInv
<1>4. CASE Lessons!AddLesson
  <2>1. Head(report) \in Noted /\ report' \in Seq(Noted)
    BY <1>1, <1>4 DEF Lessons!AddLesson
  <2>2. CASE Lessons!Merge(Head(report))
    <3>1. file' = file
      BY <2>2 DEF Lessons!Merge
    <3> QED BY <1>1, <2>1, <2>2, <3>1, MergeStep DEF LessonInv
  <2>3. CASE Lessons!Store(Head(report))
    BY <2>1, <2>3, StoreStep DEF LessonInv
  <2> QED BY <1>4, <2>2, <2>3 DEF Lessons!AddLesson
<1>5. CASE Lessons!FinalSave \/ Lessons!Save
  <2>1. /\ UNCHANGED <<lessons, mistakes, report>>
        /\ file'.lessons = Lessons!Active(lessons) /\ file'.mistakes = mistakes
    BY <1>5 DEF Lessons!FinalSave, Lessons!Save, Lessons!Saved
  <2> QED BY <1>1, <2>1, ActiveCounted DEF LessonInv
<1>6. ASSUME NEW id \in DOMAIN lessons, Lessons!Resolve(id) PROVE LessonInv'
  <2>1. /\ lessons' = [lessons EXCEPT ![id].resolved = TRUE]
        /\ UNCHANGED <<mistakes, file, report>>
        /\ \A i \in DOMAIN lessons : lessons[i] \in Lesson
    BY <1>1, <1>6 DEF Lessons!Resolve, Counted
  <2>2. [lessons[id] EXCEPT !.resolved = TRUE] \in Lesson
    BY <2>1 DEF Lesson
  <2>3. /\ DOMAIN lessons' = DOMAIN lessons
        /\ \A i \in DOMAIN lessons : i # id => lessons'[i] = lessons[i]
        /\ lessons'[id] = [lessons[id] EXCEPT !.resolved = TRUE]
    BY <2>1
  <2>4. \A i \in DOMAIN lessons' :
          /\ lessons'[i] \in Lesson
          /\ lessons'[i].kind = lessons[i].kind /\ lessons'[i].count = lessons[i].count
    BY <2>1, <2>2, <2>3 DEF Lesson
  <2>5. \A c \in Categories : Lessons!Returns(lessons', c) \subseteq Lessons!Returns(lessons, c)
    BY <2>3, <2>4 DEF Lessons!Returns
  <2>6. Counted(lessons', mistakes)
    BY <1>1, <2>4, <2>5, FewerCounted
  <2> QED BY <1>1, <2>1, <2>6 DEF LessonInv
<1>7. CASE Lessons!Restart
  <2>1. /\ file' = file \/ file' = Lessons!Empty
        /\ lessons' = file'.lessons /\ mistakes' = file'.mistakes /\ report' = <<>>
    BY <1>7 DEF Lessons!Restart
  <2>2. Counted(file'.lessons, file'.mistakes)
    BY <1>1, <2>1, NothingCounted
  <2>3. report' \in Seq(Noted)
    BY <2>1
  <2> QED BY <2>1, <2>2, <2>3 DEF LessonInv
<1> QED
  BY <1>2, <1>3, <1>4, <1>5, <1>6, <1>7 DEF Lessons!Next

LEMMA LessonsOrAnother == LessonInv /\ [LibraryNext]_LibraryVars => LessonInv'
<1> SUFFICES ASSUME LessonInv, [LibraryNext]_LibraryVars PROVE LessonInv'
  OBVIOUS
<1>1. Lessons!Next \/ UNCHANGED <<lessons, mistakes, file, report>>
  BY DEF LibraryNext, LibraryVars, reflection
<1>2. CASE UNCHANGED <<lessons, mistakes, file, report>>
  BY <1>2 DEF LessonInv
<1> QED BY <1>1, <1>2, LessonStep

\* No return of a lesson is remembered without its mistake (_add_lesson, save,
\* load), for any categories, reports and number of calls: not in memory, not in
\* the file that a save in the middle of _add_lesson writes, and not in what a
\* process that was killed leaves to the next.
THEOREM RepeatsAlwaysCounted == LibrarySpec => []RepeatsCounted
<1>1. LibraryInit => LessonInv
  BY LessonInitInv DEF LibraryInit
<1>2. LessonInv => RepeatsCounted
  BY LessonCardinality
  DEF LessonInv, Counted, RepeatsCounted, Lessons!RepeatsCounted, Lessons!Repeats
<1> QED BY <1>1, <1>2, LessonsOrAnother, PTL DEF LibrarySpec

-----------------------------------------------------------------------------
(* KnowledgeGraph: the searches, for graphs and depths of any size         *)

LEMMA GraphCardinality == ASSUME NEW S PROVE Graph!Cardinality(S) = Cardinality(S)
BY DEF Graph!Cardinality, Cardinality

\* The list that goes through a finite set meets each member once.
LEMMA GraphList ==
  ASSUME NEW S, IsFiniteSet(S)
  PROVE  /\ Graph!SetToSeq(S) \in Seq(S)
         /\ \A x \in S : \E i \in DOMAIN Graph!SetToSeq(S) : Graph!SetToSeq(S)[i] = x
         /\ \A i, j \in DOMAIN Graph!SetToSeq(S) :
              Graph!SetToSeq(S)[i] = Graph!SetToSeq(S)[j] => i = j
<1> DEFINE n == Cardinality(S)
           s == Graph!SetToSeq(S)
<1>1. n \in Nat /\ IsFiniteSet(1 .. n) /\ Cardinality(1 .. n) = n
  BY FS_CardinalityType, FS_Interval
<1>2. PICK f : f \in Bijection(1 .. n, S)
  BY FS_CardinalityType DEF ExistsBijection
<1>3. f \in [1 .. n -> S] /\ \A i, j \in DOMAIN f : f[i] = f[j] => i = j
  BY <1>2 DEF Bijection, Injection, IsInjective
<1>4. s \in [1 .. n -> S] /\ \A i, j \in DOMAIN s : s[i] = s[j] => i = j
  BY <1>3, GraphCardinality DEF Graph!SetToSeq, Graph!IsInjective
<1> HIDE DEF n, s
<1>5. s \in Injection(1 .. n, S)
  BY <1>4 DEF Injection, IsInjective
<1>6. s \in Surjection(1 .. n, S)
  BY <1>1, <1>5, FS_Injection DEF n
<1>7. s \in Seq(S) /\ \A x \in S : \E i \in DOMAIN s : s[i] = x
  BY <1>1, <1>4, <1>6 DEF Surjection
<1> QED BY <1>4, <1>7 DEF s

LEMMA BallStart ==
  ASSUME NEW e \in Entities, NEW via
  PROVE  Graph!Ball(e, via, 0) = {e}
<1>1. [i \in 0 .. 0 |-> e] \in Graph!Walks(e, via, 0)
  BY DEF Graph!Walks
<1>2. \A w \in Graph!Walks(e, via, 0) : w[0] = e
  BY DEF Graph!Walks
<1> QED BY <1>1, <1>2 DEF Graph!Ball

\* A walk goes on with one relationship more, or pauses.
LEMMA WalkOn ==
  ASSUME NEW e, NEW via, NEW k \in Nat, NEW w \in Graph!Walks(e, via, k), NEW x \in Entities,
         x = w[k] \/ x \in Graph!Neighbours(w[k]) \cap via
  PROVE  x \in Graph!Ball(e, via, k + 1)
<1> DEFINE v == [i \in 0 .. k + 1 |-> IF i <= k THEN w[i] ELSE x]
<1>1. w \in [0 .. k -> Entities] /\ w[0] = e
      /\ \A i \in 1 .. k : w[i] = w[i - 1] \/ w[i] \in Graph!Neighbours(w[i - 1]) \cap via
  BY DEF Graph!Walks
<1>2. /\ v \in [0 .. k + 1 -> Entities] /\ v[0] = w[0] /\ v[k + 1] = x /\ v[k] = w[k]
      /\ \A i \in 1 .. k : v[i] = w[i] /\ v[i - 1] = w[i - 1]
      /\ (k + 1) - 1 = k
  BY <1>1
<1> HIDE DEF v
<1>3. ASSUME NEW i \in 1 .. k + 1
      PROVE  v[i] = v[i - 1] \/ v[i] \in Graph!Neighbours(v[i - 1]) \cap via
  <2>1. i \in 1 .. k \/ i = k + 1
    OBVIOUS
  <2>2. CASE i \in 1 .. k
    BY <1>1, <1>2, <2>2
  <2>3. CASE i = k + 1
    BY <1>2, <2>3
  <2> QED BY <2>1, <2>2, <2>3
<1>4. v \in Graph!Walks(e, via, k + 1)
  BY <1>1, <1>2, <1>3 DEF Graph!Walks
<1> QED BY <1>2, <1>4 DEF Graph!Ball

\* What is within k + 1 of e is within k of it, or next to something that is.
LEMMA BallNext ==
  ASSUME NEW e, NEW via, NEW k \in Nat
  PROVE  /\ Graph!Ball(e, via, k) \subseteq Graph!Ball(e, via, k + 1)
         /\ \A y \in Graph!Ball(e, via, k) :
              Graph!Neighbours(y) \cap via \subseteq Graph!Ball(e, via, k + 1)
         /\ \A x \in Graph!Ball(e, via, k + 1) :
              \/ x \in Graph!Ball(e, via, k)
              \/ \E y \in Graph!Ball(e, via, k) : x \in Graph!Neighbours(y) \cap via
<1>1. ASSUME NEW y \in Graph!Ball(e, via, k)
      PROVE  /\ y \in Graph!Ball(e, via, k + 1)
             /\ Graph!Neighbours(y) \cap via \subseteq Graph!Ball(e, via, k + 1)
  <2>1. PICK w \in Graph!Walks(e, via, k) : w[k] = y
    BY DEF Graph!Ball
  <2>2. y \in Entities
    BY <2>1 DEF Graph!Walks
  <2>3. \A x \in Graph!Neighbours(y) : x \in Entities
    BY DEF Graph!Neighbours
  <2> QED BY <2>1, <2>2, <2>3, WalkOn
<1>2. ASSUME NEW x \in Graph!Ball(e, via, k + 1)
      PROVE  \/ x \in Graph!Ball(e, via, k)
             \/ \E y \in Graph!Ball(e, via, k) : x \in Graph!Neighbours(y) \cap via
  <2>1. PICK w \in Graph!Walks(e, via, k + 1) : w[k + 1] = x
    BY DEF Graph!Ball
  <2> DEFINE v == [i \in 0 .. k |-> w[i]]
  <2>2. /\ w \in [0 .. k + 1 -> Entities] /\ w[0] = e
        /\ \A i \in 1 .. k + 1 : w[i] = w[i - 1] \/ w[i] \in Graph!Neighbours(w[i - 1]) \cap via
    BY DEF Graph!Walks
  <2>3. /\ v \in [0 .. k -> Entities] /\ v[0] = w[0] /\ v[k] = w[k]
        /\ \A i \in 1 .. k : v[i] = w[i] /\ v[i - 1] = w[i - 1] /\ i \in 1 .. k + 1
    BY <2>2
  <2> HIDE DEF v
  <2>4. v \in Graph!Walks(e, via, k)
    BY <2>2, <2>3 DEF Graph!Walks
  <2>5. w[k] \in Graph!Ball(e, via, k)
    BY <2>3, <2>4 DEF Graph!Ball
  <2>6. (k + 1) - 1 = k /\ k + 1 \in 1 .. k + 1
    OBVIOUS
  <2>7. x = w[k] \/ x \in Graph!Neighbours(w[k]) \cap via
    BY <2>1, <2>2, <2>6
  <2> QED BY <2>5, <2>7
<1> QED BY <1>1, <1>2

\* A walk cannot leave a set that no relationship leaves.
LEMMA BallClosed ==
  ASSUME NEW e, NEW via, NEW set, e \in set,
         \A y \in set : Graph!Neighbours(y) \cap via \subseteq set,
         NEW k \in Nat
  PROVE  Graph!Ball(e, via, k) \subseteq set
<1> SUFFICES ASSUME NEW w \in Graph!Walks(e, via, k), w[k] \notin set PROVE FALSE
  BY DEF Graph!Ball
<1> DEFINE out == {i \in 0 .. k : w[i] \notin set}
<1>1. out \subseteq Nat /\ out # {}
  OBVIOUS
<1>2. PICK m \in out : \A i \in out : m <= i
  BY <1>1, LeastMember
<1>3. w[0] = e /\ \A i \in 1 .. k : w[i] = w[i - 1] \/ w[i] \in Graph!Neighbours(w[i - 1]) \cap via
  BY DEF Graph!Walks
<1>4. m \in 1 .. k /\ m - 1 \in 0 .. k /\ ~ (m <= m - 1)
  BY <1>2, <1>3
<1>5. w[m - 1] \in set
  BY <1>2, <1>4
<1> QED BY <1>2, <1>3, <1>4, <1>5

LEMMA BallGrows ==
  ASSUME NEW e, NEW via, NEW k \in Nat, NEW m \in Nat, k <= m
  PROVE  Graph!Ball(e, via, k) \subseteq Graph!Ball(e, via, m)
<1> SUFFICES ASSUME NEW w \in Graph!Walks(e, via, k) PROVE w[k] \in Graph!Ball(e, via, m)
  BY DEF Graph!Ball
<1> DEFINE v == [i \in 0 .. m |-> IF i <= k THEN w[i] ELSE w[k]]
<1>1. /\ w \in [0 .. k -> Entities] /\ w[0] = e
      /\ \A i \in 1 .. k : w[i] = w[i - 1] \/ w[i] \in Graph!Neighbours(w[i - 1]) \cap via
  BY DEF Graph!Walks
<1>2. /\ v \in [0 .. m -> Entities] /\ v[0] = w[0] /\ v[m] = w[k]
      /\ \A i \in 1 .. m : i <= k => v[i] = w[i] /\ v[i - 1] = w[i - 1] /\ i \in 1 .. k
      /\ \A i \in 1 .. m : ~ (i <= k) => v[i] = v[i - 1]
  BY <1>1
<1> HIDE DEF v
<1>3. v \in Graph!Walks(e, via, m)
  BY <1>1, <1>2 DEF Graph!Walks
<1> QED BY <1>2, <1>3 DEF Graph!Ball

-----------------------------------------------------------------------------
\* The record of a search, and what its visited set and its queue hold while it
\* goes on.
SearchRecord ==
  [kind : {"expand", "path"}, from : Entities, to : Entities, depth : Nat \ {0}]
Item == [id : Entities, at : Nat]

Via == IF search.kind = "expand" THEN entities ELSE Entities
Reach(k) == Graph!Ball(search.from, Via, k)

SearchType ==
  /\ entities \subseteq Entities /\ entityTable \subseteq Entities
  /\ search \in SearchRecord \cup {Graph!NoSearch} /\ answered \in BOOLEAN
  /\ visited \subseteq Entities /\ queue \in Seq(Item)

\* Two distances at most, the nearer first, and none beyond the depth.
QueueOrdered ==
  /\ \A i \in DOMAIN queue :
       /\ queue[i].id \in Reach(queue[i].at)
       /\ queue[i].at <= queue[1].at + 1 /\ queue[i].at <= search.depth
  /\ \A i, j \in DOMAIN queue : i < j => queue[i].at <= queue[j].at

\* While ids at distance k are taken from the queue: those beyond it wait, and
\* whoever does not has shown its neighbours.
Level(k) ==
  /\ Reach(k) \subseteq visited /\ visited \subseteq Reach(k + 1)
  /\ \A x \in visited \ Reach(k) : \E i \in DOMAIN queue : queue[i] = [id |-> x, at |-> k + 1]
  /\ \A x \in Reach(k) :
       (\A i \in DOMAIN queue : queue[i] # [id |-> x, at |-> k])
         => Graph!Neighbours(x) \cap Via \subseteq visited

Explored ==
  IF queue # <<>> /\ queue[1].at < search.depth
    THEN Level(queue[1].at)
    ELSE visited = Reach(search.depth)

LEMMA ReachKept ==
  ASSUME UNCHANGED <<search, entities, relationships>>
  PROVE  /\ \A k : Reach(k)' = Reach(k)
         /\ \A x : Graph!Neighbours(x)' = Graph!Neighbours(x)
         /\ Via' = Via
BY DEF Reach, Via, Graph!Ball, Graph!Walks, Graph!Neighbours

LEMMA ReachNext ==
  ASSUME SearchType, search \in SearchRecord
  PROVE  /\ Reach(0) = {search.from}
         /\ \A k \in Nat :
              /\ Reach(k) \subseteq Reach(k + 1)
              /\ \A y \in Reach(k) : Graph!Neighbours(y) \cap Via \subseteq Reach(k + 1)
              /\ \A x \in Reach(k + 1) :
                   x \in Reach(k) \/ \E y \in Reach(k) : x \in Graph!Neighbours(y) \cap Via
         /\ \A k, m \in Nat : k <= m => Reach(k) \subseteq Reach(m)
         /\ \A set, k : /\ k \in Nat /\ search.from \in set
                        /\ \A y \in set : Graph!Neighbours(y) \cap Via \subseteq set
                        => Reach(k) \subseteq set
<1>1. search.from \in Entities
  BY DEF SearchRecord
<1> QED BY <1>1, BallStart, BallNext, BallGrows, BallClosed DEF Reach

\* What a queue is when its head was taken and a finite set put behind it.
Requeue(items) == Tail(queue) \o Graph!SetToSeq(items)

LEMMA Requeued ==
  ASSUME queue \in Seq(Item), queue # <<>>, NEW items \in SUBSET Item, IsFiniteSet(items),
         NEW longer, longer = Requeue(items)
  PROVE  /\ longer \in Seq(Item)
         /\ \A i \in DOMAIN longer :
              \/ i + 1 \in DOMAIN queue /\ longer[i] = queue[i + 1]
              \/ ~ (i + 1 \in DOMAIN queue) /\ longer[i] \in items
         /\ \A i \in DOMAIN queue : i > 1 => \E j \in DOMAIN longer : longer[j] = queue[i]
         /\ \A x \in items : \E j \in DOMAIN longer : longer[j] = x
<1> DEFINE list == Graph!SetToSeq(items)
           rest == Tail(queue)
<1>1. list \in Seq(items) /\ \A x \in items : \E i \in DOMAIN list : list[i] = x
  BY GraphList
<1> HIDE DEF list
<1>2. /\ rest \in Seq(Item) /\ Len(queue) = Len(rest) + 1 /\ Len(rest) \in Nat
      /\ \A i \in 1 .. Len(rest) : rest[i] = queue[i + 1]
      /\ DOMAIN queue = 1 .. (Len(rest) + 1)
  OBVIOUS
<1> HIDE DEF rest
<1>3. list \in Seq(Item) /\ Len(list) \in Nat /\ DOMAIN list = 1 .. Len(list)
      /\ \A i \in 1 .. Len(list) : list[i] \in items
  BY <1>1
<1>4. /\ longer \in Seq(Item) /\ DOMAIN longer = 1 .. (Len(rest) + Len(list))
      /\ \A i \in 1 .. Len(rest) : longer[i] = rest[i]
      /\ \A i \in 1 .. Len(list) : longer[Len(rest) + i] = list[i]
  BY <1>2, <1>3 DEF list, rest, Requeue
<1>5. ASSUME NEW i \in DOMAIN longer
      PROVE  \/ i + 1 \in DOMAIN queue /\ longer[i] = queue[i + 1]
             \/ ~ (i + 1 \in DOMAIN queue) /\ longer[i] \in items
  <2>1. CASE i \in 1 .. Len(rest)
    BY <1>2, <1>4, <2>1
  <2>2. CASE i \notin 1 .. Len(rest)
    <3>0. i \in 1 .. (Len(rest) + Len(list)) /\ Len(rest) \in Nat /\ Len(list) \in Nat
      BY <1>2, <1>3, <1>4
    <3>1. i - Len(rest) \in 1 .. Len(list) /\ Len(rest) + (i - Len(rest)) = i
      BY <2>2, <3>0
    <3>2. ~ (i + 1 \in DOMAIN queue)
      BY <1>2, <2>2, <3>0
    <3> QED BY <1>3, <1>4, <3>1, <3>2
  <2> QED BY <2>1, <2>2
<1>6. ASSUME NEW i \in DOMAIN queue, i > 1 PROVE \E j \in DOMAIN longer : longer[j] = queue[i]
  <2>1. i - 1 \in 1 .. Len(rest) /\ i - 1 \in DOMAIN longer /\ (i - 1) + 1 = i
    BY <1>2, <1>3, <1>4, <1>6
  <2> QED BY <1>2, <1>4, <2>1
<1>7. ASSUME NEW x \in items PROVE \E j \in DOMAIN longer : longer[j] = x
  <2>1. PICK i \in 1 .. Len(list) : list[i] = x
    BY <1>1, <1>3
  <2>2. Len(rest) + i \in DOMAIN longer
    BY <1>2, <1>3, <1>4
  <2> QED BY <1>4, <2>1, <2>2
<1> QED BY <1>4, <1>5, <1>6, <1>7

\* The head is taken and what it shows is visited and put behind (Widen, Follow).
LEMMA SpreadStep ==
  ASSUME SearchType, search \in SearchRecord, QueueOrdered, Explored, IsFiniteSet(Entities),
         queue # <<>>, NEW found, Head(queue).at < search.depth,
         found = (Graph!Neighbours(Head(queue).id) \ visited) \cap Via,
         Graph!Enqueue(Head(queue), found),
         UNCHANGED <<entities, relationships, search>>
  PROVE  queue' \in Seq(Item) /\ visited' \subseteq Entities /\ QueueOrdered' /\ Explored'
<1> DEFINE cur == Head(queue)
           a == cur.at
           D == search.depth
           items == {[id |-> n, at |-> a + 1] : n \in found}
           Near(x) == Graph!Neighbours(x)
<1>1. /\ queue \in Seq(Item) /\ visited \subseteq Entities /\ cur = queue[1] /\ cur \in Item
      /\ 1 \in DOMAIN queue /\ a \in Nat /\ D \in Nat /\ a < D
      /\ \A i \in DOMAIN queue : queue[i] \in Item /\ i \in Nat /\ i >= 1
  <2>1. queue \in Seq(Item) /\ visited \subseteq Entities /\ D \in Nat /\ a < D
    BY DEF SearchType, SearchRecord
  <2>2. cur = queue[1] /\ 1 \in DOMAIN queue
    BY <2>1
  <2>3. \A i \in DOMAIN queue : queue[i] \in Item /\ i \in Nat /\ i >= 1
    BY <2>1
  <2>4. cur \in Item /\ a \in Nat
    BY <2>2, <2>3 DEF Item
  <2> QED BY <2>1, <2>2, <2>3, <2>4
<1>2. cur = [id |-> cur.id, at |-> a]
  BY <1>1 DEF Item
<1>3. /\ visited' = visited \cup found
      /\ queue' = Requeue(items)
  BY DEF Graph!Enqueue, Requeue
<1>4. found \subseteq Entities /\ found \subseteq Via /\ found \subseteq Near(cur.id)
      /\ found \cap visited = {} /\ Near(cur.id) \cap Via \subseteq visited \cup found
  BY DEF Graph!Neighbours
<1>5. items \in SUBSET Item /\ IsFiniteSet(items)
  <2>1. IsFiniteSet(found)
    BY <1>4, FS_Subset
  <2>2. [n \in found |-> [id |-> n, at |-> a + 1]] \in Surjection(found, items)
    BY DEF Surjection
  <2>3. items \in SUBSET Item
    BY <1>1, <1>4 DEF Item
  <2> HIDE DEF items, a
  <2> QED BY <2>1, <2>2, <2>3, FS_Surjection
<1>6. \A x \in items : x.id \in found /\ x.at = a + 1
  OBVIOUS
<1>7. \A n \in found : [id |-> n, at |-> a + 1] \in items
  OBVIOUS
<1> HIDE DEF cur, a, D, items, Near
<1>8. /\ queue' \in Seq(Item)
      /\ \A i \in DOMAIN queue' :
           \/ i + 1 \in DOMAIN queue /\ queue'[i] = queue[i + 1]
           \/ ~ (i + 1 \in DOMAIN queue) /\ queue'[i] \in items
      /\ \A i \in DOMAIN queue : i > 1 => \E j \in DOMAIN queue' : queue'[j] = queue[i]
      /\ \A x \in items : \E j \in DOMAIN queue' : queue'[j] = x
  <2>1. queue \in Seq(Item) /\ queue # <<>>
    BY <1>1
  <2> QED BY ONLY <1>3, <1>5, <2>1, Requeued
<1>9. /\ \A i \in DOMAIN queue :
           /\ queue[i].id \in Reach(queue[i].at)
           /\ queue[i].at <= a + 1 /\ queue[i].at <= D
      /\ \A i, j \in DOMAIN queue : i < j => queue[i].at <= queue[j].at
      /\ cur.id \in Reach(a)
  BY <1>1 DEF QueueOrdered, a, D
<1>10. /\ Reach(a) \subseteq visited /\ visited \subseteq Reach(a + 1)
       /\ \A x \in visited \ Reach(a) : \E i \in DOMAIN queue : queue[i] = [id |-> x, at |-> a + 1]
       /\ \A x \in Reach(a) :
            (\A i \in DOMAIN queue : queue[i] # [id |-> x, at |-> a]) => Near(x) \cap Via \subseteq visited
  BY <1>1 DEF Explored, Level, a, D, Near
<1>11. /\ Reach(a) \subseteq Reach(a + 1)
       /\ \A y \in Reach(a) : Near(y) \cap Via \subseteq Reach(a + 1)
       /\ \A x \in Reach(a + 1) : x \in Reach(a) \/ \E y \in Reach(a) : x \in Near(y) \cap Via
       /\ Reach(a + 1) \subseteq Reach((a + 1) + 1)
       /\ Reach(0) = {search.from} /\ Reach(0) \subseteq Reach(a) /\ Reach(a) \subseteq Reach(D)
  BY <1>1, ReachNext DEF Near
<1>12. /\ \A k : Reach(k)' = Reach(k)
       /\ \A x : Near(x)' = Near(x)
       /\ Via' = Via /\ D' = D
  BY ReachKept DEF Near, D
<1>13. found \subseteq Reach(a + 1)
  BY <1>4, <1>9, <1>11
<1>14. /\ \A i \in DOMAIN queue : queue[i].at \in Nat /\ a <= queue[i].at
       /\ \A i \in DOMAIN queue' :
            /\ queue'[i].at \in Nat /\ i \in Nat /\ i >= 1
            /\ queue'[i].id \in Reach(queue'[i].at)
            /\ a <= queue'[i].at /\ queue'[i].at <= a + 1 /\ queue'[i].at <= D
  <2>1. ASSUME NEW i \in DOMAIN queue PROVE queue[i].at \in Nat /\ a <= queue[i].at
    <3>1. queue[i].at \in Nat /\ (i = 1 \/ 1 < i)
      BY <1>1 DEF Item
    <3> QED BY <1>1, <1>9, <3>1 DEF a
  <2>2. ASSUME NEW i \in DOMAIN queue'
        PROVE  /\ queue'[i].at \in Nat /\ queue'[i].id \in Reach(queue'[i].at)
               /\ a <= queue'[i].at /\ queue'[i].at <= a + 1 /\ queue'[i].at <= D
    <3>1. CASE i + 1 \in DOMAIN queue /\ queue'[i] = queue[i + 1]
      BY <1>9, <2>1, <3>1
    <3>2. CASE queue'[i] \in items
      BY <1>1, <1>6, <1>13, <3>2
    <3> QED BY <1>8, <3>1, <3>2
  <2>3. \A i \in DOMAIN queue' : i \in Nat /\ i >= 1
    BY <1>8
  <2> QED BY <2>1, <2>2, <2>3
<1>15. \A i, j \in DOMAIN queue' : i < j => queue'[i].at <= queue'[j].at
  <2> SUFFICES ASSUME NEW i \in DOMAIN queue', NEW j \in DOMAIN queue', i < j
               PROVE  queue'[i].at <= queue'[j].at
    OBVIOUS
  <2>1. i \in Nat /\ j \in Nat /\ i >= 1 /\ queue'[i].at <= a + 1
        /\ queue'[i].at \in Nat /\ queue'[j].at \in Nat
    BY <1>14
  <2>2. CASE queue'[j] \in items
    BY <1>6, <2>1, <2>2
  <2>3. CASE j + 1 \in DOMAIN queue /\ queue'[j] = queue[j + 1]
    <3>1. i + 1 \in DOMAIN queue /\ i + 1 < j + 1
      BY <1>1, <2>1, <2>3
    <3> QED BY <1>8, <1>9, <2>3, <3>1
  <2> QED BY <1>8, <2>2, <2>3
<1>16. QueueOrdered'
  <2>1. ASSUME NEW i \in DOMAIN queue' PROVE queue'[i].at <= queue'[1].at + 1
    <3>1. 1 \in DOMAIN queue'
      BY <1>8
    <3> QED BY <1>1, <1>14, <3>1
  <2> QED BY <1>12, <1>14, <1>15, <2>1 DEF QueueOrdered, D
<1>17. \A x \in visited' \ Reach(a) : \E i \in DOMAIN queue' : queue'[i] = [id |-> x, at |-> a + 1]
  <2> SUFFICES ASSUME NEW x \in visited', x \notin Reach(a)
               PROVE  \E i \in DOMAIN queue' : queue'[i] = [id |-> x, at |-> a + 1]
    OBVIOUS
  <2>1. CASE x \in found
    BY <1>7, <1>8, <2>1
  <2>2. CASE x \in visited
    <3>1. PICK i \in DOMAIN queue : queue[i] = [id |-> x, at |-> a + 1]
      BY <1>10, <2>2
    <3>2. i # 1
      BY <1>1, <1>2, <3>1
    <3>3. i > 1
      BY <1>1, <3>2
    <3> QED BY <1>8, <3>1, <3>3
  <2> QED BY <1>3, <2>1, <2>2
<1>18. \A x \in Reach(a) :
         (\A i \in DOMAIN queue' : queue'[i] # [id |-> x, at |-> a]) => Near(x) \cap Via \subseteq visited'
  <2> SUFFICES ASSUME NEW x \in Reach(a),
                      \A i \in DOMAIN queue' : queue'[i] # [id |-> x, at |-> a]
               PROVE  Near(x) \cap Via \subseteq visited'
    OBVIOUS
  <2>1. CASE x = cur.id
    BY <1>3, <1>4, <2>1 DEF Near
  <2>2. CASE x # cur.id
    <3>1. ASSUME NEW i \in DOMAIN queue PROVE queue[i] # [id |-> x, at |-> a]
      <4>1. CASE i = 1
        BY <1>1, <1>2, <2>2, <4>1
      <4>2. CASE i # 1
        <5>1. i > 1
          BY <1>1, <4>2
        <5> QED BY <1>8, <5>1
      <4> QED BY <4>1, <4>2
    <3> QED BY <1>3, <1>10, <3>1
  <2> QED BY <2>1, <2>2
<1>19. Reach(a) \subseteq visited' /\ visited' \subseteq Reach(a + 1)
  BY <1>3, <1>10, <1>13
<1>20. CASE queue' = <<>>
  <2>1. \A x \in visited' : Near(x) \cap Via \subseteq visited'
    BY <1>17, <1>18, <1>20
  <2>2. Reach(D) \subseteq visited'
    BY <1>1, <1>11, <1>19, <2>1, ReachNext DEF Near
  <2>3. visited' \subseteq Reach(D)
    BY <1>11, <1>17, <1>20
  <2>4. visited' = Reach(D)
    BY <2>2, <2>3
  <2> QED BY <1>3, <1>4, <1>1, <1>8, <1>12, <1>16, <1>20, <2>4 DEF Explored, D
<1>21. CASE queue' # <<>> /\ queue'[1].at = a
  <2>1. queue'[1].at < D
    BY <1>1, <1>21
  <2>2. Explored'
    BY <1>12, <1>17, <1>18, <1>19, <1>21, <2>1 DEF Explored, Level, D, Near
  <2> QED BY <1>1, <1>3, <1>4, <1>8, <1>16, <2>2
<1>22. CASE queue' # <<>> /\ queue'[1].at = a + 1
  <2>1. ASSUME NEW i \in DOMAIN queue' PROVE queue'[i].at = a + 1
    <3>1. i = 1 \/ 1 < i
      BY <1>14
    <3>2. 1 \in DOMAIN queue'
      BY <1>8, <1>22
    <3>3. queue'[1].at <= queue'[i].at /\ queue'[i].at <= a + 1 /\ queue'[i].at \in Nat
      BY <1>14, <1>15, <3>1, <3>2
    <3> QED BY <1>1, <1>22, <3>3
  <2>2. \A x \in Reach(a) : Near(x) \cap Via \subseteq visited'
    <3>1. \A x : \A i \in DOMAIN queue' : queue'[i] # [id |-> x, at |-> a]
      <4>1. a # a + 1
        BY <1>1
      <4> QED BY <2>1, <4>1
    <3> QED BY <1>18, <3>1
  <2>3. visited' = Reach(a + 1)
    BY <1>11, <1>19, <2>2
  <2>4. \A x \in Reach(a + 1) :
          (\A i \in DOMAIN queue' : queue'[i] # [id |-> x, at |-> a + 1])
            => Near(x) \cap Via \subseteq visited'
    BY <1>17, <2>2, <2>3
  <2>5. CASE a + 1 = D
    <3>1. ~ (queue'[1].at < D)
      BY <1>1, <1>22, <2>5
    <3>2. Explored'
      BY <1>12, <2>3, <2>5, <3>1 DEF Explored, D
    <3> QED BY <1>1, <1>3, <1>4, <1>8, <1>16, <3>2
  <2>6. CASE a + 1 < D
    <3>1. queue'[1].at < D
      BY <1>22, <2>6
    <3>2. Explored'
      BY <1>11, <1>12, <1>22, <2>3, <2>4, <2>6, <3>1 DEF Explored, Level, D, Near
    <3> QED BY <1>1, <1>3, <1>4, <1>8, <1>16, <3>2
  <2> QED BY <1>1, <2>5, <2>6
<1> QED
  <2>1. queue' = <<>> \/ (queue' # <<>> /\ queue'[1].at \in {a, a + 1})
    <3>1. queue' # <<>> => 1 \in DOMAIN queue'
      BY <1>8
    <3> QED BY <1>1, <1>14, <3>1
  <2> QED BY <1>20, <1>21, <1>22, <2>1

\* What the search has to show for what it visited.
FoundSoFar ==
  IF search.kind = "expand"
    THEN /\ results \in Seq(Entities) /\ search.from \in visited
         /\ {results[i] : i \in DOMAIN results} = visited \ {search.from}
         /\ \A i, j \in DOMAIN results : results[i] = results[j] => i = j
    ELSE search.to \notin visited /\ results = <<>>

GraphInv ==
  /\ SearchType
  /\ search = Graph!NoSearch => queue = <<>> /\ results = <<>> /\ ~answered
  /\ search # Graph!NoSearch /\ ~answered => QueueOrdered /\ Explored /\ FoundSoFar
  /\ Graph!SearchesExact

\* A search under way has a head to take, or has seen all there is to see.
LEMMA UnderWayFacts ==
  ASSUME GraphInv, Graph!Searching
  PROVE  /\ SearchType /\ search \in SearchRecord /\ QueueOrdered /\ Explored /\ FoundSoFar
         /\ ~answered
BY DEF GraphInv, Graph!Searching, SearchType

LEMMA NotAnswered == ~answered => Graph!SearchesExact
BY DEF Graph!SearchesExact

\* What a search that answers, and leaves the graph as it is, has to show.
LEMMA ExactThen ==
  ASSUME UNCHANGED <<search, entities, relationships>>, search.kind \in {"expand", "path"},
         search.kind = "expand" =>
           /\ {results'[i] : i \in DOMAIN results'} = Reach(search.depth) \ {search.from}
           /\ \A i, j \in DOMAIN results' : results'[i] = results'[j] => i = j,
         search.kind = "path" =>
           IF search.to \in Reach(search.depth)
             THEN /\ Len(results') = 1
                  /\ search.to \in Reach(results'[1])
                  /\ search.to \notin Reach(results'[1] - 1)
             ELSE results' = <<>>
  PROVE  Graph!SearchesExact'
<1>1. CASE search.kind = "expand"
  <2>1. Reach(search.depth) = Graph!Ball(search.from, entities, search.depth)
    BY <1>1 DEF Reach, Via
  <2>2. Reach(search.depth) = Graph!Ball(search.from, entities, search.depth)'
    BY <2>1 DEF Graph!Ball, Graph!Walks, Graph!Neighbours
  <2> QED BY <1>1, <2>2 DEF Graph!SearchesExact, Graph!ToSet, Graph!IsInjective
<1>2. CASE search.kind = "path"
  <2>1. \A k : Reach(k) = Graph!Ball(search.from, Entities, k)
    BY <1>2 DEF Reach, Via
  <2>2. Reach(search.depth) = Graph!Ball(search.from, Entities, search.depth)'
    BY <2>1 DEF Graph!Ball, Graph!Walks, Graph!Neighbours
  <2>3. Reach(results'[1]) = Graph!Ball(search.from, Entities, results[1])'
    BY <2>1 DEF Graph!Ball, Graph!Walks, Graph!Neighbours
  <2>4. Reach(results'[1] - 1) = Graph!Ball(search.from, Entities, results[1] - 1)'
    BY <2>1 DEF Graph!Ball, Graph!Walks, Graph!Neighbours
  <2> QED BY <1>2, <2>2, <2>3, <2>4 DEF Graph!SearchesExact
<1> QED BY <1>1, <1>2

\* expand and find_path begin with the entity itself, at distance 0.
LEMMA SearchBegins ==
  ASSUME GraphInv, NEW s \in SearchRecord, Graph!Begin(s), s.kind # "expand" => s.from # s.to
  PROVE  GraphInv'
<1> DEFINE via == IF s.kind = "expand" THEN entities ELSE Entities
           B(k) == Graph!Ball(s.from, via, k)
           item == [id |-> s.from, at |-> 0]
<1>1. /\ search' = s /\ visited' = {s.from} /\ queue' = <<item>>
      /\ UNCHANGED <<entities, relationships, entityTable, results, answered>>
      /\ results = <<>> /\ ~answered /\ SearchType
  BY DEF Graph!Begin, Graph!Idle, Graph!graph, GraphInv
<1>2. s.from \in Entities /\ s.depth \in Nat /\ 0 < s.depth /\ s \in SearchRecord
      /\ item \in Item /\ item.at = 0 /\ item.id = s.from
  BY DEF SearchRecord, Item
<1>3. s # Graph!NoSearch
  BY DEF SearchRecord, Graph!NoSearch
<1>4. /\ \A k : Reach(k)' = B(k)
      /\ \A x : Graph!Neighbours(x)' = Graph!Neighbours(x)
      /\ Via' = via
  BY <1>1 DEF Reach, Via, Graph!Ball, Graph!Walks, Graph!Neighbours
<1>5. B(0) = {s.from} /\ B(0) \subseteq B(0 + 1)
  BY <1>2, BallStart, BallNext
<1> HIDE DEF via, B, item
<1>6. /\ queue' \in Seq(Item) /\ DOMAIN queue' = {1} /\ queue'[1] = item /\ queue' # <<>>
  BY <1>1, <1>2
<1>7. SearchType'
  BY <1>1, <1>2, <1>6 DEF SearchType
<1>8. QueueOrdered'
  BY <1>1, <1>2, <1>4, <1>5, <1>6 DEF QueueOrdered
<1>9. Explored'
  <2>1. item = [id |-> s.from, at |-> 0]
    BY DEF item
  <2>2. /\ B(0) \subseteq visited' /\ visited' \subseteq B(0 + 1) /\ visited' \subseteq B(0)
        /\ \A x \in B(0) : queue'[1] = [id |-> x, at |-> 0]
    BY <1>1, <1>5, <1>6, <2>1
  <2> QED BY <1>1, <1>2, <1>4, <1>6, <2>2 DEF Explored, Level
<1>10. FoundSoFar'
  <2>1. /\ results' = <<>> /\ DOMAIN results' = {} /\ results' \in Seq(Entities)
    BY <1>1
  <2> QED BY <1>1, <2>1 DEF FoundSoFar
<1>11. Graph!SearchesExact'
  BY <1>1 DEF Graph!SearchesExact
<1>12. (search # Graph!NoSearch)'
  BY <1>1, <1>3 DEF Graph!NoSearch
<1> QED BY <1>7, <1>8, <1>9, <1>10, <1>11, <1>12 DEF GraphInv

\* Beyond the depth the queue only empties.
LEMMA SearchSkips ==
  ASSUME GraphInv, Graph!Skip PROVE GraphInv'
<1>1. /\ SearchType /\ search \in SearchRecord /\ QueueOrdered /\ Explored /\ FoundSoFar
      /\ ~answered
  BY UnderWayFacts DEF Graph!Skip
<1>2. /\ queue' = Tail(queue) /\ queue # <<>> /\ ~ (Head(queue).at < search.depth)
      /\ UNCHANGED <<entities, relationships, entityTable, search, visited, results, answered>>
  <2>1. /\ queue' = Tail(queue) /\ queue # <<>> /\ Head(queue).at >= search.depth
        /\ UNCHANGED <<entities, relationships, entityTable, search, visited, results, answered>>
    BY DEF Graph!Skip, Graph!TooDeep, Graph!graph
  <2>2. Head(queue).at \in Nat /\ search.depth \in Nat
    <3>1. Head(queue) \in Item
      BY <1>1, <2>1 DEF SearchType
    <3> QED BY <1>1, <3>1 DEF Item, SearchRecord
  <2> QED BY <2>1, <2>2
<1>3. /\ queue' \in Seq(Item) /\ Head(queue) = queue[1] /\ 1 \in DOMAIN queue
      /\ \A i \in DOMAIN queue' :
           queue'[i] = queue[i + 1] /\ i + 1 \in DOMAIN queue /\ i \in Nat /\ i >= 1
      /\ \A i \in DOMAIN queue : queue[i].at \in Nat
      /\ queue' # <<>> => 1 \in DOMAIN queue'
  <2>1. queue \in Seq(Item)
    BY <1>1 DEF SearchType
  <2>2. queue' \in Seq(Item) /\ Head(queue) = queue[1] /\ 1 \in DOMAIN queue
    BY <1>2, <2>1
  <2>3. \A i \in DOMAIN queue : queue[i].at \in Nat
    <3>1. \A i \in DOMAIN queue : queue[i] \in Item
      BY <2>1
    <3> QED BY <3>1 DEF Item
  <2>4. \A i \in DOMAIN queue' :
          queue'[i] = queue[i + 1] /\ i + 1 \in DOMAIN queue /\ i \in Nat /\ i >= 1
    BY <1>2, <2>1
  <2> QED BY <2>2, <2>3, <2>4
<1>4. /\ \A k : Reach(k)' = Reach(k)
  BY <1>2, ReachKept
<1>5. visited = Reach(search.depth) /\ search.depth \in Nat
  BY <1>1, <1>2, <1>3 DEF Explored, SearchRecord
<1>6. \A i \in DOMAIN queue : queue[i].at = search.depth
  <2> SUFFICES ASSUME NEW i \in DOMAIN queue PROVE queue[i].at = search.depth
    OBVIOUS
  <2>1. queue[i].at <= search.depth /\ queue[1].at >= search.depth
    BY <1>1, <1>2, <1>3, <1>5 DEF QueueOrdered
  <2>2. i = 1 \/ 1 < i
    BY <1>1 DEF SearchType
  <2>3. queue[1].at <= queue[i].at
    BY <1>1, <1>3, <2>2 DEF QueueOrdered
  <2> QED BY <1>3, <1>5, <2>1, <2>3
<1>7. QueueOrdered'
  <2>1. \A i \in DOMAIN queue' :
          queue'[i].at = search.depth /\ queue'[i].id \in Reach(queue'[i].at)
    BY <1>1, <1>3, <1>6 DEF QueueOrdered
  <2>2. \A i \in DOMAIN queue' :
          queue'[i].at <= queue'[1].at + 1 /\ queue'[i].at <= search.depth
    BY <1>3, <1>5, <2>1
  <2>3. \A i, j \in DOMAIN queue' : i < j => queue'[i].at <= queue'[j].at
    BY <1>5, <2>1
  <2> QED BY <1>2, <1>4, <2>1, <2>2, <2>3 DEF QueueOrdered
<1>8. Explored'
  <2>1. queue' # <<>> => ~ (queue'[1].at < search.depth)
    BY <1>3, <1>5, <1>6
  <2> QED BY <1>2, <1>4, <1>5, <2>1 DEF Explored
<1>9. SearchType' /\ FoundSoFar' /\ Graph!SearchesExact'
  <2>1. SearchType'
    BY <1>1, <1>2, <1>3 DEF SearchType
  <2>2. FoundSoFar'
    BY <1>1, <1>2 DEF FoundSoFar
  <2>3. Graph!SearchesExact'
    BY <1>1, <1>2 DEF Graph!SearchesExact
  <2> QED BY <2>1, <2>2, <2>3
<1>10. (search # Graph!NoSearch)'
  BY <1>1, <1>2 DEF SearchRecord, Graph!NoSearch
<1> QED BY <1>7, <1>8, <1>9, <1>10 DEF GraphInv

LEMMA SearchWidens ==
  ASSUME GraphInv, Graph!Widen, IsFiniteSet(Entities) PROVE GraphInv'
<1> DEFINE cur == Head(queue)
           found == (Graph!Neighbours(cur.id) \ visited) \cap entities
           list == Graph!SetToSeq(found)
<1>1. /\ SearchType /\ search \in SearchRecord /\ QueueOrdered /\ Explored /\ FoundSoFar
      /\ ~answered
  BY UnderWayFacts DEF Graph!Widen
<1>2. /\ queue # <<>> /\ ~ Graph!TooDeep(cur) /\ Graph!Enqueue(cur, found)
      /\ results' = results \o list /\ search.kind = "expand"
      /\ UNCHANGED <<entities, relationships, entityTable, relationshipTable, search, answered>>
  BY DEF Graph!Widen, Graph!graph
<1>3. cur.at < search.depth
  <2>1. cur \in Item
    BY <1>1, <1>2 DEF SearchType
  <2> QED BY <1>1, <1>2, <2>1 DEF Graph!TooDeep, Item, SearchRecord
<1>4. found = (Graph!Neighbours(cur.id) \ visited) \cap Via
  BY <1>2 DEF Via
<1> HIDE DEF found, list
<1>5. queue' \in Seq(Item) /\ visited' \subseteq Entities /\ QueueOrdered' /\ Explored'
  BY <1>1, <1>2, <1>3, <1>4, SpreadStep
<1>6. /\ found \subseteq Entities /\ found \cap visited = {}
      /\ visited' = visited \cup found
  BY <1>1, <1>2 DEF found, SearchType, Graph!Enqueue
<1>7. /\ list \in Seq(found) /\ \A x \in found : \E i \in DOMAIN list : list[i] = x
      /\ \A i, j \in DOMAIN list : list[i] = list[j] => i = j
  <2>1. IsFiniteSet(found)
    BY <1>6, FS_Subset
  <2> QED BY <2>1, GraphList DEF list
<1>8. /\ results \in Seq(Entities) /\ search.from \in visited
      /\ {results[i] : i \in DOMAIN results} = visited \ {search.from}
      /\ \A i, j \in DOMAIN results : results[i] = results[j] => i = j
  BY <1>1, <1>2 DEF FoundSoFar
<1>9. /\ list \in Seq(Entities) /\ results' \in Seq(Entities)
      /\ Len(results) \in Nat /\ Len(list) \in Nat
      /\ DOMAIN results = 1 .. Len(results) /\ DOMAIN list = 1 .. Len(list)
      /\ DOMAIN results' = 1 .. (Len(results) + Len(list))
      /\ \A i \in 1 .. Len(results) : results'[i] = results[i]
      /\ \A i \in 1 .. Len(list) : results'[Len(results) + i] = list[i] /\ list[i] \in found
  <2>1. list \in Seq(Entities) /\ \A i \in 1 .. Len(list) : list[i] \in found
    BY <1>6, <1>7
  <2> QED BY <1>2, <1>8, <2>1
<1>10. ASSUME NEW i \in DOMAIN results'
       PROVE  \/ i \in DOMAIN results /\ results'[i] = results[i] /\ results'[i] \in visited
              \/ /\ i - Len(results) \in DOMAIN list /\ Len(results) + (i - Len(results)) = i
                 /\ results'[i] = list[i - Len(results)] /\ results'[i] \in found
  <2>1. i \in 1 .. (Len(results) + Len(list))
    BY <1>9
  <2>2. CASE i \in 1 .. Len(results)
    BY <1>8, <1>9, <2>2
  <2>3. CASE ~ (i \in 1 .. Len(results))
    <3>1. i - Len(results) \in 1 .. Len(list) /\ Len(results) + (i - Len(results)) = i
      BY <1>9, <2>1, <2>3
    <3> QED BY <1>9, <3>1
  <2> QED BY <2>2, <2>3
<1>11. {results'[i] : i \in DOMAIN results'} = visited' \ {search.from}
  <2>1. ASSUME NEW x \in visited', x # search.from PROVE \E i \in DOMAIN results' : results'[i] = x
    <3>1. CASE x \in visited
      <4>1. PICK i \in DOMAIN results : results[i] = x
        BY <1>8, <2>1, <3>1
      <4>2. i \in DOMAIN results'
        BY <1>9
      <4> QED BY <1>9, <4>1, <4>2
    <3>2. CASE x \in found
      <4>1. PICK i \in DOMAIN list : list[i] = x
        BY <1>7, <3>2
      <4>2. Len(results) + i \in DOMAIN results'
        BY <1>9
      <4> QED BY <1>9, <4>1, <4>2
    <3> QED BY <1>6, <2>1, <3>1, <3>2
  <2>2. ASSUME NEW i \in DOMAIN results' PROVE results'[i] \in visited' /\ results'[i] # search.from
    <3>1. CASE i \in DOMAIN results /\ results'[i] = results[i]
      BY <1>6, <1>8, <3>1
    <3>2. CASE results'[i] \in found
      BY <1>6, <1>8, <3>2
    <3> QED BY <1>10, <3>1, <3>2
  <2> QED BY <2>1, <2>2
<1>12. ASSUME NEW i \in DOMAIN results', NEW j \in DOMAIN results', results'[i] = results'[j]
       PROVE  i = j
  <2>1. CASE results'[i] \in visited
    <3>1. /\ i \in DOMAIN results /\ results'[i] = results[i]
          /\ j \in DOMAIN results /\ results'[j] = results[j]
      BY <1>6, <1>10, <1>12, <2>1
    <3> QED BY <1>8, <1>12, <3>1
  <2>2. CASE results'[i] \notin visited
    <3>1. /\ i - Len(results) \in DOMAIN list /\ j - Len(results) \in DOMAIN list
          /\ list[i - Len(results)] = list[j - Len(results)]
          /\ Len(results) + (i - Len(results)) = i /\ Len(results) + (j - Len(results)) = j
      BY <1>10, <1>12, <2>2
    <3>2. i - Len(results) = j - Len(results)
      BY <1>7, <3>1
    <3> QED BY <3>1, <3>2
  <2> QED BY <2>1, <2>2
<1>13. FoundSoFar'
  BY <1>2, <1>6, <1>8, <1>9, <1>11, <1>12 DEF FoundSoFar
<1>14. SearchType' /\ Graph!SearchesExact'
  <2>1. SearchType'
    BY <1>1, <1>2, <1>5 DEF SearchType
  <2>2. Graph!SearchesExact'
    BY <1>1, <1>2 DEF Graph!SearchesExact
  <2> QED BY <2>1, <2>2
<1>15. (search # Graph!NoSearch)'
  BY <1>1, <1>2 DEF SearchRecord, Graph!NoSearch
<1> QED BY <1>5, <1>13, <1>14, <1>15 DEF GraphInv

LEMMA SearchFollows ==
  ASSUME GraphInv, Graph!Follow, IsFiniteSet(Entities) PROVE GraphInv'
<1> DEFINE cur == Head(queue)
           found == Graph!Neighbours(cur.id) \ visited
<1>1. /\ SearchType /\ search \in SearchRecord /\ QueueOrdered /\ Explored /\ FoundSoFar
      /\ ~answered
  BY UnderWayFacts DEF Graph!Follow
<1>2. /\ queue # <<>> /\ ~ Graph!TooDeep(cur) /\ Graph!Enqueue(cur, found)
      /\ search.to \notin found /\ search.kind = "path"
      /\ UNCHANGED <<entities, relationships, entityTable, relationshipTable, search,
                     results, answered>>
  BY DEF Graph!Follow, Graph!graph
<1>3. cur.at < search.depth
  <2>1. cur \in Item
    BY <1>1, <1>2 DEF SearchType
  <2> QED BY <1>1, <1>2, <2>1 DEF Graph!TooDeep, Item, SearchRecord
<1>4. found = (Graph!Neighbours(cur.id) \ visited) \cap Via
  BY <1>2 DEF Via, Graph!Neighbours
<1> HIDE DEF found
<1>5. queue' \in Seq(Item) /\ visited' \subseteq Entities /\ QueueOrdered' /\ Explored'
  BY <1>1, <1>2, <1>3, <1>4, SpreadStep
<1>6. FoundSoFar'
  BY <1>1, <1>2 DEF FoundSoFar, Graph!Enqueue
<1>7. SearchType' /\ Graph!SearchesExact'
  <2>1. SearchType'
    BY <1>1, <1>2, <1>5 DEF SearchType
  <2>2. Graph!SearchesExact'
    BY <1>1, <1>2 DEF Graph!SearchesExact
  <2> QED BY <2>1, <2>2
<1>8. (search # Graph!NoSearch)'
  BY <1>1, <1>2 DEF SearchRecord, Graph!NoSearch
<1> QED BY <1>5, <1>6, <1>7, <1>8 DEF GraphInv

\* The first relationship that reaches the target is the last of a shortest
\* path: everything nearer was visited before, and the target was not.
LEMMA SearchArrives ==
  ASSUME GraphInv, Graph!Arrive PROVE GraphInv'
<1> DEFINE cur == Head(queue)
           a == cur.at
           D == search.depth
<1>1. /\ SearchType /\ search \in SearchRecord /\ QueueOrdered /\ Explored /\ FoundSoFar
      /\ ~answered
  BY UnderWayFacts DEF Graph!Arrive
<1>2. /\ queue # <<>> /\ ~ Graph!TooDeep(cur) /\ search.kind = "path"
      /\ search.to \in Graph!Neighbours(cur.id) \ visited
      /\ results' = <<a + 1>> /\ answered' = TRUE
      /\ UNCHANGED <<entities, relationships, entityTable, search, visited, queue>>
  BY DEF Graph!Arrive, Graph!graph
<1>3. cur = queue[1] /\ 1 \in DOMAIN queue /\ a \in Nat /\ D \in Nat /\ a < D
  <2>1. cur \in Item /\ cur = queue[1] /\ 1 \in DOMAIN queue
    BY <1>1, <1>2 DEF SearchType
  <2> QED BY <1>1, <1>2, <2>1 DEF Graph!TooDeep, Item, SearchRecord
<1> HIDE DEF cur
<1>4. Reach(a) \subseteq visited /\ cur.id \in Reach(a)
  BY <1>1, <1>2, <1>3 DEF Explored, Level, QueueOrdered
<1>5. Via = Entities /\ search.to \in Via
  BY <1>1, <1>2 DEF Via, SearchRecord
<1> HIDE DEF a, D
<1>6. search.to \in Reach(a + 1) /\ search.to \notin Reach(a) /\ Reach(a + 1) \subseteq Reach(D)
  <2>1. Graph!Neighbours(cur.id) \cap Via \subseteq Reach(a + 1)
    BY <1>1, <1>3, <1>4, ReachNext
  <2>2. a + 1 \in Nat /\ a + 1 <= D
    BY <1>3
  <2>3. Reach(a + 1) \subseteq Reach(D)
    BY <1>1, <1>3, <2>2, ReachNext
  <2> QED BY <1>2, <1>4, <1>5, <2>1, <2>3
<1>7. (a + 1) - 1 = a /\ Len(results') = 1 /\ results'[1] = a + 1
  BY <1>2, <1>3 DEF a
<1>8. Graph!SearchesExact'
  <2>1. search.to \in Reach(search.depth)
    BY <1>6 DEF D
  <2>2. search.to \in Reach(results'[1]) /\ search.to \notin Reach(results'[1] - 1)
    BY <1>6, <1>7
  <2>3. search.kind = "path" /\ Len(results') = 1
    BY <1>2, <1>7
  <2> QED BY <1>2, <2>1, <2>2, <2>3, ExactThen
<1>10. SearchType'
  BY <1>1, <1>2 DEF SearchType
<1>11. (search # Graph!NoSearch)'
  BY <1>1, <1>2 DEF SearchRecord, Graph!NoSearch
<1>12. answered'
  BY <1>2
<1> QED BY <1>8, <1>10, <1>11, <1>12 DEF GraphInv

\* Nothing is left to take: what was visited is all within the depth.
LEMMA SearchEnds ==
  ASSUME GraphInv, Graph!Exhausted PROVE GraphInv'
<1>1. /\ SearchType /\ search \in SearchRecord /\ Explored /\ FoundSoFar
  BY UnderWayFacts DEF Graph!Exhausted
<1>2. /\ queue = <<>> /\ answered' = TRUE
      /\ UNCHANGED <<entities, relationships, entityTable, search, visited, queue, results>>
  BY DEF Graph!Exhausted, Graph!graph
<1>3. visited = Reach(search.depth)
  BY <1>1, <1>2 DEF Explored
<1>4. Graph!SearchesExact'
  <2>1. search.kind \in {"expand", "path"}
    BY <1>1 DEF SearchRecord
  <2>2. search.kind = "expand" =>
          /\ {results'[i] : i \in DOMAIN results'} = Reach(search.depth) \ {search.from}
          /\ \A i, j \in DOMAIN results' : results'[i] = results'[j] => i = j
    BY <1>1, <1>2, <1>3 DEF FoundSoFar
  <2>3. search.kind = "path" => search.to \notin Reach(search.depth) /\ results' = <<>>
    BY <1>1, <1>2, <1>3 DEF FoundSoFar
  <2> QED BY <1>2, <2>1, <2>2, <2>3, ExactThen
<1>5. SearchType'
  BY <1>1, <1>2 DEF SearchType
<1>6. (search # Graph!NoSearch)'
  BY <1>1, <1>2 DEF SearchRecord, Graph!NoSearch
<1> QED BY <1>2, <1>4, <1>5, <1>6 DEF GraphInv

\* Between searches the graph changes, and a search that returned leaves nothing.
LEMMA BetweenSearches ==
  ASSUME GraphInv, search' = Graph!NoSearch, queue' = <<>>, results' = <<>>, answered' = FALSE,
         visited' \subseteq Entities, entities' \subseteq Entities, entityTable' \subseteq Entities
  PROVE  GraphInv'
<1>1. queue' \in Seq(Item)
  OBVIOUS
<1>2. SearchType'
  BY <1>1 DEF SearchType
<1>3. Graph!SearchesExact'
  BY DEF Graph!SearchesExact
<1>4. (search = Graph!NoSearch)'
  BY DEF Graph!NoSearch
<1>5. (queue = <<>> /\ results = <<>> /\ ~answered)'
  OBVIOUS
<1> QED BY <1>2, <1>3, <1>4, <1>5 DEF GraphInv

LEMMA GraphChanges ==
  ASSUME GraphInv,
         \/ \E e \in Entities : Graph!AddEntity(e)
         \/ \E a, b \in Entities : Graph!Relate(a, b)
         \/ Graph!Restart \/ Graph!Load \/ Graph!Return
  PROVE  GraphInv'
<1>1. SearchType /\ visited \subseteq Entities /\ entities \subseteq Entities
      /\ entityTable \subseteq Entities
  BY DEF GraphInv, SearchType
<1>2. Graph!Idle => search = Graph!NoSearch /\ queue = <<>> /\ results = <<>> /\ answered = FALSE
  BY DEF GraphInv, SearchType, Graph!Idle
<1>3. CASE \E e \in Entities : Graph!AddEntity(e)
  <2>1. PICK e \in Entities : Graph!AddEntity(e)
    BY <1>3
  <2> QED BY <1>1, <1>2, <2>1, BetweenSearches DEF Graph!AddEntity, Graph!bfs
<1>4. CASE \E a, b \in Entities : Graph!Relate(a, b)
  <2>1. PICK a \in Entities, b \in Entities : Graph!Relate(a, b)
    BY <1>4
  <2> QED BY <1>1, <1>2, <2>1, BetweenSearches DEF Graph!Relate, Graph!bfs
<1>5. CASE Graph!Restart
  BY <1>1, <1>2, <1>5, BetweenSearches DEF Graph!Restart, Graph!bfs
<1>6. CASE Graph!Load
  BY <1>1, <1>2, <1>6, BetweenSearches DEF Graph!Load, Graph!bfs
<1>7. CASE Graph!Return
  BY <1>1, <1>7, BetweenSearches DEF Graph!Return, Graph!graph
<1> QED BY <1>3, <1>4, <1>5, <1>6, <1>7

LEMMA KnowledgeStep ==
  ASSUME GraphInv, Graph!Next PROVE GraphInv'
<1>1. ASSUME NEW e \in Entities, NEW d \in 1 .. MaxDepth, Graph!Expand(e, d) PROVE GraphInv'
  <2> DEFINE s == [kind |-> "expand", from |-> e, to |-> e, depth |-> d]
  <2>1. s \in SearchRecord /\ s.kind = "expand"
    BY DEF SearchRecord
  <2>2. Graph!Begin(s)
    BY <1>1 DEF Graph!Expand
  <2> HIDE DEF s
  <2> QED BY <2>1, <2>2, SearchBegins
<1>2. ASSUME NEW a \in Entities, NEW b \in Entities, NEW d \in 1 .. MaxDepth,
             Graph!FindPath(a, b, d)
      PROVE  GraphInv'
  <2> DEFINE s == [kind |-> "path", from |-> a, to |-> b, depth |-> d]
  <2>1. s \in SearchRecord /\ s.from # s.to
    BY <1>2 DEF SearchRecord, Graph!FindPath
  <2>2. Graph!Begin(s)
    BY <1>2 DEF Graph!FindPath
  <2> HIDE DEF s
  <2> QED BY <2>1, <2>2, SearchBegins
<1>3. IsFiniteSet(Entities)
  BY LibraryAssumption
<1> QED
  BY <1>1, <1>2, <1>3, SearchEnds, SearchSkips, SearchWidens, SearchFollows, SearchArrives,
     GraphChanges DEF Graph!Next

LEMMA KnowledgeInit == LibraryInit => GraphInv
<1> SUFFICES ASSUME LibraryInit PROVE GraphInv
  OBVIOUS
<1>1. /\ entities = {} /\ entityTable = {} /\ search = Graph!NoSearch /\ visited = {}
      /\ queue = <<>> /\ results = <<>> /\ answered = FALSE
  BY DEF LibraryInit, Graph!Init
<1>2. SearchType
  <2>1. queue \in Seq(Item)
    BY <1>1
  <2> QED BY <1>1, <2>1 DEF SearchType
<1> QED BY <1>1, <1>2, NotAnswered DEF GraphInv

LEMMA KnowledgeStill ==
  ASSUME GraphInv, UNCHANGED knowledge PROVE GraphInv'
<1>1. UNCHANGED <<entities, relationships, entityTable, search, visited, queue, results, answered>>
  BY DEF knowledge
<1>2. /\ \A k : Reach(k)' = Reach(k)
      /\ \A x : Graph!Neighbours(x)' = Graph!Neighbours(x)
      /\ Via' = Via
  BY <1>1, ReachKept
<1>3. SearchType'
  BY <1>1 DEF GraphInv, SearchType
<1>4. Graph!SearchesExact'
  BY <1>1 DEF GraphInv, Graph!SearchesExact, Graph!Ball, Graph!Walks, Graph!Neighbours
<1>5. ((search = Graph!NoSearch) => queue = <<>> /\ results = <<>> /\ ~answered)'
  BY <1>1 DEF GraphInv, Graph!NoSearch
<1>6. QueueOrdered => QueueOrdered'
  BY <1>1, <1>2 DEF QueueOrdered
<1>7. Explored => Explored'
  BY <1>1, <1>2 DEF Explored, Level
<1>8. FoundSoFar => FoundSoFar'
  BY <1>1 DEF FoundSoFar
<1>9. (search # Graph!NoSearch /\ ~answered)' => search # Graph!NoSearch /\ ~answered
  BY <1>1 DEF Graph!NoSearch
<1> QED BY <1>3, <1>4, <1>5, <1>6, <1>7, <1>8, <1>9 DEF GraphInv

LEMMA KnowledgeAlways == LibrarySpec => []GraphInv
<1>1. GraphInv /\ [LibraryNext]_LibraryVars => GraphInv'
  <2> SUFFICES ASSUME GraphInv, [LibraryNext]_LibraryVars PROVE GraphInv'
    OBVIOUS
  <2>1. Graph!Next \/ UNCHANGED knowledge
    BY DEF LibraryNext, LibraryVars
  <2> QED BY <2>1, KnowledgeStep, KnowledgeStill
<1> QED BY <1>1, KnowledgeInit, PTL DEF LibrarySpec

\* For every set of entities, every relationship made between them and every
\* depth: expand returns what is within its depth, through entities of the graph
\* only, once each; find_path a shortest path, or none exactly when there is none.
THEOREM SearchesAlwaysExact == LibrarySpec => []SearchesExact
<1>1. GraphInv => SearchesExact
  BY DEF GraphInv, SearchesExact
<1> QED BY <1>1, KnowledgeAlways, PTL

-----------------------------------------------------------------------------
(* ToolSchemas: definitions and calls through the formats of the providers *)

\* A property of a schema: an object, of which an enum is not empty.
Tidy(q) == /\ q = [k \in DOMAIN q |-> q[k]]
           /\ "enum" \in DOMAIN q => q["enum"] # {}

TidySchema(s) ==
  /\ s = [properties |-> s.properties, required |-> s.required]
  /\ s.properties = [n \in DOMAIN s.properties |-> s.properties[n]]
  /\ \A n \in DOMAIN s.properties : Tidy(s.properties[n])

\* What the author of a tool can have written: parameters, or a schema.
ByParameters(w) ==
  \E params, required :
    /\ w = [params |-> params, required |-> required]
    /\ params \in [DOMAIN params -> Schema!Parameters]
BySchema(w) ==
  /\ w = [properties |-> w.properties, required |-> w.required] /\ TidySchema(w)

\* A schema that shows what was written, with the keys that it needs for it.
Shows(s, w) ==
  /\ TidySchema(s)
  /\ Schema!SameSchema(s, w)
  /\ \/ BySchema(w)
     \/ /\ ByParameters(w)
        /\ \A n \in DOMAIN w.params :
             /\ "type" \in DOMAIN s.properties[n]
             /\ DOMAIN w.params[n].extra \subseteq DOMAIN s.properties[n]

Shown(d, w) == Shows(Schema!Render(d), w) /\ Shows(Schema!RenderCustom(d), w)

Imported(q, b) ==
  [type |-> Schema!Key(q, "type", "string"), enum |-> Schema!Key(q, "enum", {}),
   default |-> "none", extra |-> Schema!Without(q, {"type", "enum"}), required |-> b]

\* A property keeps its keys on the way through a provider, and has a type then.
LEMMA PropertyKept ==
  ASSUME NEW q, NEW b, Tidy(q), NEW r, r = Schema!Property(Imported(q, b))
  PROVE  /\ Tidy(r) /\ "type" \in DOMAIN r /\ DOMAIN q \subseteq DOMAIN r
         /\ Schema!Key(r, "enum", {}) = Schema!Key(q, "enum", {})
         /\ \A k \in DOMAIN q : r[k] = q[k]
         /\ "type" \in DOMAIN q => r = q
<1> DEFINE p == Imported(q, b)
           e == Schema!Present("enum", p.enum)
           t == Schema!Only("type", p.type)
<1>1. /\ p.type = Schema!Key(q, "type", "string") /\ p.enum = Schema!Key(q, "enum", {})
      /\ p.extra = Schema!Without(q, {"type", "enum"})
  BY DEF Imported
<1>2. /\ DOMAIN e = IF p.enum = {} THEN {} ELSE {"enum"}
      /\ \A k \in DOMAIN e : e[k] = p.enum
  BY DEF Schema!Present, Schema!Only, Schema!NoKeys
<1>3. DOMAIN t = {"type"} /\ t["type"] = p.type
  BY DEF Schema!Only
<1>4. /\ DOMAIN p.extra = DOMAIN q \ {"type", "enum"}
      /\ \A k \in DOMAIN p.extra : p.extra[k] = q[k]
  BY <1>1 DEF Schema!Without
<1>5. r = Schema!Over(p.extra, Schema!Over(e, t))
  BY DEF Schema!Property
<1> HIDE DEF p, e, t
<1>6. /\ r = [k \in DOMAIN r |-> r[k]]
      /\ DOMAIN r = DOMAIN p.extra \cup (DOMAIN e \cup DOMAIN t)
      /\ \A k \in DOMAIN r :
           r[k] = IF k \in DOMAIN p.extra THEN p.extra[k] ELSE IF k \in DOMAIN e THEN e[k] ELSE t[k]
  BY <1>5 DEF Schema!Over
<1>7. "enum" \in DOMAIN q <=> p.enum # {}
  BY <1>1 DEF Tidy, Schema!Key
<1>8. "type" \in DOMAIN r /\ DOMAIN q \subseteq DOMAIN r
  BY <1>2, <1>3, <1>4, <1>6, <1>7
<1>9. \A k \in DOMAIN q : r[k] = q[k]
  BY <1>1, <1>2, <1>3, <1>4, <1>6, <1>7, <1>8 DEF Schema!Key
<1>10. "enum" \in DOMAIN r <=> "enum" \in DOMAIN q
  BY <1>2, <1>3, <1>4, <1>6, <1>7
<1>11. Tidy(r)
  BY <1>6, <1>9, <1>10 DEF Tidy
<1>12. Schema!Key(r, "enum", {}) = Schema!Key(q, "enum", {})
  BY <1>9, <1>10 DEF Schema!Key
<1>13. ASSUME "type" \in DOMAIN q PROVE r = q
  <2>1. DOMAIN r = DOMAIN q
    BY <1>2, <1>3, <1>4, <1>6, <1>8, <1>10, <1>13
  <2> QED BY <1>6, <1>9, <2>1 DEF Tidy
<1> QED BY <1>8, <1>9, <1>11, <1>12, <1>13

\* The required names of a definition, and of what it is imported from.
LEMMA RequiredKept ==
  ASSUME NEW provider, NEW s
  PROVE  /\ Schema!Import(provider, s).required = s.required
         /\ Schema!Import(provider, s).raw = {s}
         /\ Schema!Import(provider, s).provider = provider
         /\ Schema!Import(provider, s).params =
              [n \in DOMAIN s.properties |-> Imported(s.properties[n], n \in s.required)]
<1> DEFINE params == [n \in DOMAIN s.properties |-> Imported(s.properties[n], n \in s.required)]
<1>1. Schema!Import(provider, s) = Schema!Definition(provider, params, s.required, {s})
  BY DEF Schema!Import, Imported
<1> DEFINE inferred == {n \in DOMAIN params : params[n].required}
<1>2. inferred \subseteq s.required
  BY DEF Imported
<1>3. Schema!Import(provider, s).required = s.required
  <2>1. Schema!Import(provider, s).required =
          IF s.required = {} THEN inferred ELSE s.required
    BY <1>1 DEF Schema!Definition
  <2> HIDE DEF inferred
  <2> QED BY <1>2, <2>1
<1> HIDE DEF params
<1>4. /\ Schema!Import(provider, s).raw = {s} /\ Schema!Import(provider, s).provider = provider
      /\ Schema!Import(provider, s).params = params
  BY <1>1 DEF Schema!Definition
<1> QED BY <1>3, <1>4 DEF params

LEMMA OnlyMember == ASSUME NEW x PROVE Schema!The({x}) = x
BY DEF Schema!The

\* A definition that came from one provider shows the next what it showed.
LEMMA ImportShows ==
  ASSUME NEW provider \in Schema!Providers, NEW s, NEW w, Shows(s, w)
  PROVE  Shown(Schema!Import(provider, s), w)
<1> DEFINE d == Schema!Import(provider, s)
           r == Schema!Render(d)
<1>1. /\ d.required = s.required /\ d.raw = {s} /\ d.provider = provider
      /\ d.params = [n \in DOMAIN s.properties |-> Imported(s.properties[n], n \in s.required)]
  BY RequiredKept
<1>2. provider # "custom"
  BY DEF Schema!Providers
<1> HIDE DEF d
<1>3. r = [properties |-> [n \in DOMAIN d.params |-> Schema!Property(d.params[n])],
           required |-> d.required]
  BY <1>1, <1>2 DEF Schema!Render, Schema!Built
<1> HIDE DEF r
<1>4. /\ r.required = s.required /\ DOMAIN r.properties = DOMAIN s.properties
      /\ r = [properties |-> r.properties, required |-> r.required]
      /\ r.properties = [n \in DOMAIN r.properties |-> r.properties[n]]
      /\ \A n \in DOMAIN s.properties :
           r.properties[n] = Schema!Property(Imported(s.properties[n], n \in s.required))
  BY <1>1, <1>3
<1>5. TidySchema(s) /\ Schema!SameSchema(s, w)
  BY DEF Shows
<1>6. ASSUME NEW n \in DOMAIN s.properties
      PROVE  LET q == s.properties[n] IN
             /\ Tidy(r.properties[n]) /\ "type" \in DOMAIN r.properties[n]
             /\ DOMAIN q \subseteq DOMAIN r.properties[n]
             /\ Schema!Key(r.properties[n], "enum", {}) = Schema!Key(q, "enum", {})
             /\ \A k \in DOMAIN q : r.properties[n][k] = q[k]
             /\ "type" \in DOMAIN q => r.properties[n] = q
  <2>1. Tidy(s.properties[n])
    BY <1>5 DEF TidySchema
  <2> QED BY <1>4, <2>1, PropertyKept
<1>7. TidySchema(r)
  BY <1>4, <1>6 DEF TidySchema
<1>8. Shows(r, w)
  <2>1. CASE BySchema(w)
    <3>1. "params" \notin DOMAIN w
      BY <2>1 DEF BySchema
    <3>2. /\ s.required = Schema!RequiredAsWritten(w)
          /\ DOMAIN s.properties = DOMAIN w.properties
          /\ \A n \in DOMAIN w.properties :
               "type" \in DOMAIN w.properties[n] => s.properties[n] = w.properties[n]
      BY <1>5, <3>1 DEF Schema!SameSchema
    <3>3. Schema!SameSchema(r, w)
      BY <1>4, <1>6, <3>1, <3>2 DEF Schema!SameSchema
    <3> QED BY <1>7, <2>1, <3>3 DEF Shows
  <2>2. CASE ~BySchema(w)
    <3>1. /\ ByParameters(w)
          /\ \A n \in DOMAIN w.params :
               /\ "type" \in DOMAIN s.properties[n]
               /\ DOMAIN w.params[n].extra \subseteq DOMAIN s.properties[n]
      BY <2>2 DEF Shows
    <3>2. "params" \in DOMAIN w
      BY <3>1 DEF ByParameters
    <3>3. /\ s.required = Schema!RequiredAsWritten(w)
          /\ DOMAIN s.properties = DOMAIN w.params
          /\ \A n \in DOMAIN w.params : Schema!SameParameter(s.properties[n], w.params[n])
      BY <1>5, <3>2 DEF Schema!SameSchema
    <3>4. \A n \in DOMAIN w.params :
            /\ Schema!SameParameter(r.properties[n], w.params[n])
            /\ "type" \in DOMAIN r.properties[n]
            /\ DOMAIN w.params[n].extra \subseteq DOMAIN r.properties[n]
      <4> SUFFICES ASSUME NEW n \in DOMAIN w.params
                   PROVE  /\ Schema!SameParameter(r.properties[n], w.params[n])
                          /\ "type" \in DOMAIN r.properties[n]
                          /\ DOMAIN w.params[n].extra \subseteq DOMAIN r.properties[n]
        OBVIOUS
      <4>1. r.properties[n] = s.properties[n]
        BY <1>6, <3>1, <3>3
      <4> QED BY <3>1, <3>3, <4>1
    <3>5. Schema!SameSchema(r, w)
      BY <1>4, <3>2, <3>3, <3>4 DEF Schema!SameSchema
    <3> QED BY <1>7, <3>1, <3>4, <3>5 DEF Shows
  <2> QED BY <2>1, <2>2
<1>9. Schema!RenderCustom(d) = s
  BY <1>1, OnlyMember DEF Schema!RenderCustom
<1> QED BY <1>8, <1>9 DEF Shown, r, d

\* A definition made of parameters shows what they say.
LEMMA DefinitionShows ==
  ASSUME NEW params, NEW required, params \in [DOMAIN params -> Schema!Parameters]
  PROVE  Shown(Schema!Definition("custom", params, required, {}),
               [params |-> params, required |-> required])
<1> DEFINE w == [params |-> params, required |-> required]
           d == Schema!Definition("custom", params, required, {})
<1>1. /\ d.params = params /\ d.raw = {}
      /\ d.required = Schema!RequiredAsWritten(w)
      /\ w.params = params /\ "params" \in DOMAIN w
  BY DEF Schema!Definition, Schema!RequiredAsWritten
<1>2. ByParameters(w)
  BY DEF ByParameters
<1> HIDE DEF d, w
<1>3. ASSUME NEW s, NEW f, s = [properties |-> f, required |-> d.required],
             f = [n \in DOMAIN params |-> f[n]],
             \A n \in DOMAIN params :
               /\ Tidy(f[n]) /\ "type" \in DOMAIN f[n]
               /\ DOMAIN params[n].extra \subseteq DOMAIN f[n]
               /\ Schema!SameParameter(f[n], params[n])
      PROVE  Shows(s, w)
  <2>1. s.properties = f /\ s.required = d.required /\ DOMAIN f = DOMAIN params
    BY <1>3
  <2>2. TidySchema(s)
    BY <1>3, <2>1 DEF TidySchema
  <2>3. Schema!SameSchema(s, w)
    BY <1>1, <1>3, <2>1 DEF Schema!SameSchema
  <2> QED BY <1>1, <1>2, <1>3, <2>1, <2>2, <2>3 DEF Shows
<1>4. ASSUME NEW p \in Schema!Parameters, NEW q,
             \E base : /\ base = [k \in DOMAIN base |-> base[k]]
                       /\ "type" \in DOMAIN base /\ base["type"] = p.type
                       /\ "enum" \notin DOMAIN base
                       /\ DOMAIN base \subseteq {"type", "minLength"}
                       /\ q = Schema!Over(p.extra, Schema!Over(Schema!Present("enum", p.enum), base))
      PROVE  /\ Tidy(q) /\ "type" \in DOMAIN q /\ DOMAIN p.extra \subseteq DOMAIN q
             /\ Schema!SameParameter(q, p)
  <2>1. PICK base : /\ base = [k \in DOMAIN base |-> base[k]]
                    /\ "type" \in DOMAIN base /\ base["type"] = p.type
                    /\ "enum" \notin DOMAIN base
                    /\ DOMAIN base \subseteq {"type", "minLength"}
                    /\ q = Schema!Over(p.extra, Schema!Over(Schema!Present("enum", p.enum), base))
    BY <1>4
  <2>2. "enum" \notin DOMAIN p.extra
    BY DEF Schema!Parameters, Schema!Extras, Schema!NoKeys, Schema!Only
  <2> DEFINE e == Schema!Present("enum", p.enum)
  <2>3. /\ DOMAIN e = IF p.enum = {} THEN {} ELSE {"enum"}
        /\ \A k \in DOMAIN e : e[k] = p.enum
    BY DEF Schema!Present, Schema!Only, Schema!NoKeys
  <2> HIDE DEF e
  <2>4. /\ q = [k \in DOMAIN q |-> q[k]]
        /\ DOMAIN q = DOMAIN p.extra \cup (DOMAIN e \cup DOMAIN base)
        /\ \A k \in DOMAIN q :
             q[k] = IF k \in DOMAIN p.extra THEN p.extra[k]
                    ELSE IF k \in DOMAIN e THEN e[k] ELSE base[k]
    BY <2>1 DEF Schema!Over, e
  <2>5. "enum" \in DOMAIN q <=> p.enum # {}
    BY <2>1, <2>2, <2>3, <2>4
  <2>6. "enum" \in DOMAIN q => q["enum"] = p.enum
    BY <2>1, <2>2, <2>3, <2>4
  <2>7. Tidy(q)
    BY <2>4, <2>5, <2>6 DEF Tidy
  <2>8. Schema!Key(q, "enum", {}) = p.enum
    BY <2>5, <2>6 DEF Schema!Key
  <2>9. "type" \in DOMAIN q /\ q["type"] = Schema!Key(p.extra, "type", p.type)
    BY <2>1, <2>3, <2>4 DEF Schema!Key
  <2>10. DOMAIN q \subseteq {"type", "enum", "minLength"} \cup DOMAIN p.extra
    BY <2>1, <2>3, <2>4
  <2> QED BY <2>4, <2>7, <2>8, <2>9, <2>10 DEF Schema!SameParameter
<1>5. Shows(Schema!Render(d), w)
  <2> DEFINE f == [n \in DOMAIN params |-> Schema!Property(params[n])]
  <2>1. Schema!Render(d) = [properties |-> f, required |-> d.required]
    BY <1>1 DEF Schema!Render, Schema!Built
  <2>2. ASSUME NEW n \in DOMAIN params
        PROVE  /\ Tidy(f[n]) /\ "type" \in DOMAIN f[n]
               /\ DOMAIN params[n].extra \subseteq DOMAIN f[n]
               /\ Schema!SameParameter(f[n], params[n])
    <3>1. params[n] \in Schema!Parameters
      OBVIOUS
    <3>2. LET base == Schema!Only("type", params[n].type) IN
          /\ base = [k \in DOMAIN base |-> base[k]] /\ DOMAIN base = {"type"}
          /\ base["type"] = params[n].type
      BY DEF Schema!Only
    <3>3. f[n] = Schema!Over(params[n].extra, Schema!Over(Schema!Present("enum", params[n].enum),
                                                          Schema!Only("type", params[n].type)))
      BY DEF Schema!Property
    <3> HIDE DEF f
    <3> QED BY <1>4, <3>1, <3>2, <3>3
  <2>3. f = [n \in DOMAIN params |-> f[n]]
    OBVIOUS
  <2> HIDE DEF f
  <2> QED BY <1>3, <2>1, <2>2, <2>3
<1>6. Shows(Schema!RenderCustom(d), w)
  <2> DEFINE f == [n \in DOMAIN params |-> Schema!CustomProperty(params[n])]
  <2>1. Schema!RenderCustom(d) = [properties |-> f, required |-> d.required]
    BY <1>1 DEF Schema!RenderCustom, Schema!Built
  <2>2. ASSUME NEW n \in DOMAIN params
        PROVE  /\ Tidy(f[n]) /\ "type" \in DOMAIN f[n]
               /\ DOMAIN params[n].extra \subseteq DOMAIN f[n]
               /\ Schema!SameParameter(f[n], params[n])
    <3> DEFINE base ==
          Schema!Over(IF params[n].required THEN Schema!Only("minLength", 1) ELSE Schema!NoKeys,
                      Schema!Only("type", params[n].type))
    <3>1. params[n] \in Schema!Parameters
      OBVIOUS
    <3>2. /\ base = [k \in DOMAIN base |-> base[k]]
          /\ "type" \in DOMAIN base /\ DOMAIN base \subseteq {"type", "minLength"}
          /\ base["type"] = params[n].type
      BY DEF Schema!Only, Schema!Over, Schema!NoKeys
    <3>3. f[n] = Schema!Over(params[n].extra, Schema!Over(Schema!Present("enum", params[n].enum), base))
      BY DEF Schema!CustomProperty
    <3> HIDE DEF f, base
    <3> QED BY <1>4, <3>1, <3>2, <3>3
  <2>3. f = [n \in DOMAIN params |-> f[n]]
    OBVIOUS
  <2> HIDE DEF f
  <2> QED BY <1>3, <2>1, <2>2, <2>3
<1> QED BY <1>5, <1>6 DEF Shown, d, w

\* Of a definition, the schemas that it renders to show what was written; a
\* call is an object with a name and arguments, and the one that was made.
SchemaInv ==
  /\ \/ tool = {} /\ written = {}
     \/ \E d, w : tool = {d} /\ written = {w} /\ Shown(d, w)
  /\ call = asked
  /\ call = {} \/ \E n, a : call = {[name |-> n, arguments |-> a]}

\* A schema that a caller or a provider brings shows itself.
LEMMA SchemaItself ==
  ASSUME NEW s \in Schema!Schemas PROVE Shows(s, s)
<1>1. /\ s = [properties |-> s.properties, required |-> s.required]
      /\ s.properties = [n \in DOMAIN s.properties |-> s.properties[n]]
      /\ \A n \in DOMAIN s.properties :
           \E e \in Schema!Enums, t \in {Schema!NoKeys} \cup {Schema!Only("type", type) : type \in Schema!Types} :
             s.properties[n] = Schema!Over(Schema!Present("enum", e), t)
  BY DEF Schema!Schemas, Schema!PartialFunctions
<1>2. ASSUME NEW n \in DOMAIN s.properties PROVE Tidy(s.properties[n])
  <2>1. PICK e \in Schema!Enums,
             t \in {Schema!NoKeys} \cup {Schema!Only("type", type) : type \in Schema!Types} :
             s.properties[n] = Schema!Over(Schema!Present("enum", e), t)
    BY <1>1
  <2>2. "enum" \notin DOMAIN t
    BY DEF Schema!NoKeys, Schema!Only
  <2> DEFINE q == s.properties[n]
             first == Schema!Present("enum", e)
  <2>3. /\ "enum" \in DOMAIN first <=> e # {}
        /\ \A k \in DOMAIN first : first[k] = e
    BY DEF Schema!Present, Schema!Only, Schema!NoKeys
  <2> HIDE DEF first
  <2>4. /\ q = [k \in DOMAIN q |-> q[k]]
        /\ DOMAIN q = DOMAIN first \cup DOMAIN t
        /\ \A k \in DOMAIN q : q[k] = IF k \in DOMAIN first THEN first[k] ELSE t[k]
    BY <2>1 DEF Schema!Over, first
  <2> HIDE DEF q
  <2>5. Tidy(q)
    BY <2>2, <2>3, <2>4 DEF Tidy
  <2> QED BY <2>5 DEF q
<1>3. TidySchema(s)
  BY <1>1, <1>2 DEF TidySchema
<1>4. BySchema(s)
  BY <1>1, <1>3 DEF BySchema
<1>5. "params" \notin DOMAIN s /\ "properties" \in DOMAIN s
  BY <1>1
<1>6. Schema!SameSchema(s, s)
  BY <1>5 DEF Schema!SameSchema, Schema!RequiredAsWritten
<1> QED BY <1>3, <1>4, <1>6 DEF Shows

\* What a model sends, and what another provider's result is rendered to, is
\* read as the call it was.
LEMMA CallKept ==
  ASSUME NEW provider \in Schema!Providers, NEW n, NEW a, NEW c,
         c = [name |-> n, arguments |-> a]
  PROVE  /\ Schema!Unwrap(provider, Schema!Native(provider, c)) = c
         /\ Schema!Unwrap(provider, Schema!RenderCall(provider, c)) = c
<1>1. provider = "openai" \/ provider = "anthropic" \/ provider = "gemini"
  BY DEF Schema!Providers
<1>2. CASE provider = "openai"
  BY <1>2 DEF Schema!Unwrap, Schema!Native, Schema!RenderCall, Schema!Key
<1>3. CASE provider = "anthropic"
  BY <1>3 DEF Schema!Unwrap, Schema!Native, Schema!RenderCall, Schema!Key
<1>4. CASE provider = "gemini"
  BY <1>4 DEF Schema!Unwrap, Schema!Native, Schema!RenderCall, Schema!Key
<1> QED BY <1>1, <1>2, <1>3, <1>4

LEMMA SchemaStep ==
  ASSUME SchemaInv, Schema!Next PROVE SchemaInv'
<1>1. CASE Schema!Define
  <2>1. PICK params \in Schema!PartialFunctions(Names, Schema!Parameters), required \in SUBSET Names :
          /\ tool' = {Schema!Definition("custom", params, required, {})}
          /\ written' = {[params |-> params, required |-> required]}
    BY <1>1 DEF Schema!Define
  <2>2. params \in [DOMAIN params -> Schema!Parameters]
    BY DEF Schema!PartialFunctions
  <2>3. UNCHANGED <<call, asked>>
    BY <1>1 DEF Schema!Define
  <2> QED BY <2>1, <2>2, <2>3, DefinitionShows DEF SchemaInv
<1>2. CASE Schema!Take
  <2>1. PICK s \in Schema!Schemas :
          /\ written' = {s}
          /\ \/ tool' = {Schema!Definition("custom", Schema!NoKeys, {}, {s})}
             \/ \E p \in Schema!Providers : tool' = {Schema!Import(p, s)}
    BY <1>2 DEF Schema!Take
  <2>2. Shows(s, s) /\ UNCHANGED <<call, asked>>
    BY <1>2, SchemaItself DEF Schema!Take
  <2>3. CASE tool' = {Schema!Definition("custom", Schema!NoKeys, {}, {s})}
    <3> DEFINE d == Schema!Definition("custom", Schema!NoKeys, {}, {s})
    <3>1. d.raw = {s} /\ d.provider = "custom"
      BY DEF Schema!Definition
    <3> HIDE DEF d
    <3>2. Shown(d, s)
      BY <2>2, <3>1, OnlyMember DEF Shown, Schema!Render, Schema!RenderCustom
    <3>3. tool' = {d}
      BY <2>3 DEF d
    <3> QED BY <2>1, <2>2, <3>2, <3>3 DEF SchemaInv
  <2>4. CASE \E p \in Schema!Providers : tool' = {Schema!Import(p, s)}
    BY <2>1, <2>2, <2>4, ImportShows DEF SchemaInv
  <2> QED BY <2>1, <2>3, <2>4
<1>3. ASSUME NEW p \in Schema!Providers, Schema!Hop(p) PROVE SchemaInv'
  <2>1. PICK d, w : tool = {d} /\ written = {w} /\ Shown(d, w)
    BY <1>3 DEF SchemaInv, Schema!Hop
  <2>2. /\ tool' = {Schema!Import(p, Schema!Render(d))}
        /\ UNCHANGED <<written, call, asked>>
    BY <1>3, <2>1, OnlyMember DEF Schema!Hop
  <2>3. Shown(Schema!Import(p, Schema!Render(d)), w)
    BY <2>1, ImportShows DEF Shown
  <2> QED BY <2>1, <2>2, <2>3 DEF SchemaInv
<1>4. ASSUME NEW p \in Schema!Providers, Schema!Ask(p) PROVE SchemaInv'
  <2>1. PICK a \in {"x", "none"} :
          /\ asked' = {[name |-> "tool", arguments |-> a]}
          /\ call' = {Schema!Unwrap(p, Schema!Native(p, Schema!The(asked')))}
    BY <1>4 DEF Schema!Ask
  <2> DEFINE c == [name |-> "tool", arguments |-> a]
  <2>2. Schema!Unwrap(p, Schema!Native(p, c)) = c
    BY CallKept
  <2>3. call' = {c} /\ asked' = {c}
    <3>1. Schema!The(asked') = c
      BY <2>1, OnlyMember
    <3> QED BY <2>1, <2>2, <3>1
  <2>4. UNCHANGED <<tool, written>>
    BY <1>4 DEF Schema!Ask
  <2> QED BY <2>3, <2>4 DEF SchemaInv
<1>5. ASSUME NEW p \in Schema!Providers, Schema!Relay(p) PROVE SchemaInv'
  <2>1. PICK n, a : call = {[name |-> n, arguments |-> a]} /\ asked = call
    BY <1>5 DEF SchemaInv, Schema!Relay
  <2> DEFINE c == [name |-> n, arguments |-> a]
  <2>2. Schema!Unwrap(p, Schema!RenderCall(p, c)) = c
    BY CallKept
  <2>3. /\ call' = {Schema!Unwrap(p, Schema!RenderCall(p, Schema!The(call)))}
        /\ UNCHANGED <<tool, written, asked>>
    BY <1>5 DEF Schema!Relay
  <2>4. Schema!The(call) = c
    BY <2>1, OnlyMember
  <2> QED BY <2>1, <2>2, <2>3, <2>4 DEF SchemaInv
<1> QED BY <1>1, <1>2, <1>3, <1>4, <1>5 DEF Schema!Next

\* For any names of parameters and any chain of providers: what a definition
\* says and what a call says does not change on the way (wrap_tools, to_openai,
\* from_openai and their kind, unwrap_results, to_custom).
THEOREM MeaningAlwaysKept == LibrarySpec => []MeaningKept
<1>1. LibraryInit => SchemaInv
  BY DEF LibraryInit, Schema!Init, SchemaInv
<1>2. SchemaInv /\ [LibraryNext]_LibraryVars => SchemaInv'
  <2> SUFFICES ASSUME SchemaInv, [LibraryNext]_LibraryVars PROVE SchemaInv'
    OBVIOUS
  <2>1. Schema!Next \/ UNCHANGED tools
    BY DEF LibraryNext, LibraryVars
  <2>2. CASE UNCHANGED tools
    BY <2>2 DEF tools, SchemaInv
  <2> QED BY <2>1, <2>2, SchemaStep
<1>3. SchemaInv => MeaningKept
  BY DEF SchemaInv, Shown, Shows, MeaningKept, Schema!MeaningKept
<1> QED BY <1>1, <1>2, <1>3, PTL DEF LibrarySpec

-----------------------------------------------------------------------------
(* ChatFlow: the window that the chats of a tenant share                   *)

LEMMA ChatCardinality == ASSUME NEW S PROVE Chat!Cardinality(S) = Cardinality(S)
BY DEF Chat!Cardinality, Cardinality

\* A message that is of use here: of a question, that it is protected.
Said ==
  {m \in [chat : Chats, role : {"user", "assistant"}, size : Sizes, grounding : BOOLEAN,
          pruned : BOOLEAN] :
     m.role = "user" => m.grounding}

\* No question was pruned, and each chat that asked has its own in the window.
ChatInv ==
  /\ window \in Seq(Said)
  /\ phase \in [Chats -> {"unborn", "asking", "questioned", "exchanged", "answered", "failed"}]
  /\ block \in [Chats -> SUBSET Nat]
  /\ \A i \in DOMAIN window : window[i].grounding => ~window[i].pruned
  /\ \A c \in Chats :
       phase[c] \notin {"unborn", "asking"} =>
         \E i \in DOMAIN window : window[i].chat = c /\ window[i].role = "user"

\* An add keeps who said what, and what was not to be pruned.
LEMMA AddKeeps ==
  ASSUME ChatInv, NEW c \in Chats, NEW role \in {"user", "assistant"}, NEW size \in Sizes,
         NEW grounding \in BOOLEAN, role = "user" => grounding,
         Chat!Add(Chat!Message(c, role, size, grounding))
  PROVE  /\ window' \in Seq(Said)
         /\ \A i \in DOMAIN window' : window'[i].grounding => ~window'[i].pruned
         /\ \A i \in DOMAIN window :
              /\ i \in DOMAIN window'
              /\ window'[i].chat = window[i].chat /\ window'[i].role = window[i].role
         /\ \E i \in DOMAIN window' : window'[i].chat = c /\ window'[i].role = role
<1> DEFINE m == Chat!Message(c, role, size, grounding)
           longer == Append(window, m)
           n == Len(window) + 1
           Pruned(x) == [x EXCEPT !.pruned = TRUE]
<1>1. /\ m \in Said /\ m.chat = c /\ m.role = role /\ ~m.pruned
  BY DEF Chat!Message, Said
<1> HIDE DEF m
<1>2. /\ window \in Seq(Said)
      /\ \A i \in DOMAIN window : window[i].grounding => ~window[i].pruned
  BY DEF ChatInv
<1>3. /\ Len(window) \in Nat /\ DOMAIN window = 1 .. Len(window) /\ DOMAIN longer = 1 .. n
      /\ \A i \in 1 .. n : longer[i] \in Said
      /\ longer[n] = m /\ \A i \in DOMAIN window : i \in 1 .. n /\ longer[i] = window[i]
      /\ \A i \in 1 .. n : i = n \/ i \in DOMAIN window
      /\ n \in 1 .. n
  BY <1>1, <1>2
<1>4. PICK victims \in SUBSET {i \in DOMAIN longer : ~longer[i].grounding} :
        window' = [i \in DOMAIN longer |->
                     IF i \in victims THEN Pruned(longer[i]) ELSE longer[i]]
  BY DEF Chat!Add, m
<1> HIDE DEF longer, n
<1>5. \A x \in Said : /\ Pruned(x) \in Said /\ Pruned(x).grounding = x.grounding
                      /\ Pruned(x).chat = x.chat /\ Pruned(x).role = x.role
  BY DEF Said
<1> HIDE DEF Pruned
<1>6. /\ DOMAIN window' = 1 .. n
      /\ \A i \in 1 .. n :
           window'[i] = IF i \in victims THEN Pruned(longer[i]) ELSE longer[i]
  BY <1>3, <1>4
<1>7. \A i \in 1 .. n :
        /\ window'[i] \in Said /\ window'[i].grounding = longer[i].grounding
        /\ window'[i].chat = longer[i].chat /\ window'[i].role = longer[i].role
  BY <1>3, <1>5, <1>6
<1>8. window' \in Seq(Said)
  <2>1. window' = [i \in 1 .. n |-> window'[i]] /\ n \in Nat
    BY <1>3, <1>4 DEF n
  <2> QED BY <1>7, <2>1
<1>9. \A i \in 1 .. n : longer[i].grounding => ~longer[i].pruned
  BY <1>1, <1>2, <1>3
<1>10. \A i \in DOMAIN window' : window'[i].grounding => ~window'[i].pruned
  <2> SUFFICES ASSUME NEW i \in 1 .. n, longer[i].grounding PROVE ~window'[i].pruned
    BY <1>6, <1>7
  <2>1. i \notin victims
    BY <1>4
  <2> QED BY <1>6, <1>9, <2>1
<1>11. \A i \in DOMAIN window :
         /\ i \in DOMAIN window'
         /\ window'[i].chat = window[i].chat /\ window'[i].role = window[i].role
  BY <1>3, <1>6, <1>7
<1>12. \E i \in DOMAIN window' : window'[i].chat = c /\ window'[i].role = role
  BY <1>1, <1>3, <1>6, <1>7
<1> QED BY <1>8, <1>10, <1>11, <1>12

LEMMA ChatStep ==
  ASSUME ChatInv, Chat!Next PROVE ChatInv'
<1>1. PICK c \in Chats : \/ Chat!Read(c) \/ Chat!RememberUser(c) \/ Chat!RememberReply(c)
                         \/ Chat!RememberName(c) \/ Chat!NameFails(c)
  BY DEF Chat!Next
<1>2. /\ phase \in [Chats -> {"unborn", "asking", "questioned", "exchanged", "answered", "failed"}]
      /\ block \in [Chats -> SUBSET Nat] /\ window \in Seq(Said)
      /\ \A i \in DOMAIN window : window[i].grounding => ~window[i].pruned
      /\ \A d \in Chats :
           phase[d] \notin {"unborn", "asking"} =>
             \E i \in DOMAIN window : window[i].chat = d /\ window[i].role = "user"
  BY DEF ChatInv
<1>3. CASE Chat!Read(c)
  <2>1. Chat!Fit(Chat!Recent(Chat!Active)) \subseteq Nat
    <3>1. DOMAIN window \subseteq Nat
      BY <1>2
    <3> QED BY <3>1 DEF Chat!Fit, Chat!Recent, Chat!Active
  <2> QED BY <1>2, <1>3, <2>1 DEF ChatInv, Chat!Read, Chat!Step
<1>4. CASE Chat!RememberUser(c)
  <2>1. PICK size \in Sizes : Chat!Add(Chat!Message(c, "user", size, TRUE))
    BY <1>4 DEF Chat!RememberUser
  <2>2. /\ window' \in Seq(Said)
        /\ \A i \in DOMAIN window' : window'[i].grounding => ~window'[i].pruned
        /\ \A i \in DOMAIN window :
             /\ i \in DOMAIN window'
             /\ window'[i].chat = window[i].chat /\ window'[i].role = window[i].role
        /\ \E i \in DOMAIN window' : window'[i].chat = c /\ window'[i].role = "user"
    BY <2>1, AddKeeps
  <2>3. /\ phase[c] = "asking" /\ phase' = [phase EXCEPT ![c] = "questioned"]
        /\ block' = [block EXCEPT ![c] = {}]
    BY <1>4 DEF Chat!RememberUser, Chat!Step
  <2>4. ASSUME NEW d \in Chats, phase'[d] \notin {"unborn", "asking"}
        PROVE  \E i \in DOMAIN window' : window'[i].chat = d /\ window'[i].role = "user"
    <3>1. CASE d = c
      BY <2>2, <3>1
    <3>2. CASE d # c
      <4>1. phase'[d] = phase[d]
        BY <1>2, <2>3, <3>2
      <4> QED BY <1>2, <2>2, <2>4, <4>1
    <3> QED BY <3>1, <3>2
  <2> QED BY <1>2, <2>2, <2>3, <2>4 DEF ChatInv
<1>5. CASE Chat!RememberReply(c)
  <2>1. PICK size \in Sizes : Chat!Add(Chat!Message(c, "assistant", size, FALSE))
    BY <1>5 DEF Chat!RememberReply
  <2>2. /\ window' \in Seq(Said)
        /\ \A i \in DOMAIN window' : window'[i].grounding => ~window'[i].pruned
        /\ \A i \in DOMAIN window :
             /\ i \in DOMAIN window'
             /\ window'[i].chat = window[i].chat /\ window'[i].role = window[i].role
    BY <2>1, AddKeeps
  <2>3. /\ phase[c] = "questioned" /\ phase' = [phase EXCEPT ![c] = "exchanged"]
        /\ block' = block
    BY <1>5 DEF Chat!RememberReply, Chat!Step
  <2> QED BY <1>2, <2>2, <2>3 DEF ChatInv
<1>6. CASE Chat!RememberName(c) \/ Chat!NameFails(c)
  BY <1>2, <1>6 DEF ChatInv, Chat!RememberName, Chat!NameFails, Chat!Step
<1> QED BY <1>1, <1>3, <1>4, <1>5, <1>6

\* What is in the window from a position on and has room is in the block.
LEMMA RoomForAll ==
  ASSUME ChatInv, NEW i \in Chat!Active,
         Cardinality(Chat!From(Chat!Active, i)) <= MaxMessages,
         Chat!Tokens(Chat!From(Chat!Active, i)) <= MaxTokens
  PROVE  i \in Chat!Fit(Chat!Recent(Chat!Active))
<1> DEFINE A == Chat!Active
           R == Chat!Recent(A)
<1>1. A \subseteq DOMAIN window /\ DOMAIN window = 1 .. Len(window) /\ Len(window) \in Nat
  BY DEF ChatInv, Chat!Active
<1>2. IsFiniteSet(A)
  <2>1. IsFiniteSet(1 .. Len(window))
    BY <1>1, FS_Interval
  <2> QED BY <1>1, <2>1, FS_Subset
<1> HIDE DEF A
<1>3. ASSUME NEW j \in A, j >= i PROVE j \in R
  <2>1. Chat!From(A, j) \subseteq Chat!From(A, i) /\ Chat!From(A, i) \subseteq A
    <3>1. \A k \in A : k \in Nat
      BY <1>1
    <3> QED BY <1>3, <3>1 DEF Chat!From, A
  <2>2. /\ Cardinality(Chat!From(A, j)) <= Cardinality(Chat!From(A, i))
        /\ Cardinality(Chat!From(A, j)) \in Nat /\ Cardinality(Chat!From(A, i)) \in Nat
    BY <1>2, <2>1, FS_Subset, FS_CardinalityType
  <2>3. Cardinality(Chat!From(A, j)) <= MaxMessages
    BY <2>2, LibraryAssumption DEF A
  <2> QED BY <2>3, ChatCardinality DEF Chat!Recent
<1>4. R \subseteq A
  BY DEF Chat!Recent
<1>5. Chat!From(R, i) = Chat!From(A, i)
  BY <1>3, <1>4 DEF Chat!From
<1>6. i \in R
  <2>1. i \in A /\ i \in Nat
    BY <1>1 DEF A
  <2> QED BY <1>3, <2>1
<1> QED BY <1>5, <1>6 DEF Chat!Fit, R, A

LEMMA ReadRemembers ==
  ASSUME ChatInv, Chat!Next, NEW c \in Chats, NEW d \in Chats,
         phase[c] = "unborn", phase'[c] = "asking", phase[d] = "answered",
         Chat!Cardinality(Chat!Since(d)) <= MaxMessages, Chat!Tokens(Chat!Since(d)) <= MaxTokens
  PROVE  \E i \in block'[c] : window[i].chat = d /\ window[i].role = "user"
<1> DEFINE Asked(i) == i \in DOMAIN window /\ window[i].chat = d /\ window[i].role = "user"
           q == CHOOSE i \in DOMAIN window : window[i].chat = d /\ window[i].role = "user"
<1>1. Asked(q) /\ Chat!Since(d) = Chat!From(Chat!Active, q)
  <2>1. \E i : Asked(i)
    BY DEF ChatInv
  <2> QED BY <2>1 DEF Chat!Since
<1> HIDE DEF q
<1>2. q \in Chat!Active
  <2>1. window[q] \in Said
    BY <1>1 DEF ChatInv
  <2> QED BY <1>1, <2>1 DEF ChatInv, Chat!Active, Said
<1>3. Chat!Read(c)
  <2>1. PICK b \in Chats : \/ Chat!Read(b) \/ Chat!RememberUser(b) \/ Chat!RememberReply(b)
                           \/ Chat!RememberName(b) \/ Chat!NameFails(b)
    BY DEF Chat!Next
  <2>2. phase \in [Chats -> {"unborn", "asking", "questioned", "exchanged", "answered", "failed"}]
    BY DEF ChatInv
  <2> QED
    BY <2>1, <2>2 DEF Chat!Read, Chat!RememberUser, Chat!RememberReply, Chat!RememberName,
                      Chat!NameFails, Chat!Step
<1>4. block'[c] = Chat!Fit(Chat!Recent(Chat!Active))
  BY <1>3 DEF Chat!Read, ChatInv
<1>5. q \in Chat!Fit(Chat!Recent(Chat!Active))
  BY <1>1, <1>2, ChatCardinality, RoomForAll
<1> QED BY <1>1, <1>4, <1>5

\* A chat that begins is given the question of every chat that was answered, if
\* there is room for what came since (build_context_block, remember_exchange):
\* for any number of chats on a window, any limits, and any pruning between.
THEOREM AnswersRemembered == LibrarySpec => AnsweredRemembered
<1>1. LibraryInit => ChatInv
  BY DEF LibraryInit, Chat!Init, ChatInv
<1>2. ChatInv /\ [LibraryNext]_LibraryVars =>
        ChatInv' /\ [\A c, d \in Chats :
          /\ phase[c] = "unborn" /\ phase'[c] = "asking" /\ phase[d] = "answered"
          /\ Chat!Cardinality(Chat!Since(d)) <= MaxMessages /\ Chat!Tokens(Chat!Since(d)) <= MaxTokens
          => \E i \in block'[c] : window[i].chat = d /\ window[i].role = "user"]_chat
  <2> SUFFICES ASSUME ChatInv, [LibraryNext]_LibraryVars
               PROVE  /\ ChatInv'
                      /\ \/ \A c, d \in Chats :
                              /\ phase[c] = "unborn" /\ phase'[c] = "asking" /\ phase[d] = "answered"
                              /\ Chat!Cardinality(Chat!Since(d)) <= MaxMessages
                              /\ Chat!Tokens(Chat!Since(d)) <= MaxTokens
                              => \E i \in block'[c] : window[i].chat = d /\ window[i].role = "user"
                         \/ UNCHANGED chat
    OBVIOUS
  <2>1. Chat!Next \/ UNCHANGED chat
    BY DEF LibraryNext, LibraryVars
  <2>2. CASE Chat!Next
    BY <2>2, ChatStep, ReadRemembers
  <2>3. CASE UNCHANGED chat
    BY <2>3 DEF chat, ChatInv
  <2> QED BY <2>1, <2>2, <2>3
<1> QED BY <1>1, <1>2, PTL DEF LibrarySpec, AnsweredRemembered, Chat!AnsweredRemembered, Chat!vars, chat

=============================================================================
