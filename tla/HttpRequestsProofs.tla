------------------------- MODULE HttpRequestsProofs -------------------------
(***************************************************************************)
(* What holds of HttpRequests for any requests, tenants and kills.         *)
(***************************************************************************)
EXTENDS HttpRequests, TLAPS

Entries == Requests \X {"request", "operation"}
Phases == {"unborn", "admitted", "handling", "operating", "answered",
           "recording", "done", "raised", "past"}

RequestType ==
  /\ request \in [Requests -> Calls]
  /\ phase \in [Requests -> Phases]
  /\ status \in [Requests -> {0, 200, 401, 429}]
  /\ kills \in 0 .. Kills

AuditType ==
  /\ logs \in [Owners -> SUBSET Entries]
  /\ files \in [Owners -> SUBSET Entries]
  /\ acked \in [Owners -> SUBSET Entries]
  /\ opened \subseteq Owners /\ torn \subseteq Owners /\ hurt \subseteq Owners
  /\ writer \in [Owners -> SUBSET Requests]
  /\ missed \subseteq Requests

\* A log in memory holds all its file does, and a file cut short has its log in
\* memory, or was cut before a kill: so a log is never loaded from a torn file
\* that no kill has hurt.
Kept ==
  /\ acked = files
  /\ torn \subseteq opened \cup hurt
  /\ \A t \in opened \ hurt : files[t] \subseteq logs[t]

\* From the moment its entry is appended, a request's log stays in the registry;
\* a request whose log could not be opened has no entry anywhere.
Recorded ==
  \A r \in Requests : phase[r] \in {"recording", "done"} /\ r \notin missed =>
    Owner(r) \in opened /\ Entry(r, "request") \in logs[Owner(r)]

IInv == RequestType /\ AuditType /\ Kept /\ Recorded

LEMMA TypeParts == TypeOK <=> RequestType /\ AuditType
BY DEF TypeOK, RequestType, AuditType, Entries, Phases

LEMMA OwnerType == ASSUME RequestType, NEW r \in Requests PROVE Owner(r) \in Owners
<1>1. request[r] \in Calls
  BY DEF RequestType
<1>2. request[r].tenant \in Owners
  BY <1>1 DEF Calls, Owners
<1> QED BY <1>2 DEF Owner, Owners

LEMMA EntryType ==
  ASSUME NEW r \in Requests, NEW kind \in {"request", "operation"}
  PROVE  Entry(r, kind) \in Entries
BY DEF Entry, Entries

-----------------------------------------------------------------------------
(* The audit log on its own                                                *)

\* What the log of t becomes when an entry is appended.
LEMMA StoreType == ASSUME AuditType, NEW t \in Owners PROVE Store(t) \in SUBSET Entries
BY DEF AuditType, Store, Load

LEMMA AppendStep ==
  ASSUME RequestType, AuditType, Kept, NEW r \in Requests, NEW e \in Entries,
         BeginSave(r, e) \/ SaveRefused(r, e)
  PROVE  /\ AuditType' /\ Kept'
         /\ opened \subseteq opened' /\ \A t \in opened : logs[t] \subseteq logs'[t]
         /\ Owner(r) \in opened' /\ e \in logs'[Owner(r)]
         /\ missed' = missed
<1> DEFINE o == Owner(r)
<1>1. o \in Owners /\ Store(o) \in SUBSET Entries
  BY OwnerType, StoreType
<1>2. /\ opened' = opened \cup {o}
      /\ logs' = [logs EXCEPT ![o] = Store(o) \cup {e}]
      /\ torn' \in {torn, torn \cup {o}}
      /\ writer' \in {writer, [writer EXCEPT ![o] = {r}]}
      /\ UNCHANGED <<files, acked, hurt, missed>>
  BY DEF BeginSave, SaveRefused
<1> HIDE DEF o
<1>3. AuditType'
  <2>1. logs' \in [Owners -> SUBSET Entries]
    BY <1>1, <1>2 DEF AuditType
  <2>2. writer' \in [Owners -> SUBSET Requests]
    BY <1>1, <1>2 DEF AuditType
  <2> QED BY <1>1, <1>2, <2>1, <2>2 DEF AuditType
<1>4. \A t \in Owners : logs'[t] = IF t = o THEN Store(o) \cup {e} ELSE logs[t]
  BY <1>1, <1>2 DEF AuditType
<1>5. o \in opened => Store(o) = logs[o]
  BY DEF Store
<1>6. o \notin opened \cup hurt => Store(o) = files[o]
  BY <1>1 DEF Store, Load, Kept
<1>7. \A t \in opened : logs[t] \subseteq logs'[t]
  BY <1>1, <1>4, <1>5 DEF AuditType
<1>8. Kept'
  <2>1. acked' = files' /\ torn' \subseteq opened' \cup hurt'
    BY <1>2 DEF Kept
  <2>2. ASSUME NEW t \in opened' \ hurt' PROVE files'[t] \subseteq logs'[t]
    <3>1. CASE t = o
      BY <1>1, <1>2, <1>4, <1>5, <1>6, <2>2, <3>1 DEF Kept
    <3>2. CASE t # o
      BY <1>2, <1>4, <2>2, <3>2 DEF Kept, AuditType
    <3> QED BY <3>1, <3>2
  <2> QED BY <2>1, <2>2 DEF Kept
<1>9. o \in opened' /\ e \in logs'[o]
  BY <1>1, <1>2, <1>4
<1> QED BY <1>2, <1>3, <1>7, <1>8, <1>9 DEF o

LEMMA SaveStep ==
  ASSUME RequestType, AuditType, Kept, NEW r \in Requests, EndSave(r) \/ SaveFails(r)
  PROVE  AuditType' /\ Kept' /\ UNCHANGED <<opened, logs, missed>>
<1> DEFINE o == Owner(r)
<1>1. o \in Owners
  BY OwnerType
<1>2. /\ UNCHANGED <<opened, logs, hurt, missed>>
      /\ writer' = [writer EXCEPT ![o] = {}]
      /\ \/ UNCHANGED <<files, acked, torn>>
         \/ /\ files' = [files EXCEPT ![o] = logs[o]]
            /\ acked' = [acked EXCEPT ![o] = logs[o]]
            /\ torn' = torn \ {o}
  BY DEF EndSave, SaveFails
<1> HIDE DEF o
<1>3. AuditType'
  <2>1. files' \in [Owners -> SUBSET Entries] /\ acked' \in [Owners -> SUBSET Entries]
    BY <1>1, <1>2 DEF AuditType
  <2>2. writer' \in [Owners -> SUBSET Requests]
    BY <1>1, <1>2 DEF AuditType
  <2> QED BY <1>2, <2>1, <2>2 DEF AuditType
<1>4. Kept'
  <2>1. acked' = files' /\ torn' \subseteq opened' \cup hurt'
    BY <1>1, <1>2 DEF Kept, AuditType
  <2>2. ASSUME NEW t \in opened' \ hurt' PROVE files'[t] \subseteq logs'[t]
    BY <1>1, <1>2, <2>2 DEF Kept, AuditType
  <2> QED BY <2>1, <2>2 DEF Kept
<1> QED BY <1>2, <1>3, <1>4

\* What was recorded stays so while logs only grow and no request starts to be
\* recorded without its entry.
LEMMA RecordedStays ==
  ASSUME RequestType, AuditType, Recorded,
         opened \subseteq opened', \A t \in opened : logs[t] \subseteq logs'[t],
         NEW r \in Requests, missed \subseteq missed',
         \A s \in Requests \ {r} : phase'[s] = phase[s] /\ request'[s] = request[s],
         phase'[r] \in {"recording", "done"} /\ r \notin missed' =>
           Owner(r)' \in opened' /\ Entry(r, "request") \in logs'[Owner(r)']
  PROVE  Recorded'
<1> SUFFICES ASSUME NEW s \in Requests, phase'[s] \in {"recording", "done"}, s \notin missed'
             PROVE  Owner(s)' \in opened' /\ Entry(s, "request") \in logs'[Owner(s)']
  BY DEF Recorded, Entry
<1>1. CASE s = r
  BY <1>1
<1>2. CASE s # r
  <2>1. phase[s] \in {"recording", "done"} /\ s \notin missed /\ Owner(s)' = Owner(s)
    BY <1>2 DEF Owner
  <2>2. Owner(s) \in opened /\ Entry(s, "request") \in logs[Owner(s)]
    BY <2>1 DEF Recorded
  <2> QED BY <2>1, <2>2
<1> QED BY <1>1, <1>2

-----------------------------------------------------------------------------
(* The steps of a request                                                  *)

LEMMA Invariant == Init => IInv
<1> SUFFICES ASSUME Init PROVE IInv
  OBVIOUS
<1>1. NoRequest \in Calls
  BY DEF NoRequest, Calls, Paths, Protected
<1>2. RequestType
  BY <1>1, HttpAssumption DEF Init, RequestType, Phases
<1>3. AuditType
  BY DEF Init, AuditType
<1>4. Kept
  BY DEF Init, Kept
<1>5. Recorded
  BY DEF Init, Recorded
<1> QED BY <1>2, <1>3, <1>4, <1>5 DEF IInv

\* A step of r alone, which may answer it.
Moves(r, to) ==
  /\ phase' = [phase EXCEPT ![r] = to]
  /\ request' = request \/ \E q \in Calls : request' = [request EXCEPT ![r] = q]
  /\ status' = status \/ \E c \in {0, 200, 401, 429} : status' = [status EXCEPT ![r] = c]
  /\ UNCHANGED kills

LEMMA RequestStep ==
  ASSUME RequestType, NEW r \in Requests, NEW to \in Phases, Moves(r, to)
  PROVE  /\ RequestType'
         /\ phase'[r] = to
         /\ \A s \in Requests \ {r} : phase'[s] = phase[s] /\ request'[s] = request[s]
<1>1. phase' \in [Requests -> Phases]
  BY DEF RequestType, Moves
<1>2. request' \in [Requests -> Calls]
  BY DEF RequestType, Moves
<1>3. status' \in [Requests -> {0, 200, 401, 429}]
  BY DEF RequestType, Moves
<1>4. \A s \in Requests \ {r} : phase'[s] = phase[s] /\ request'[s] = request[s]
  BY DEF RequestType, Moves
<1>5. phase'[r] = to
  BY DEF RequestType, Moves
<1>6. kills' \in 0 .. Kills
  BY DEF RequestType, Moves
<1>7. RequestType'
  BY <1>1, <1>2, <1>3, <1>6 DEF RequestType
<1> QED BY <1>4, <1>5, <1>7

\* Steps that leave the audit log alone and end in no recorded phase.
LEMMA OutsideStep ==
  ASSUME IInv, NEW r \in Requests, NEW to \in Phases \ {"recording", "done"},
         phase' = [phase EXCEPT ![r] = to],
         request' = request \/ \E q \in Calls : request' = [request EXCEPT ![r] = q],
         status' = status \/ \E c \in {0, 200, 401, 429} : status' = [status EXCEPT ![r] = c],
         UNCHANGED <<audit, kills>>
  PROVE  IInv'
<1>1. RequestType' /\ phase'[r] = to
      /\ \A s \in Requests \ {r} : phase'[s] = phase[s] /\ request'[s] = request[s]
  <2>1. Moves(r, to) /\ RequestType
    BY DEF Moves, IInv
  <2> QED BY ONLY <2>1, RequestStep, r \in Requests, to \in Phases
<1>2. AuditType' /\ Kept'
  BY DEF IInv, AuditType, Kept, audit
<1>3. Recorded'
  BY <1>1, RecordedStays DEF IInv, audit
<1> QED BY <1>1, <1>2, <1>3 DEF IInv

\* Steps of r that append its entry or end a save, for a request that stays the same.
LEMMA AuditedStep ==
  ASSUME IInv, NEW r \in Requests, NEW to \in Phases, phase' = [phase EXCEPT ![r] = to],
         UNCHANGED <<request, kills>>,
         status' = status \/ \E c \in {0, 200, 401, 429} : status' = [status EXCEPT ![r] = c],
         \/ \E kind \in {"request", "operation"} :
              /\ BeginSave(r, Entry(r, kind)) \/ SaveRefused(r, Entry(r, kind))
              /\ to \in {"recording", "done"} => kind = "request"
         \/ /\ EndSave(r) \/ SaveFails(r)
            /\ to \in {"recording", "done"} => phase[r] = "recording"
  PROVE  IInv'
<1>1. RequestType' /\ phase'[r] = to
      /\ \A s \in Requests \ {r} : phase'[s] = phase[s] /\ request'[s] = request[s]
  <2>1. Moves(r, to) /\ RequestType
    BY DEF Moves, IInv
  <2> QED BY ONLY <2>1, RequestStep, r \in Requests, to \in Phases
<1>2. Owner(r)' = Owner(r)
  BY DEF Owner
<1>3. CASE \E kind \in {"request", "operation"} :
             /\ BeginSave(r, Entry(r, kind)) \/ SaveRefused(r, Entry(r, kind))
             /\ to \in {"recording", "done"} => kind = "request"
  <2>1. PICK kind \in {"request", "operation"} :
             /\ BeginSave(r, Entry(r, kind)) \/ SaveRefused(r, Entry(r, kind))
             /\ to \in {"recording", "done"} => kind = "request"
    BY <1>3
  <2>2. Entry(r, kind) \in Entries
    BY EntryType
  <2>3. /\ AuditType' /\ Kept'
        /\ opened \subseteq opened' /\ \A t \in opened : logs[t] \subseteq logs'[t]
        /\ Owner(r) \in opened' /\ Entry(r, kind) \in logs'[Owner(r)]
        /\ missed' = missed
    BY <2>1, <2>2, AppendStep DEF IInv
  <2>4. Recorded'
    BY <1>1, <1>2, <2>1, <2>3, RecordedStays DEF IInv
  <2> QED BY <1>1, <2>3, <2>4 DEF IInv
<1>4. CASE /\ EndSave(r) \/ SaveFails(r)
           /\ to \in {"recording", "done"} => phase[r] = "recording"
  <2>1. AuditType' /\ Kept' /\ UNCHANGED <<opened, logs, missed>>
    BY <1>4, SaveStep DEF IInv
  <2>2. to \in {"recording", "done"} /\ r \notin missed =>
          Owner(r) \in opened /\ Entry(r, "request") \in logs[Owner(r)]
    BY <1>4 DEF IInv, Recorded
  <2>3. Recorded'
    BY <1>1, <1>2, <2>1, <2>2, RecordedStays DEF IInv
  <2> QED BY <1>1, <2>1, <2>3 DEF IInv
<1> QED BY <1>3, <1>4

\* Steps of r whose log could not be opened: the audit logs stay as they are.
LEMMA MissedStep ==
  ASSUME IInv, NEW r \in Requests, NEW to \in Phases, phase' = [phase EXCEPT ![r] = to],
         UNCHANGED <<request, kills>>,
         status' = status \/ \E c \in {0, 200, 401, 429} : status' = [status EXCEPT ![r] = c],
         OpenRaises(r),
         \/ missed' = missed /\ to \notin {"recording", "done"}
         \/ missed' = missed \cup {r}
  PROVE  IInv'
<1>1. RequestType' /\ phase'[r] = to
      /\ \A s \in Requests \ {r} : phase'[s] = phase[s] /\ request'[s] = request[s]
  <2>1. Moves(r, to) /\ RequestType
    BY DEF Moves, IInv
  <2> QED BY ONLY <2>1, RequestStep, r \in Requests, to \in Phases
<1>2. AuditType' /\ Kept' /\ UNCHANGED <<opened, logs>>
  BY DEF IInv, AuditType, Kept, OpenRaises
<1>3. Recorded'
  BY <1>1, <1>2, RecordedStays DEF IInv
<1> QED BY <1>1, <1>2, <1>3 DEF IInv

LEMMA KillStep == ASSUME IInv, Kill PROVE IInv'
<1>1. NoRequest \in Calls
  BY DEF NoRequest, Calls, Paths, Protected
<1>2. RequestType'
  BY <1>1, HttpAssumption DEF Kill, IInv, RequestType, Phases
<1>3. AuditType'
  BY DEF Kill, IInv, AuditType
<1>4. Kept'
  BY DEF Kill, IInv, Kept
<1>5. Recorded'
  BY DEF Kill, Recorded
<1> QED BY <1>2, <1>3, <1>4, <1>5 DEF IInv

LEMMA NextStep == IInv /\ [Next]_vars => IInv'
<1> SUFFICES ASSUME IInv, [Next]_vars PROVE IInv'
  OBVIOUS
<1> USE DEF Step, Answer, Phases
<1>1. ASSUME NEW r \in Requests, NEW q \in Calls, Enter(r, q) PROVE IInv'
  BY <1>1, OutsideStep DEF Enter
<1>2. ASSUME NEW r \in Requests, Limit(r) \/ Handle(r) \/ HandlerRaises(r) PROVE IInv'
  BY <1>2, OutsideStep DEF Limit, Handle, HandlerRaises
<1>3. ASSUME NEW r \in Requests, RecordOperation(r) PROVE IInv'
  BY <1>3, AuditedStep DEF RecordOperation
<1>4. ASSUME NEW r \in Requests, OperationRecorded(r) PROVE IInv'
  BY <1>4, AuditedStep DEF OperationRecorded
<1>5. ASSUME NEW r \in Requests, OperationUnrecorded(r) PROVE IInv'
  <2>1. /\ \/ SaveRefused(r, Entry(r, "operation")) \/ SaveFails(r)
           \/ OpenRaises(r) /\ missed' = missed
        /\ UNCHANGED <<request, kills>>
        /\ \E to \in {"answered", "raised"} : phase' = [phase EXCEPT ![r] = to]
        /\ status' = status \/ status' = [status EXCEPT ![r] = 200]
    BY <1>5 DEF OperationUnrecorded
  <2>2. PICK to \in {"answered", "raised"} : phase' = [phase EXCEPT ![r] = to]
    BY <2>1
  <2>3. CASE SaveRefused(r, Entry(r, "operation")) \/ SaveFails(r)
    BY <2>1, <2>2, <2>3, AuditedStep
  <2>4. CASE OpenRaises(r) /\ missed' = missed
    BY <2>1, <2>2, <2>4, MissedStep
  <2> QED BY <2>1, <2>3, <2>4
<1>6. ASSUME NEW r \in Requests, RecordRequest(r) PROVE IInv'
  BY <1>6, AuditedStep DEF RecordRequest
<1>7. ASSUME NEW r \in Requests, RequestRecorded(r) PROVE IInv'
  BY <1>7, AuditedStep DEF RequestRecorded
<1>8. ASSUME NEW r \in Requests, RequestUnrecorded(r) PROVE IInv'
  <2>1. CASE \/ Step(r, "answered", "done") /\ SaveRefused(r, Entry(r, "request"))
             \/ Step(r, "recording", "done") /\ SaveFails(r)
    BY <1>8, <2>1, AuditedStep DEF RequestUnrecorded
  <2>2. CASE /\ Step(r, "answered", "done")
             /\ OpenRaises(r) /\ missed' = missed \cup {r}
    BY <1>8, <2>2, MissedStep DEF RequestUnrecorded
  <2> QED BY <1>8, <2>1, <2>2 DEF RequestUnrecorded
<1>9. ASSUME Kill PROVE IInv'
  BY <1>9, KillStep
<1>10. CASE UNCHANGED vars
  BY <1>10 DEF vars, audit, IInv, RequestType, AuditType, Kept, Recorded, Owner, Entry
<1> QED BY <1>1, <1>2, <1>3, <1>4, <1>5, <1>6, <1>7, <1>8, <1>9, <1>10 DEF Next, Serve

LEMMA Always == Spec => []IInv
  BY Invariant, NextStep, PTL DEF Spec

\* Every variable of the requests and the audit logs keeps its type.
THEOREM TypeCorrect == Spec => []TypeOK
<1>1. IInv => TypeOK
  BY TypeParts DEF IInv
<1> QED BY <1>1, Always, PTL

\* No answered request whose log could be opened is missing from it, for any
\* number of requests on the loop and on the threads (AuditLogMiddleware).
THEOREM AnsweredIsAudited == Spec => []AnsweredAudited
<1>1. IInv => AnsweredAudited
  BY DEF IInv, Recorded, AnsweredAudited
<1> QED BY <1>1, Always, PTL

\* What was recorded survives any number of kills that cut no file short
\* (AuditLog._save, AuditLog._load).
THEOREM AckedIsKept == Spec => []AckedKept
<1>1. ASSUME IInv PROVE AckedKept
  <2> SUFFICES ASSUME NEW t \in Owners \ hurt PROVE acked[t] \subseteq Store(t)
    BY DEF AckedKept
  <2>1. CASE t \in opened
    BY <1>1, <2>1 DEF IInv, Kept, Store
  <2>2. CASE t \notin opened
    BY <1>1, <2>2 DEF IInv, Kept, Store, Load
  <2> QED BY <2>1, <2>2
<1> QED BY <1>1, Always, PTL

=============================================================================
