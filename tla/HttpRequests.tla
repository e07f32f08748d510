---------------------------- MODULE HttpRequests ----------------------------
(***************************************************************************)
(* A request to the HTTP API (api/server.py) and its trace in the audit    *)
(* log of its tenant (api/audit_log.py), in memory and in a file.          *)
(* Starlette runs the middleware added last first, so a request passes     *)
(* audit, tenant, key and rate limit in that order, and then its handler.  *)
(* Middlewares run on the event loop, handlers on threads of a pool; both  *)
(* write the audit log.  When the limiter refuses is module RateLimiter's. *)
(***************************************************************************)
EXTENDS Integers, FiniteSets

CONSTANTS
  Requests,   \* the requests of one behaviour
  Tenants,    \* tenants; Nobody owns the log of requests without one
  Nobody,
  Kills       \* bound on the kills of the server

ASSUME HttpAssumption == Kills \in Nat /\ Nobody \notin Tenants

\* health is exempt from the limit too, metrics needs no credentials, read stands
\* for every protected endpoint that records no operation of its own.
Paths == {"health", "metrics", "read", "import", "operation"}
Protected == {"read", "import", "operation"}

VARIABLES
  request,  \* path, tenant header (Nobody: missing or malformed) and API key
  phase,    \* where each request stands
  status,   \* the status of its answer, 0 before there is one
  logs,     \* _entries of the AuditLog of each tenant
  opened,   \* the tenants that have one in the registry
  files,    \* the content of audit.json
  torn,     \* the files cut short by a write that did not end
  writer,   \* who holds the lock of each log: a set, empty or of one request
  kills,
  acked,    \* history: the entries whose record returned
  hurt,     \* history: the tenants whose file was torn at a kill
  missed    \* history: the requests whose log could not be opened

audit == <<logs, opened, files, torn, writer, acked, hurt, missed>>
vars == <<request, phase, status, audit, kills>>

Owners == Tenants \cup {Nobody}
NoRequest == [path |-> "health", tenant |-> Nobody, valid |-> FALSE]

Init ==
  /\ request = [r \in Requests |-> NoRequest]
  /\ phase = [r \in Requests |-> "unborn"]
  /\ status = [r \in Requests |-> 0]
  /\ logs = [t \in Owners |-> {}]
  /\ opened = {}
  /\ files = [t \in Owners |-> {}]
  /\ torn = {}
  /\ writer = [t \in Owners |-> {}]
  /\ kills = 0
  /\ acked = [t \in Owners |-> {}]
  /\ hurt = {}
  /\ missed = {}

\* The event loop is in the audit middleware, which writes a file: nothing
\* else runs on it.
LoopFree == \A r \in Requests : phase[r] # "recording"

Step(r, from, to) == phase[r] = from /\ phase' = [phase EXCEPT ![r] = to]
Answer(r, code) == status' = [status EXCEPT ![r] = code]

-----------------------------------------------------------------------------
(* The middlewares on the way in                                           *)

\* The tenant is validated before the key is compared; either refuses with 401.
Enter(r, q) ==
  /\ LoopFree
  /\ request' = [request EXCEPT ![r] = q]
  /\ IF q.path \in Protected /\ (q.tenant = Nobody \/ ~q.valid)
       THEN Step(r, "unborn", "answered") /\ Answer(r, 401)
       ELSE Step(r, "unborn", "admitted") /\ UNCHANGED status
  /\ UNCHANGED <<audit, kills>>

\* The limiter lets the request through, or refuses it; it skips health.
Limit(r) ==
  /\ LoopFree
  /\ \/ Step(r, "admitted", "handling") /\ UNCHANGED status
     \/ request[r].path # "health" /\ Step(r, "admitted", "answered") /\ Answer(r, 429)
  /\ UNCHANGED <<request, audit, kills>>

-----------------------------------------------------------------------------
(* The audit log                                                           *)

\* A request without a validated tenant is attributed to the default one.
Owner(r) == IF request[r].path \in Protected THEN request[r].tenant ELSE Nobody

\* _load starts fresh when the file does not parse.
Load(t) == IF t \in torn THEN {} ELSE files[t]

\* Mutated form of Store: the registry does not keep the log.
StoreUncached(t) == Load(t)

\* get_audit_log: loaded once, kept in the registry.
Store(t) == IF t \in opened THEN logs[t] ELSE Load(t)

\* The entry is appended under the lock, and write_text truncates the file ...
BeginSave(r, entry) ==
  LET t == Owner(r) IN
  /\ writer[t] = {}
  /\ writer' = [writer EXCEPT ![t] = {r}]
  /\ opened' = opened \cup {t}
  /\ logs' = [logs EXCEPT ![t] = Store(t) \cup {entry}]
  /\ torn' = torn \cup {t}
  /\ UNCHANGED <<files, acked, hurt, missed>>

\* ... or the directory or the file cannot be opened: the entry stays in memory.
SaveRefused(r, entry) ==
  LET t == Owner(r) IN
  /\ writer[t] = {}
  /\ opened' = opened \cup {t}
  /\ logs' = [logs EXCEPT ![t] = Store(t) \cup {entry}]
  /\ UNCHANGED <<files, torn, writer, acked, hurt, missed>>

\* Mutated form of EndSave: only the entries of this process are written.
EndSaveNew(r) ==
  LET t == Owner(r) IN
  /\ writer' = [writer EXCEPT ![t] = {}]
  /\ files' = [files EXCEPT ![t] = logs[t] \ files[t]]
  /\ torn' = torn \ {t}
  /\ acked' = [acked EXCEPT ![t] = logs[t]]
  /\ UNCHANGED <<logs, opened, hurt, missed>>

EndSave(r) ==
  LET t == Owner(r) IN
  /\ writer' = [writer EXCEPT ![t] = {}]
  /\ files' = [files EXCEPT ![t] = logs[t]]
  /\ torn' = torn \ {t}
  /\ acked' = [acked EXCEPT ![t] = logs[t]]
  /\ UNCHANGED <<logs, opened, hurt, missed>>

\* write raises after the truncation.
SaveFails(r) ==
  /\ writer' = [writer EXCEPT ![Owner(r)] = {}]
  /\ UNCHANGED <<logs, opened, files, torn, acked, hurt, missed>>

\* _load lets an OSError escape, and the AttributeError of a file that parses
\* to something else than an object: the log does not enter the registry, and
\* there is none to append to.
OpenRaises(r) ==
  /\ Owner(r) \notin opened
  /\ UNCHANGED <<logs, opened, files, torn, writer, acked, hurt>>

Entry(r, kind) == <<r, kind>>

-----------------------------------------------------------------------------
(* Handlers, on the threads of the pool                                    *)

Records(r) == request[r].path \in {"import", "operation"}

\* The handler returns, or refuses the request with an HTTPException: a status
\* of 200 stands for every answer that is not a middleware's.
Handle(r) ==
  /\ request[r].path # "operation"
  /\ Step(r, "handling", "answered")
  /\ Answer(r, 200)
  /\ UNCHANGED <<request, audit, kills>>

\* The handler raises: no middleware but the outermost error handler sees it,
\* and AuditLogMiddleware is left through the await of call_next.
HandlerRaises(r) ==
  /\ Step(r, "handling", "raised")
  /\ UNCHANGED <<request, status, audit, kills>>

\* import_memory_api after the import, and audit_record_operation.
RecordOperation(r) ==
  /\ Records(r)
  /\ Step(r, "handling", "operating")
  /\ BeginSave(r, Entry(r, "operation"))
  /\ UNCHANGED <<request, status, kills>>

OperationRecorded(r) ==
  /\ Step(r, "operating", "answered")
  /\ Answer(r, 200)
  /\ EndSave(r)
  /\ UNCHANGED <<request, kills>>

\* Auditing never breaks the import; the operation endpoint does not catch.
OperationUnrecorded(r) ==
  /\ \/ /\ phase[r] = "handling" /\ Records(r)
        /\ SaveRefused(r, Entry(r, "operation")) \/ (OpenRaises(r) /\ UNCHANGED missed)
     \/ phase[r] = "operating" /\ SaveFails(r)
  /\ IF request[r].path = "import"
       THEN phase' = [phase EXCEPT ![r] = "answered"] /\ Answer(r, 200)
       ELSE phase' = [phase EXCEPT ![r] = "raised"] /\ UNCHANGED status
  /\ UNCHANGED <<request, kills>>

-----------------------------------------------------------------------------
(* The audit middleware on the way out                                     *)

RecordRequest(r) ==
  /\ LoopFree
  /\ Step(r, "answered", "recording")
  /\ BeginSave(r, Entry(r, "request"))
  /\ UNCHANGED <<request, status, kills>>

RequestRecorded(r) ==
  /\ Step(r, "recording", "done")
  /\ EndSave(r)
  /\ UNCHANGED <<request, status, kills>>

\* record_request swallows the failure.
RequestUnrecorded(r) ==
  /\ \/ LoopFree /\ Step(r, "answered", "done") /\ SaveRefused(r, Entry(r, "request"))
     \/ /\ LoopFree /\ Step(r, "answered", "done")
        /\ OpenRaises(r) /\ missed' = missed \cup {r}
     \/ Step(r, "recording", "done") /\ SaveFails(r)
  /\ UNCHANGED <<request, status, kills>>

-----------------------------------------------------------------------------
\* The server is killed and starts again: memory is gone, and the requests
\* under way with it.
Kill ==
  /\ kills < Kills
  /\ kills' = kills + 1
  /\ phase' = [r \in Requests |-> IF phase[r] = "unborn" THEN "unborn" ELSE "past"]
  /\ logs' = [t \in Owners |-> {}]
  /\ opened' = {}
  /\ writer' = [t \in Owners |-> {}]
  /\ hurt' = hurt \cup torn
  /\ request' = [r \in Requests |-> NoRequest]
  /\ status' = [r \in Requests |-> 0]
  /\ missed' = {}
  /\ UNCHANGED <<files, torn, acked>>

\* The tenant header and the key of an unprotected request are not looked at.
Calls ==
  [path : Protected, tenant : Tenants, valid : BOOLEAN]
  \cup [path : Protected, tenant : {Nobody}, valid : {TRUE}]
  \cup [path : Paths \ Protected, tenant : {Nobody}, valid : {FALSE}]

Serve(r) ==
  \/ Limit(r) \/ Handle(r) \/ HandlerRaises(r)
  \/ RecordOperation(r) \/ OperationRecorded(r) \/ OperationUnrecorded(r)
  \/ RecordRequest(r) \/ RequestRecorded(r) \/ RequestUnrecorded(r)

Next ==
  \/ \E r \in Requests : (\E q \in Calls : Enter(r, q)) \/ Serve(r)
  \/ Kill

Spec == Init /\ [][Next]_vars

-----------------------------------------------------------------------------
\* Type invariant of the requests and the audit logs.
TypeOK ==
  /\ request \in [Requests -> Calls]
  /\ phase \in [Requests -> {"unborn", "admitted", "handling", "operating", "answered",
                             "recording", "done", "raised", "past"}]
  /\ status \in [Requests -> {0, 200, 401, 429}]
  /\ logs \in [Owners -> SUBSET (Requests \X {"request", "operation"})]
  /\ files \in [Owners -> SUBSET (Requests \X {"request", "operation"})]
  /\ acked \in [Owners -> SUBSET (Requests \X {"request", "operation"})]
  /\ opened \subseteq Owners /\ torn \subseteq Owners /\ hurt \subseteq Owners
  /\ missed \subseteq Requests
  /\ writer \in [Owners -> SUBSET Requests]
  /\ kills \in 0 .. Kills

\* A request that was answered through the middlewares is in the log of its
\* tenant (AuditLogMiddleware, get_audit_log), in memory if not in the file,
\* unless that log could not be opened when it was to be recorded: no failed
\* save and no second opening of the log makes it disappear.
AnsweredAudited ==
  \A r \in Requests :
    phase[r] = "done" /\ r \notin missed => Entry(r, "request") \in logs[Owner(r)]

\* An entry whose record returned survives kills and restarts, unless a kill
\* found the file cut short: by a write in progress, or by one that failed.
AckedKept == \A t \in Owners \ hurt : acked[t] \subseteq Store(t)

\* "Every HTTP request to the FastAPI API is recorded as an audit entry."
EveryRequestAudited ==
  \A r \in Requests : phase[r] \in {"done", "raised"} => Entry(r, "request") \in logs[Owner(r)]

=============================================================================
