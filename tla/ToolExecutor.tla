---------------------------- MODULE ToolExecutor ----------------------------
(***************************************************************************)
(* The pipeline every SAP agent tool runs through (tool_executor.py):      *)
(* charge the session's budget (cost_guard.py), resolve a connection       *)
(* (connection_resolver.py), send GETs with retries (odata_client.py,      *)
(* auth.py), append an audit row (audit.py, repository.py), return.        *)
(*                                                                         *)
(* Tool calls are asyncio tasks of one worker process: everything between  *)
(* two awaits that really suspend is one action, and calls interleave with *)
(* one another, with the HTTP routes that change the connections table,    *)
(* and with restarts of the process, which lose the in-memory counters and *)
(* the calls in flight but not the database.                               *)
(***************************************************************************)
EXTENDS Integers, Sequences, FiniteSets, Credentials, ODataAnswers

CONSTANTS
    Calls,            \* tool calls an agent makes, each one at most once
    Sessions,         \* agent sessions the host knows
    Connections,      \* ids of rows of integrations_sap.connections
    Companies,        \* tenants
    None,             \* SQL NULL / Python None
    SessionCompany,   \* [Sessions -> Companies], the host's session state
    ConnCompany,      \* [Connections -> Companies], connections.company_id
    AuthMode,         \* [Connections -> AuthModes], connections.auth_mode
    StoredKeys,       \* the keys of each encrypted credentials row
    Budget,           \* SessionCostTracker._budget
    MaxRetries,       \* ODataClient._max_retries
    MaxRestarts       \* bound: process restarts

VARIABLES
    counts,     \* SessionCostTracker._counts, in memory
    epoch,      \* how many times the process has restarted
    rows,       \* connections table: not yet inserted, live, or deleted
    newer,      \* << c, d >> when c.updated_at is later than d.updated_at
    secrets,    \* connections whose credentials row exists in the core's table
    purging,    \* DELETE handlers between deleting the row and its secret
    audit,      \* integrations_sap.audit_log, in insertion order
    \* and for each tool call:
    stage,      \* the await it stands at
    session,    \* its session_id
    charged,    \* the life of the process that charged it (history)
    pin,        \* connection_id of the session scope when it read it
    conn,       \* resolved.connection_id
    gets,       \* GETs sent to SAP: attempt + 1 once a round has sent one
    last,       \* what the last GET came back with
    status      \* of the ToolResult it is about to return or has returned

who == << session, charged, pin >>
table == << rows, newer, secrets, purging >>
process == << counts, epoch >>
call == << stage, who, conn, gets, last, status >>
vars == << process, table, audit, call >>

RowStates == { "absent", "active", "inactive", "deleted" }
Live == { "active", "inactive" }

AuditStatuses == { "ok", "validator_rejected", "auth_error", "http_error",
                   "rate_limited", "timeout", "resolution_error" }
Refusals == { "session_unknown", "cost_limit_exceeded" }

ASSUME ToolConstants ==
    /\ IsFiniteSet(Calls)
    /\ None \notin Calls \cup Sessions \cup Connections \cup Answers
    /\ None \notin AuditStatuses \cup Refusals \cup Nat
    /\ SessionCompany \in [Sessions -> Companies]
    /\ ConnCompany \in [Connections -> Companies]
    /\ AuthMode \in [Connections -> AuthModes]
    /\ Budget \in Nat \ {0}
    /\ MaxRetries \in Nat
    /\ MaxRestarts \in Nat

\* Where a call stands: not made; awaiting the connection row; awaiting the
\* credentials; about to authenticate a GET; awaiting SAP; awaiting the audit
\* INSERT; INSERT committed; ToolResult returned; exception escaped to the
\* agent host; gone with the process.
InFlight == { "resolving", "loading", "authenticating", "waiting",
              "recording", "recorded" }
Over == { "returned", "raised", "lost" }
Stages == { "idle" } \cup InFlight \cup Over

AuditRow == [ call   : Calls, company : Companies,
              conn   : Connections \cup {None},
              status : AuditStatuses ]

Init ==
    /\ counts = [ s \in Sessions |-> 0 ]
    /\ epoch = 0
    /\ rows = [ c \in Connections |-> "absent" ]
    /\ newer = {}
    /\ secrets = {}
    /\ purging = {}
    /\ audit = << >>
    /\ stage = [ k \in Calls |-> "idle" ]
    /\ session = [ k \in Calls |-> None ]
    /\ charged = [ k \in Calls |-> None ]
    /\ pin = [ k \in Calls |-> None ]
    /\ conn = [ k \in Calls |-> None ]
    /\ gets = [ k \in Calls |-> 0 ]
    /\ last = [ k \in Calls |-> None ]
    /\ status = [ k \in Calls |-> None ]

-----------------------------------------------------------------------------
(* The tool call.                                                          *)

Move(k, from, to) ==
    /\ stage[k] = from
    /\ stage' = [ stage EXCEPT ![k] = to ]

\* resolve_company_id: the host does not know the session; nothing is charged
\* and nothing is recorded.
SessionUnknown(k) ==
    /\ Move(k, "idle", "returned")
    /\ status' = [ status EXCEPT ![k] = "session_unknown" ]
    /\ UNCHANGED << process, table, audit, who, conn, gets, last >>

\* check_and_increment refuses.
CostLimitExceeded(k, s) ==
    /\ counts[s] >= Budget
    /\ Move(k, "idle", "returned")
    /\ session' = [ session EXCEPT ![k] = s ]
    /\ status' = [ status EXCEPT ![k] = "cost_limit_exceeded" ]
    /\ UNCHANGED << process, table, audit, charged, pin, conn, gets, last >>

\* A bug the runs must catch: the guard of the budget is off by one.
AdmitOneMore(k, s, scope) ==
    /\ counts[s] <= Budget
    /\ scope # None => rows[scope] # "absent"
    /\ Move(k, "idle", "resolving")
    /\ counts' = [ counts EXCEPT ![s] = @ + 1 ]
    /\ session' = [ session EXCEPT ![k] = s ]
    /\ charged' = [ charged EXCEPT ![k] = epoch ]
    /\ pin' = [ pin EXCEPT ![k] = scope ]
    /\ UNCHANGED << epoch, table, audit, conn, gets, last, status >>

\* check_and_increment admits, and resolve reads the session scope before its
\* first await; scope is what the host put there, if anything.
Admit(k, s, scope) ==
    /\ counts[s] < Budget
    /\ scope # None => rows[scope] # "absent"
    /\ Move(k, "idle", "resolving")
    /\ counts' = [ counts EXCEPT ![s] = @ + 1 ]
    /\ session' = [ session EXCEPT ![k] = s ]
    /\ charged' = [ charged EXCEPT ![k] = epoch ]
    /\ pin' = [ pin EXCEPT ![k] = scope ]
    /\ UNCHANGED << epoch, table, audit, conn, gets, last, status >>

CompanyOf(k) == SessionCompany[session[k]]

\* The tenant's active rows, and those of them get_active_connection may
\* return: the most recently updated.
ActiveOf(company) ==
    { c \in Connections : rows[c] = "active" /\ ConnCompany[c] = company }
Default(company) ==
    { c \in ActiveOf(company) :
        \A d \in ActiveOf(company) : << d, c >> \notin newer }

\* A bug the runs must catch: a pin is followed across tenants.
ResolvableAnywhere(k) ==
    IF pin[k] = None
    THEN Default(CompanyOf(k))
    ELSE { c \in {pin[k]} : rows[c] \in Live }

\* The rows resolve may go on with: the pinned one, whether active or not, or
\* the tenant's default.
Resolvable(k) ==
    IF pin[k] = None
    THEN Default(CompanyOf(k))
    ELSE { c \in {pin[k]} : rows[c] \in Live /\ ConnCompany[c] = CompanyOf(k) }

\* An exception the pipeline translates: it goes on to the audit row.
Fail(k, from, outcome) ==
    /\ Move(k, from, "recording")
    /\ status' = [ status EXCEPT ![k] = outcome ]

ResolveRow(k) ==
    /\ \/ /\ Move(k, "resolving", "loading")
          /\ \E c \in Resolvable(k) : conn' = [ conn EXCEPT ![k] = c ]
          /\ UNCHANGED status
       \/ /\ Fail(k, "resolving", "resolution_error")
          /\ Resolvable(k) = {}
          /\ UNCHANGED conn
    /\ UNCHANGED << process, table, audit, who, gets, last >>

Usable(c) == c \in secrets /\ RequiredKeys(AuthMode[c]) \subseteq StoredKeys[c]

\* _build_auth, then (without suspending) the validator's verdict on the
\* query. A ResolutionError leaves no resolved connection, so its audit row
\* names none.
LoadCredentials(k) ==
    /\ \/ /\ \/ Move(k, "loading", "authenticating") /\ UNCHANGED status
             \/ Fail(k, "loading", "validator_rejected")
          /\ Usable(conn[k])
          /\ UNCHANGED conn
       \/ /\ Fail(k, "loading", "resolution_error")
          /\ ~Usable(conn[k])
          /\ conn' = [ conn EXCEPT ![k] = None ]
    /\ UNCHANGED << process, table, audit, who, gets, last >>

\* A bug the runs must catch: the attempt is not counted.
SendGetUncounted(k) ==
    /\ Move(k, "authenticating", "waiting")
    /\ UNCHANGED << process, table, audit, who, conn, gets, last, status >>

\* One round of the loop of _send_get up to the send: Basic sets a header,
\* OAuth reuses its token or fetches one first.
SendGet(k) ==
    /\ Move(k, "authenticating", "waiting")
    /\ gets' = [ gets EXCEPT ![k] = @ + 1 ]
    /\ UNCHANGED << process, table, audit, who, conn, last, status >>

\* The token endpoint refuses or answers nonsense: AuthError. (In a later
\* round too: the token may have expired during the back-off.)
TokenRefused(k) ==
    /\ Fail(k, "authenticating", "auth_error")
    /\ AuthMode[conn[k]] = "oauth_client_credentials"
    /\ UNCHANGED << process, table, audit, who, conn, gets, last >>

\* The token endpoint cannot be reached: auth.apply is outside the try of
\* _send_get, so the httpx.TransportError reaches no handler of the pipeline.
TokenUnreachable(k) ==
    /\ Move(k, "authenticating", "raised")
    /\ AuthMode[conn[k]] = "oauth_client_credentials"
    /\ UNCHANGED << process, table, audit, who, conn, gets, last, status >>

\* Two bugs the runs must catch: one retry too many, and an outcome that is
\* recorded as it came.
AnswerRetryingOnceMore(k, answer) ==
    /\ \/ /\ answer \in Transient /\ gets[k] <= MaxRetries + 1
          /\ Move(k, "waiting", "authenticating")
          /\ UNCHANGED status
       \/ /\ answer \notin Transient \/ gets[k] > MaxRetries + 1
          /\ Fail(k, "waiting", StatusOf(answer))
    /\ last' = [ last EXCEPT ![k] = answer ]
    /\ UNCHANGED << process, table, audit, who, conn, gets >>
AnswerUntranslated(k, answer) ==
    /\ \/ /\ answer \in Transient /\ gets[k] <= MaxRetries
          /\ Move(k, "waiting", "authenticating")
          /\ UNCHANGED status
       \/ /\ answer \notin Transient \/ gets[k] > MaxRetries
          /\ Fail(k, "waiting", answer)
    /\ last' = [ last EXCEPT ![k] = answer ]
    /\ UNCHANGED << process, table, audit, who, conn, gets >>

\* SAP answers, or the transport gives up.
Answer(k, answer) ==
    /\ \/ /\ answer \in Transient /\ gets[k] <= MaxRetries
          /\ Move(k, "waiting", "authenticating")
          /\ UNCHANGED status
       \/ /\ answer \notin Transient \/ gets[k] > MaxRetries
          /\ Fail(k, "waiting", StatusOf(answer))
    /\ last' = [ last EXCEPT ![k] = answer ]
    /\ UNCHANGED << process, table, audit, who, conn, gets >>

\* What the foreign key of audit_log.connection_id accepts.
Referenceable == { None } \cup { c \in Connections : rows[c] \in Live }

\* A bug the runs must catch: only successes are audited.
RecordSuccesses(k) ==
    /\ Move(k, "recording", "recorded")
    /\ audit' = IF status[k] = "ok"
                THEN Append(audit, [ call |-> k, company |-> CompanyOf(k),
                                     conn |-> conn[k], status |-> status[k] ])
                ELSE audit
    /\ UNCHANGED << process, table, who, conn, gets, last, status >>

\* The INSERT of _audit_async; a violated foreign key is one more exception
\* no handler of the pipeline expects.
Record(k) ==
    /\ \/ /\ Move(k, "recording", "recorded")
          /\ conn[k] \in Referenceable
          /\ audit' = Append(audit, [ call |-> k, company |-> CompanyOf(k),
                                      conn |-> conn[k], status |-> status[k] ])
       \/ /\ Move(k, "recording", "raised")
          /\ conn[k] \notin Referenceable
          /\ UNCHANGED audit
    /\ UNCHANGED << process, table, who, conn, gets, last, status >>

\* A bug the runs must catch: the INSERT is not awaited, and lost.
ReturnUnaudited(k) ==
    /\ Move(k, "recording", "returned")
    /\ UNCHANGED << process, table, audit, who, conn, gets, last, status >>

Return(k) ==
    /\ Move(k, "recorded", "returned")
    /\ UNCHANGED << process, table, audit, who, conn, gets, last, status >>

-----------------------------------------------------------------------------
(* The HTTP routes that change what a call in flight has read or will      *)
(* read, and the process.                                                  *)

\* now(), by the column default or trg_sap_connections_set_updated_at.
Touch(c) ==
    newer' = { pair \in newer : pair[2] # c }
                 \cup { << c, d >> : d \in Connections \ {c} }

\* POST /connections: the secret is saved first, and nothing refers to it
\* until the row is inserted.
InsertConnection(c) ==
    /\ rows[c] = "absent"
    /\ rows' = [ rows EXCEPT ![c] = "active" ]
    /\ secrets' = secrets \cup {c}
    /\ Touch(c)
    /\ UNCHANGED << process, call, purging, audit >>

\* PATCH /connections/{id} with is_active.
SetActive(c, state) ==
    /\ rows[c] \in Live
    /\ rows' = [ rows EXCEPT ![c] = state ]
    /\ Touch(c)
    /\ UNCHANGED << process, call, secrets, purging, audit >>

\* POST /test and /sync end in this UPDATE.
SetConnectionHealth(c) ==
    /\ rows[c] \in Live
    /\ Touch(c)
    /\ UNCHANGED << process, call, rows, secrets, purging, audit >>

\* ON DELETE SET NULL.
SetNull(row) == [ row EXCEPT !.conn = None ]

\* Two bugs the runs must catch: a foreign key that cascades into the audit
\* log, and none at all.
DeleteConnectionAndTrail(c) ==
    /\ rows[c] \in Live
    /\ rows' = [ rows EXCEPT ![c] = "deleted" ]
    /\ audit' = SelectSeq(audit, LAMBDA row : row.conn # c)
    /\ purging' = purging \cup {c}
    /\ UNCHANGED << process, call, newer, secrets >>
DeleteConnectionOnly(c) ==
    /\ rows[c] \in Live
    /\ rows' = [ rows EXCEPT ![c] = "deleted" ]
    /\ purging' = purging \cup {c}
    /\ UNCHANGED << process, call, newer, secrets, audit >>

\* DELETE /connections/{id}: the row goes, audit rows lose their reference ...
DeleteConnection(c) ==
    /\ rows[c] \in Live
    /\ rows' = [ rows EXCEPT ![c] = "deleted" ]
    /\ audit' = [ i \in DOMAIN audit |->
                    IF audit[i].conn = c THEN SetNull(audit[i]) ELSE audit[i] ]
    /\ purging' = purging \cup {c}
    /\ UNCHANGED << process, call, newer, secrets >>

\* ... and then the secret, unless the core refuses (logged and swallowed).
DeleteSecret(c) ==
    /\ c \in purging
    /\ purging' = purging \ {c}
    /\ secrets' \in { secrets, secrets \ {c} }
    /\ UNCHANGED << process, call, rows, newer, audit >>

\* A bug the runs must catch: the new process runs every call again.
RestartReplaying ==
    /\ epoch < MaxRestarts
    /\ epoch' = epoch + 1
    /\ counts' = [ s \in Sessions |-> 0 ]
    /\ stage' = [ k \in Calls |-> "idle" ]
    /\ purging' = {}
    /\ UNCHANGED << rows, newer, secrets, audit, who, conn, gets, last, status >>

\* The worker process dies and comes back.
Restart ==
    /\ epoch < MaxRestarts
    /\ epoch' = epoch + 1
    /\ counts' = [ s \in Sessions |-> 0 ]
    /\ stage' = [ k \in Calls |->
                    IF stage[k] \in InFlight THEN "lost" ELSE stage[k] ]
    /\ purging' = {}
    /\ UNCHANGED << rows, newer, secrets, audit, who, conn, gets, last, status >>

-----------------------------------------------------------------------------

\* The steps a call in flight takes: what the event loop runs.
Progress(k) ==
    \/ ResolveRow(k)
    \/ LoadCredentials(k)
    \/ SendGet(k)
    \/ TokenRefused(k)
    \/ TokenUnreachable(k)
    \/ \E answer \in Answers : Answer(k, answer)
    \/ Record(k)
    \/ Return(k)

CallNext(k) ==
    \/ SessionUnknown(k)
    \/ \E s \in Sessions : CostLimitExceeded(k, s)
    \/ \E s \in Sessions, scope \in Connections \cup {None} : Admit(k, s, scope)
    \/ Progress(k)

AdminNext(c) ==
    \/ InsertConnection(c)
    \/ \E state \in Live : SetActive(c, state)
    \/ SetConnectionHealth(c)
    \/ DeleteConnection(c)
    \/ DeleteSecret(c)

Next ==
    \/ \E k \in Calls : CallNext(k)
    \/ \E c \in Connections : AdminNext(c)
    \/ Restart

Spec == Init /\ [][Next]_vars

\* Every await of the pipeline completes: database calls return, httpx times
\* out after 30 s, a back-off sleep ends. Nothing obliges an agent to call, an
\* administrator to act, or the process to restart.
FairSpec == Spec /\ \A k \in Calls : WF_vars(Progress(k))

-----------------------------------------------------------------------------
(* Properties.                                                             *)

\* The type invariant.
TypeOK ==
    /\ counts \in [ Sessions -> Nat ]
    /\ epoch \in Nat
    /\ rows \in [ Connections -> RowStates ]
    /\ newer \subseteq Connections \X Connections
    /\ secrets \subseteq Connections
    /\ purging \subseteq Connections
    /\ audit \in Seq(AuditRow)
    /\ stage \in [ Calls -> Stages ]
    /\ session \in [ Calls -> Sessions \cup {None} ]
    /\ charged \in [ Calls -> Nat \cup {None} ]
    /\ pin \in [ Calls -> Connections \cup {None} ]
    /\ conn \in [ Calls -> Connections \cup {None} ]
    /\ gets \in [ Calls -> Nat ]
    /\ last \in [ Calls -> Answers \cup {None} ]
    /\ status \in [ Calls -> AuditStatuses \cup Refusals \cup {None} ]

\* The calls the guard let through for a session in a life of the process.
Admitted(s, e) == { k \in Calls : session[k] = s /\ charged[k] = e }

\* The counter is exactly the number of calls admitted since the process
\* started, whatever became of them, and never passes the budget.
ChargedExactly ==
    \A s \in Sessions :
        /\ counts[s] = Cardinality(Admitted(s, epoch))
        /\ counts[s] <= Budget

\* A call reaches SAP only after it was charged, and only through a
\* connection of its session's company: the one the session pins if it pins
\* one (never the default as a substitute for a pin that is gone).
RightConnection ==
    \A k \in Calls : gets[k] > 0 =>
        /\ charged[k] # None
        /\ conn[k] # None
        /\ ConnCompany[conn[k]] = CompanyOf(k)
        /\ pin[k] \in { None, conn[k] }

\* A GET is repeated only after an answer worth repeating, once per retry, and
\* never more than MaxRetries times.
OnlyTransientRetried ==
    \A k \in Calls :
        /\ gets[k] <= MaxRetries + 1
        /\ stage[k] = "authenticating" /\ gets[k] > 0 => last[k] \in Transient
        /\ stage[k] = "waiting" /\ gets[k] > 1 => last[k] \in Transient

\* An audit row says of SAP's answers what the taxonomy of audit.py does: it has
\* the documented status of the last answer, after every retry if the answer was
\* worth one; auth_error for a token refused, before the first GET or before a
\* retry; and a status that no answer has only if no GET was sent. The two
\* Misfiled answers are recorded as http_error and not as documented, which the
\* run ToolExecutor_documented shows.
Truthful(outcome, k) ==
    \/ outcome \in { "validator_rejected", "resolution_error" } /\ gets[k] = 0
    \/ outcome = "auth_error" /\ last[k] \in Transient \cup {None}
    \/ /\ last[k] \in Answers
       /\ outcome = IF last[k] \in Misfiled THEN "http_error" ELSE DocumentedStatus(last[k])
       /\ last[k] \in Transient => gets[k] = MaxRetries + 1
AuditTruthful ==
    \A i \in DOMAIN audit : Truthful(audit[i].status, audit[i].call)

RowsOf(k) == { i \in DOMAIN audit : audit[i].call = k }

\* A call that returns the outcome of a charged execution has left one row,
\* with that outcome and its tenant; one that was refused, is not done, or
\* raised has left none. (A restart may come between the row and the return.)
OneRowPerOutcome ==
    \A k \in Calls :
        /\ \A i, j \in RowsOf(k) : i = j
        /\ \A i \in RowsOf(k) : /\ stage[k] \in { "recorded", "returned", "lost" }
                                /\ audit[i].status = status[k]
                                /\ audit[i].company = CompanyOf(k)
        /\ stage[k] \in { "recorded", "returned" } /\ charged[k] # None
              => RowsOf(k) # {}

\* No audit row names a connection that is gone, or one of another tenant.
ReferencesLive ==
    \A i \in DOMAIN audit : audit[i].conn # None =>
        /\ rows[audit[i].conn] \in Live
        /\ ConnCompany[audit[i].conn] = audit[i].company

\* The trail is append-only: a step leaves every row as it was, except that
\* deleting a connection clears the reference to it, and nothing clears the
\* rest of the row.
RowKept(i) ==
    \/ audit'[i] = audit[i]
    \/ /\ rows'[audit[i].conn] = "deleted"
       /\ audit'[i] = SetNull(audit[i])
AppendOnly ==
    [][ /\ Len(audit) <= Len(audit')
        /\ \A i \in DOMAIN audit : RowKept(i) ]_vars

\* A call that is over stays as it ended: it sends nothing more to SAP and
\* adds nothing more to the trail, even after a restart.
OverIsOver ==
    [][ \A k \in Calls : stage[k] \in Over =>
            /\ UNCHANGED << stage[k], status[k], conn[k], gets[k], last[k] >>
            /\ RowsOf(k)' = RowsOf(k) ]_vars

\* Every call that starts comes to an end.
CallsEnd == \A k \in Calls : stage[k] \in InFlight ~> stage[k] \in Over

\* Once SAP has given its last answer, the trail gets its row, unless the
\* connection is deleted or the process dies first.
AnswerRecorded ==
    \A k \in Calls :
        stage[k] = "recording"
            ~> \/ RowsOf(k) # {}
               \/ stage[k] = "lost"
               \/ conn[k] \notin Referenceable

-----------------------------------------------------------------------------
(* What the documentation says, and the code does not do.                  *)

\* tool_executor.py:107-109: tools never raise.
ToolsNeverRaise == \A k \in Calls : stage[k] # "raised"

\* audit.py:14-20: auth_error when "401 came back", parse_error when "the body
\* wasn't usable", and so on, for every call that got an answer to record.
StatusesDocumented ==
    \A i \in DOMAIN audit :
        LET k == audit[i].call
        IN  gets[k] > 0 /\ audit[i].status # "auth_error"
              => audit[i].status = DocumentedStatus(last[k])

\* Less than either claim: one of the two holds. A single behaviour in which it
\* does not is a counterexample to both.
ExecutorAsDocumented == ToolsNeverRaise \/ StatusesDocumented

=============================================================================
