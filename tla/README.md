# Verification of piilot-pack-sap

TLA+ models of the parts of the SAP connector where order, failure and sharing
matter, the TLC runs that check them on small instances, and TLAPS proofs of
the properties that matter most for every size.

Run everything from this directory: `tlc -config <run>.cfg <module>.tla` for a
run of `PROJECT.json`, `tlapm <Module>Proofs.tla` for a proof module.

## 1. The system

One Python plugin inside a host application ("the core"). Everything runs on
the asyncio event loop of a worker process; database calls and SDK calls are
made through `run_in_thread`, so each is a transaction of its own and a point
where other tasks run. The only durable state is PostgreSQL.

| component | state it keeps | operations | talks to |
|---|---|---|---|
| tool pipeline `tool_executor.py` | none | `execute_odata_call`, `execute_raw_call` | host session, cost guard, resolver, client, audit |
| cost guard `cost_guard.py` | calls per session, in memory | `check_and_increment` | - |
| connection resolver `connection_resolver.py` | none | `resolve`, `resolve_for_connection_id` | `connections`, the core's credentials |
| OData client `odata_client.py` | none between calls | `request`, `request_raw`, `get_metadata`, all through `_send_get` and its retry loop | authentication, SAP |
| authentication `auth.py` | OAuth token, expiry, lock | `apply`, `_refresh` | token endpoint |
| audit trail `audit.py` | table `audit_log` | `record_call` | repository |
| repository, schema `repository.py`, `migrations/` | tables `connections`, `schema_snapshot`, `audit_log`; foreign keys; `updated_at` trigger | inserts, updates, upsert, listings | PostgreSQL |
| rate limiter `rate_limit.py` | timestamps per (company, bucket), in memory | `check`, `reset` | every HTTP route |
| connection routes `routes.py` | none | create, update, delete, test, sync; read-only listings | repository, core credentials, resolver, client |
| metadata sync `snapshot_service.py`, `kb_seeder.py` | snapshot rows, a knowledge base in the core | persist, seed | repository, core |
| validator, query builder, parser | none (pure) | `odata_validator`, `query_builder`, `introspect` | called by tools and sync |
| agent tools `tools.py` | none | nine wrappers | pipeline |
| user interface `frontend/` | what each panel last fetched | panels over `sapClient.ts` | routes |

An agent's call goes session → budget → connection row → credentials → GETs
with retries → audit row → answer, suspending at each arrow after the budget.
Administrators change the connection, its credentials and its health under it
through the routes. A sync writes snapshot, knowledge base and health in
separate transactions; a test of the connection writes the same health. A restart loses the counters, the buckets and every
request in flight; it loses no row.

What makes it hard, and what must hold in spite of it:

* **Interleaving**: two calls on one budget; a call and a DELETE of its
  connection; two syncs of a connection; a PATCH or a test and a DELETE.
  The budget stays exact, no call crosses a tenant, no audit row dangles,
  nothing deleted comes back.
* **Partial failure**: a token endpoint that dies between retries, an INSERT
  whose foreign key is gone, an INSERT that fails after the secret was saved,
  a sync that stops halfway. What is recorded is true, what was half done is
  either undone or repaired by the next attempt.
* **Crash**: between any two transactions. Trail and tables stay consistent.
* **Retries and time**: which answers are repeated, how often; a window that
  slides in fractions of a second while `Retry-After` counts whole ones; a
  token that ages while its request is on the way.
* **Two layers of checks**: a tool looks at some arguments before the version
  of the service is known, the builder and the validator at the rest after.
  Together they let exactly the whitelist through, and SAP reads what was
  asked.
* **Answers out of order**: panels and handlers keep the selection and filter
  of the render they were made in. What the user chose stands, and a panel
  that waits for nothing shows what is current.

`PROJECT.json` lists each of these at its line ("hazards"), with the property
that would catch it going wrong, or why none does.

## 2. The modules

| module | models | kind |
|---|---|---|
| `Credentials` | field names the routes store, keys the resolver reads | operators |
| `ODataAnswers` | classes of answers of SAP, which are retried, which status each becomes and which the documentation gives it | operators |
| `ToolExecutor` | pipeline, cost guard, resolver, client, audit, and the routes and restarts that disturb them | detailed specification |
| `MeteredCalls` | what the pipeline promises | abstract specification |
| `ToolExecutorRefinement` | the mapping from the first to the second | refinement |
| `RateLimiter` | `rate_limit.py` | specification |
| `MetadataSync` | the body of `/sync` for one connection | specification |
| `ConnectionRoutes` | create, update, delete, test and sync against rows and secrets | specification |
| `FilterGrammar` | the validator's `$filter` parser over token classes, and the grammar it promises | operators |
| `ToolQueries` | the nine tools: arguments, checks, URL, snapshot reads | specification |
| `OAuthToken` | the token cache of `OAuthClientCredentials` | specification |
| `Introspect` | `parse_metadata` on abstract documents | operators |
| `Panels` | selection, panels and requests of the user interface, with the listings behind them | specification |
| `MC...` | instances for TLC | constants |
| `ToolExecutorProofs`, `ToolExecutorRefinementProofs`, `RateLimiterProofs`, `OAuthTokenProofs`, `ConnectionRoutesProofs`, `MetadataSyncProofs`, `PanelsProofs`, `ToolQueriesProofs` | theorems | proofs |

In each module an action is the code between two points where the task really
suspends, and carries the name of its function or of the await it ends in.
Definitions introduced by "A bug the runs must catch" are not part of a
specification: each is a plausible mistake in the definition that follows it,
and `PROJECT.json` ("mutants") says which property refutes it.

### ToolExecutor

`stage[k]` is the await call `k` stands at. `SessionUnknown`,
`CostLimitExceeded` and `Admit` are the synchronous head of
`execute_odata_call`: check and increment are one step because nothing
suspends between them. `ResolveRow` and `LoadCredentials` are the resolver's
two reads. `SendGet`, `TokenRefused` and `TokenUnreachable` are the three ways
`auth.apply` can end in a round of `_send_get`; `Answer` is the end of the
round, with the retry decision. `Record` is the audit INSERT with its foreign
key, `Return` the end of the call. The validator's verdict is a choice in
`LoadCredentials`, where the code asks for it. `execute_raw_call` differs only in what it
asks SAP for, and is the same actions.

`newer` is the order of `updated_at` as a relation: the only thing
`get_active_connection` uses it for is which row is last. `purging` holds the
window between DELETE's two transactions. `AuditTruthful` measures the trail
by the taxonomy of `audit.py` (`DocumentedStatus`), but for the two answers the
code files as `http_error` instead (`Misfiled`): that it does is what the run
`ToolExecutor_documented` shows. `charged` is a history variable (the
life of the process that charged the call) that lets the budget be stated.

Left out: durations (back-off, jitter, `Retry-After`), the texts and the
truncation of errors, httpx errors other than `TransportError`, failures of the
database other than the foreign key, and a PATCH that changes the keys of a
credentials row under a call (`StoredKeys` is a constant; the rows and their
secrets do change).

### MeteredCalls and ToolExecutorRefinement

Thirty-odd lines that a user of the tools needs to know: a call is refused for
free, or charged; then its outcome goes to the trail; then it is told exactly
that outcome; a call that dies is told nothing. The mapping computes the
abstract phase from `stage` and `charged`, and the abstract trail from the
call and status columns of `audit_log`, so it also says that the cascade of a
DELETE is invisible in the trail. `Die` is in the promise because the code
does it; the documentation says it does not happen (section 5).

### RateLimiter

`check()` holds an `asyncio.Lock` but never awaits inside it, so a request is
one action, `Admit` or `Refuse`. `kept` is the list `_buckets[key]` as
positions in `admitted`, the history of all admissions since the last
`Reset`. The clock ticks in fractions of a second so that `Retry-After`,
which is whole seconds, has something to round.

### FilterGrammar and ToolQueries

`Parser` is the recursive descent as one recursive function from a rule and a
position to where the longest phrase of the rule ends; the loops of `_or_expr`
and `_and_expr` are right recursion, which reaches the same position.
`Language` builds the sentences of the grammar by length, without looking at
the parser. A token stands for its class: all comparisons behave as `eq`, all
literals but `datetime'...'` as an operand.

`ToolQueries` is one call of one tool. The stages are where the pipeline's
verdicts fall: `RejectArguments` before it, at no cost and off the record;
`RejectQuery` inside it, charged and audited, once `Resolve` has found the
version. `ToolExecutor` has everything in between and leaves this verdict open
(`LoadCredentials`). Paths are sequences of names and of the characters around
them, so that quoting is modelled by what it does. A raw tool's path is joined
to the base URL as a string: `Received` is what of it reaches the server (up to
the first `?` or `#`, escapes decoded), `Reading` how an OData server takes that
apart again. Left out: `$skip` and the options no tool sends, the nesting depth.

`LegalBut({}, ...)` is the whitelist of `odata_validator.py`. The checks let
three things through beyond it, which are named (`Lapses`) and allowed by name
in `VerdictExact`: letters of other alphabets in the name of an entity set, the
`$select` of a lookup, the third word of an order item. `SentAsAsked` speaks of
keys and strings without the characters a URL gives a meaning to (`UrlMarks`);
what becomes of the others, and of the lookup's `$select`, is the run
`ToolQueries_lookup`. A slash inside a literal is sent as it is, and whether a
gateway then takes it for a separator is not for this model to say: it is among
the marks, and no run shows anything of it.

### OAuthToken

`Apply` queues for the `asyncio.Lock`, which is first come, first served;
`Reuse` and `Refresh` are the block up to its one await, `Fetched` and `Failed`
what follows the POST, `Cancelled` a task cancelled in the queue. `Mint` is the
endpoint making the token, some time after the clock was read for the request
and before its answer is; the life of the token starts there. `stored` is the
history of tokens. `ToolExecutor` keeps of all this how `apply()` can end.

### Introspect and MetadataSync

A document is schemas of entity types and containers. `ParseMetadata` is what
the code takes from it, `Says` what the document says; they differ where only
the first schema is read.

One action per SDK or database call of `/sync`: `Fetch`, `Persist`, `FindKb`,
`CreateKb`, `AddColumn`, `ListRows`, `UpdateRow`, `InsertBatch`, `Report`.
`GiveUp` stops a sync anywhere, and is what happens where a guard says so. A
row is abstracted to the release of SAP it was written from, which is what
staleness is about. `path` is the service path of the row, `Repoint` a PATCH
that changes it, `FindRowsLimit` the limit of `find_rows`.

A document may name an entity set twice. `execute_values` writes the snapshot
in statements of `PageSize` rows (100 in psycopg2, which the code does not
override): twice in one statement is refused by ON CONFLICT and the sync ends
(`Storable`); further apart the later row wins, and the seeder, which goes by
position in the document, inserts both rows (`New`, `Times`). `doubled` is the
history of that. A row of the knowledge base may lose its name to a user of the
host (`EmptyRow`); `find_rows` still returns it and the filter of
`existing_by_name` drops it (`FindRows`, `ByName`).

Left out: the texts of rows, renaming a label (which would look for another
knowledge base), and the health a sync reports: `last_health_status` has two
writers, `/sync` and `/test`, and both are `Stamp` in `ConnectionRoutes`.

### Panels

`tab`, `selected` and `filter` are the state the user sees; `requests` holds
what is on its way, each with the `render` its handler closed over. A request
is served (`Serve...`, the route), then answered (`Answer...`, the code after
the await) or fails. `OpenTab` unmounts a panel: its requests lose their state
(`mounted`), not their effect on the selection. `Effect` is the `useEffect` on
`reload`. `AuditListing` is `list_connection_audit` with the limit applied
before the filter. Left out: the entity browser's search field and detail
dialog (modal while it loads), the forms, errors and rendering.

### ConnectionRoutes

A request is `Arrive` and then one action per transaction of its handler:
POST is `Create`, `Save`, `Insert`, `RollBack`, `Return`; PATCH is `Read`,
`Update`, `Store`, `Return`; DELETE is `Read`, `Delete`, `Purge`; test and
sync are `Resolve`, `Load`, `Fetch`, `TokenFails`, `Stamp`. `Cut` is an
exception nothing handles, or the death of the process. `wrote` and
`abandoned` are history. Assumed of the core: `sdk_update_config` replaces the
stored keys or merges into them (both are explored), and does not create a
credentials row that is gone; deleting a secret may fail. The two modules meet
at `/sync`: `MetadataSync` is the inside of what is one step here.

## 3. What the runs check

| run | instance | properties |
|---|---|---|
| `ToolExecutor_calls` | 2 calls, 1 session, 1 OAuth connection, budget 1, 2 retries, 1 restart | `ChargedExactly`, `OnlyTransientRetried`, `AuditTruthful`, `OneRowPerOutcome`, `AppendOnly`, `OverIsOver`, `Implemented` |
| `ToolExecutor_tenants` | 2 tenants, 3 connections, 1 call, fair | `RightConnection`, `ReferencesLive`, `CallsEnd`, `AnswerRecorded` |
| `RateLimiter` | 2 companies, limit 2, window 2 s, half-second ticks, 3.5 s | `HardCap`, `RetryAfterTight`, `NoFalseRefusal`, `RetryAfterHonoured` |
| `MetadataSync` | 2 syncs, 5 documents, 3 entity sets, 2 columns, 2 paths, `find_rows` of 2, 2 rows a statement | `ParsedWhole`, `Covered`, `IdempotentAlone`, `RefreshedAlone`, `ForwardAlone` |
| `ConnectionRoutes` | 3 requests of 14 kinds, 2 tenants, 1 legacy connection | `SecretsAccounted`, `RowsHaveSecrets`, `SuccessIsTrue`, `TenantsApart`, `HealthEarned`, `NoResurrection` |
| `ToolQueries` | 9 tools, every filter of up to 5 tokens, keys of up to 4 characters, with `?`, `#`, `%` of up to 3, v2 and v4 | `VerdictExact`, `SentAsAsked` |
| `OAuthToken` | 3 coroutines, 4 calls, 4 ticks, buffer 1, lives equal to it, longer and undeclared; fair | `RefreshesSpaced`, `MarginKept`, `AppliesEnd` |
| `Panels` | 2 connections, 4 audit rows of which 2 are asked for, 3 gestures | `SettledIsCurrent`, `ChoiceStands` |

Seven of them also check the type invariant `TypeOK`, which for `OAuthToken`
includes that the cache holds the last token stored. Every property is stated,
and tied to the code, in the comment above it. The four runs that expect a
violation are section 5.

Why the bounds are enough to be interesting:

* Two calls and a budget of one are the smallest instance where one call is
  refused because of another, and where two pipelines interleave. Two retries
  give a first, a middle and a last round. One restart suffices for counters
  that start again beside calls and rows that do not.
* Three connections in two tenants give a default that can change hands, a
  pin that can go stale and a neighbour to leak to; one of them is stored the
  way the UI stores basic credentials.
* Four ticks of window, seven of clock: timestamps can fall on the cutoff,
  leave the window, and make room twice.
* Two syncs are one that overlaps or is cut and one that repairs or repeats it.
  The first upgrade adds an entity set, so that a later sync meets one row more
  than `find_rows` returns; the next document names one twice in two statements
  of the upsert, which pass; the next twice in one, which is refused; the last
  keeps types and container in two schemas. Two columns have a first and a
  last, two paths a before and an after. `MetadataSync_reseed` has a third
  sync, because its behaviour needs two that create and one that comes after.
* Five tokens are enough for a chained comparison (`a eq b eq c`), a
  parenthesis around a comparison, a dangling connective on either side and a
  call; the grammar adds nothing new beyond. The other arguments take one
  value per guard that tells them apart, alone and in pairs. Keys of three
  characters hold an escape of a quote (`%27`), and a `?` or `#` at either end.
* Three coroutines are one that posts and two that queue behind it, of which
  one may be cancelled. Four ticks let a token be asked for, made, stored and
  expire; its life is as long as the buffer (never reused), longer, or not
  declared.
* Three gestures are a creation, a change of tab and one more; four were run
  once (6.2 million states) and hold too. Four audit rows of two connections
  and two statuses, two of them asked for, make the limit bite before the
  filter does.
* Three requests are a creation and two that race over it. `MCAsks` has for
  every kind the variants its guards tell apart: valid, invalid and absent
  credentials, with and without a column, of the owner and of the neighbour.

`CHECK_DEADLOCK FALSE` stands where every call or request may be over and
there is nothing left to do: agents and clients are not obliged to come back.
The limiter always has a request to answer and is checked for deadlock. Calls,
syncs and requests are interchangeable, and declared symmetric, in the runs
that check no liveness.

### Fairness

`FairSpec` of `ToolExecutor` assumes weak fairness of `Progress(k)` for each
call, and of nothing else. The event loop runs a task whose await has
completed; database calls return, every GET and token request has a 30 s
timeout in httpx, a back-off sleep ends. Which of an action's outcomes happens
is never assumed fair. Agents, administrators and restarts owe nothing.

`FairSpec` of `OAuthToken` assumes it of `Advance(c)`: a lock that is let go is
handed to the head of its queue, and a POST is answered or times out after
30 s. That time passes, that the endpoint makes a token, that anybody calls
`apply()` or cancels is not assumed.

## 4. What is proved

Every safety property the passing runs check, the type invariants among them,
is a theorem for every value of the constants. The assumptions are named and
stand in the modules that declare the constants; TLC evaluates them in every
run. They say that there are finitely many calls and entity sets, that limits
and windows are positive and lists have a length, that a NULL is no other value
(`NoneStandsApart`), that names are free of the characters a URL gives a
meaning to (in `ToolConstants`), and that constants have the right type (`ToolConstants`,
`LimiterConstants`, `TokenConstants`, `RouteConstants`, `SyncConstants`,
`PanelConstants`; `ToolQueries` has a `ToolConstants` of its own). Two say what
inputs are: `AsksAreCalls`, that a call has the arguments its tool's signature
names, of their types, with a filter of at most `MaxTokens` tokens and lists of
any length; `DocumentsStandAlone`, that a document of one schema is made of
lists, and its entity sets name types of that schema.

* `ToolExecutorProofs`: `TypeCorrect`, `BudgetExact`, `TenantIsolation`,
  `RetryBound`, `TrailTruthful`, `TrailComplete`, `TrailReferences`, and the
  action properties `TrailAppendOnly`, `NothingAfterTheEnd`. The invariants
  the runs check are not inductive on their own. That a row is true needs that
  the status was true when it was still a local variable; that a retry follows
  a transient answer needs the number of GETs at every other stage; that the
  budget is exact needs that no call is charged to a life of the process yet
  to come. `IInv` therefore adds three predicates on one call: `Shape` (what
  is set at which await), `Resolved` (the connection is the tenant's),
  `Retried` (where the loop stands and what the status says of it). One lemma
  per invariant says that a call keeps it, one that the routes do, one that a
  restart does.
* `ToolExecutorRefinementProofs`: `PipelineKeepsPromise`,
  `Spec => Promise!Spec`. With `IInv` at hand, each action is one step of
  `MeteredCalls` or a stutter: the work is in showing that the view changes in
  one place (`ViewUpdate`), that an INSERT adds one pair to the trail and a
  DELETE none (`RecordView`, `DeleteView`), and that what `Return` tells is on
  record, which is `OneRowPerOutcome`.
* `RateLimiterProofs`: `Cap`, `Accurate`, `Honoured`, `Tight`. `KeyInv` says
  that the filtered list is exactly the part of the history that can still
  matter, in order; `HintInv` says that a standing `Retry-After` outlasts the
  timestamp whose departure makes room. The rest is the arithmetic of rounding.
* `OAuthTokenProofs`: `TypeCorrect`,
  `OneRefreshAtATime`, `MarginAlwaysKept`. `RefreshesSpaced` speaks of two
  tokens already stored; what makes it inductive is that whoever is posting
  read a clock at which the cache was not usable, and that nobody else stores
  meanwhile. `LockInv` says that the lock has a holder exactly while one
  coroutine posts, `PostInv` that its clock is past the cache's margin and that
  a token is never made before it was asked for, `StoredInv` that `expiresAt`
  is the expiry of the last token.
* `ConnectionRoutesProofs`: `TypeCorrect`, `NoOrphans`, `RowsKeepSecrets`,
  `SuccessesAreTrue`, `TenantsOpaque`, `HealthIsEarned`, `GoneStaysGone`, for
  any number of requests and tenants. The argument is that a connection is
  created once (`Created`), keeps its tenant and the name of its credentials
  for ever (`Owner`, `KeyOf`), and is never inserted again: so a row read
  before a suspension may be stale in its mode or its health, or gone, but its
  tenant and secret are still the right ones. `RequestInv` says that of each
  request (`Begun`, `RowRead`, `Written`, `Judged`), `RowsInv` and `SecretsInv`
  of the tables. `Written` is what makes `SuccessIsTrue` inductive: PATCH has
  written what it was asked to up to where it stands, unless a DELETE has
  overtaken it, and then the read-back finds nothing and it answers 500. The
  proof looks at a step first from each part of the state (`Others`, `Own`,
  `RowsStep`, `SecretsStep`), then shows that no other request is disturbed
  (`OtherRequests`), that each stage establishes what the next one relies on,
  and last that the tables and the answers stay right.

* `MetadataSyncProofs`: `TypeCorrect`, `SyncsCover`, `ResyncIsIdempotent`,
  `ResyncRefreshes`, `ResyncGoesForward`, `ParserTakesAll`, for any number of
  syncs, releases and paths. `InHand` says what a sync brings with it at each
  await, `LeftBehind` what it has already stored; other syncs keep both because
  knowledge bases and rows only grow (`Grown`) and a sync's variables are its
  own (`Bystander`). The properties about syncs that do not overlap need more
  (`Alone`): that nobody has changed what this sync wrote (`Undisturbed`), that
  nothing stored is newer than what anybody brings (`NoneAhead`), and that no
  name has a second row (`AtMostOne`), as long as `find_rows` returned them all
  and no document stored so far names a set twice (`Distinct`); `Solo` shows
  that nobody else is then in flight. `ParserTakesAll` is about the parser on
  any document of one schema, with the concatenation of containers taken through `FlattenSeq`'s recursion.
* `PanelsProofs`: `TypeCorrect`, `SettledShowsNow`, `ChoicesStand`, for any
  number of gestures and requests. `SettledIsCurrent` speaks of a panel that
  waits for nothing; the invariant has to speak of one that waits: its latest
  reload, if it is served, brings what is current, or a creation or a deletion
  is still to be answered, which will reload (`LatestIsFresh`, `Owed`), or it
  shows what is current already (`FreshShown`). `ChoiceInv` says which requests
  may still carry a selection, and when they began.
* `ToolQueriesProofs`: `ParserExact`, `TypeCorrect`, `VerdictIsExact`,
  `SentIsAsAsked`. The models of the code's loops and recursion are recursive
  functions. Before anything is said of one it is shown to be what its
  definition says, for which the library has nothing these provers can use: a
  function that fits is built one argument after the other (`RecursionExists`,
  `SomeParser`, `GrammarIs`), and any two agree (`StayTogether`). Induction is
  by the least number that fails (`LeastNumber`) or upwards (`Climbs`), over a
  set.
  * `ParserExact` says that the recursive descent accepts the sentences of the
    grammar and nothing else, for token lists of any length. `SoundAt`: what a
    method takes, from the position it is called at, is a phrase of its
    category; by induction from the end of the tokens. `CompleteAt`: a phrase
    is taken whole wherever what follows does not go on with it; by induction
    on its length, over all positions.
  * `VerdictIsExact` then goes argument by argument (`FilterVerdict`,
    `SelectVerdict`, `OrderVerdict`, `ApplyVerdict`), and puts the tool's check
    and the builder's together (`Passes`, `Verdict`). `IInv` says that what is
    shaped, resolved and sent belongs to the call that was asked.
  * `SentIsAsAsked` follows the reader character by character. Outside a
    literal it copies (`ReadsPlain`), `_quote_key` brings it through any key
    with any number of quotes to where it was, with the key in hand
    (`ReadsQuoted`), and a list of parameters is one such passage after another
    (`ReadsParams`). Before the reader comes the URL: a path without `?`, `#`
    and `%` arrives as it was written (`ReceivedAsWritten`), and the paths of
    raw tools are such paths when the caller's keys and strings are
    (`RawIsClean`). The search is the loop over the snapshot, row by row
    (`MatchesAreFound`).

These proofs changed the models where they could not be reasoned about, and
once where one was loose: two arms of `ReadChar`, the reader of the property,
applied to the same character.

Only model-checked: liveness (`CallsEnd`, `AnswerRecorded`, `AppliesEnd`),
which is beyond the prover like anything that needs ENABLED. The four
properties of section 5 do not hold, so there is nothing to prove. That a
tenant's default is the row updated last is the guard of `Default`, and
`RightConnection` does not repeat it.

## 5. Where code and documentation disagree

Each has a run that TLC ends with a counterexample.

| run | what is said | what happens |
|---|---|---|
| `ToolExecutor_documented` | `tool_executor.py:107-109`: tools never raise | `auth.apply` is outside the `try` of `_send_get`, and an unreachable token endpoint raises through every handler |
| | `audit.py:14-17`, `README.md:245-248`: `auth_error` for a 401, `parse_error` for an unusable body | both are an `ODataHTTPError` and recorded as `http_error`; nothing writes `parse_error` |
| `MetadataSync_reseed` | `kb_seeder.py:78`: idempotent, safe after every sync | two overlapping syncs create the knowledge base, or the same row, twice |
| | `kb_seeder.py:76-78`: create-or-update, idempotent | a sync cut before its last `add_column` leaves columns missing that no later sync adds |
| `ConnectionRoutes_basic` | `README.md:182`, `208-210`: save username and password, then test | stored as `basic_username`/`basic_password`, read as `username`/`password`: every such connection answers 400 |
| `ToolQueries_lookup` | `tools.py:539-541`: the validator runs on the live URL | `request_raw` and `_send_get` have no validator (`odata_client.py:200-204` says so): a lookup's `$select` leaves as it is, even empty |
| | `tools.py:522`: fetches a single record by primary key | the key is joined to the URL with its quotes doubled and nothing else (`tools.py:536`, `odata_client.py:208`): what follows a `?` or `#` is not read as key, and an escape is read as what it stands for |

Where a run stands for two of these, its property is the disjunction of both
claims (`ExecutorAsDocumented`, `SafeToCallAfterEverySync`,
`LookupAsDocumented`), so that its one counterexample refutes each of them.
The property of `ToolExecutor_documented` is about the taxonomy as a whole: the
counterexample has an unusable body, and a 401 takes the same branch.

Noticed while modelling, present in the models, and not given a run:

* `README.md:77-78` and `tool_executor.py:10` say that every call is audited. A
  call that already had an answer dies without a row when a retry cannot get a
  token (`TokenUnreachable`), or when its connection was deleted before the
  INSERT, whose foreign key then fails (`Record`). `sap_describe_entity`,
  `sap_search_entity` and what a tool refuses itself never reach the trail.
* `README.md:289-290` shows a PATCH with only `basic_password`; `Valid` refuses
  it with 422 (`routes.py:503-508`).
* `README.md:209-210` promises "ok" or a structured error from test; an
  `AuthError` or a token endpoint's transport error is HTTP 500 (`TokenFails`).
* A missing credentials row is answered 404 instead of 400, because its message
  ends in "not found" (`Load`; `routes.py:536-543`).
* A PATCH may answer 422 or 409 after its UPDATE was committed (`Credit`), and
  500 when the row was deleted before it is read back (`Return`).
* Only the first `Schema` of a `$metadata` is read (`FirstSchema`;
  `introspect.py:101`): types and container in two schemas give no entity set,
  and the sync answers "ok". `xs:boolean` `"1"` is read as false (`BoolAttr`).
* A document that names an entity set twice within a hundred rows fails in the
  upsert at every sync (`Storable`); further apart it passes, and its set gets
  two rows in the knowledge base (`InsertBatch`).
* An entity may be described from the row of an earlier `base_url`
  (`Described`); above `FIND_ROWS_LIMIT` rows every sync inserts the rest again
  (`ListRows`).
* A third word of an `order_by` item is dropped (`OrderPairs`), although the
  validator would refuse it. Entity sets with letters beyond ASCII pass the
  builder, not the tools that write a path (`UrlBuilt`, `ToolRefuses`).
* In v4, `sap_count` sends `$count=true` without a `$top` (`Params`), so that
  rows come back as well.
* The resolver makes a new `OAuthClientCredentials` for every call
  (`connection_resolver.py:198`), so the token cache lives as long as one call.
* The audit listing is cut at its limit before it is filtered by connection
  (`AuditListing`).
* A deleted connection stays selected (`AnswerAct`); a list asked for before a
  choice may replace it (`SelectsOnly`, the exception of `ChoiceStands`); an
  overtaken listing may fill a panel, and a test or sync of the status panel
  may bring back the connection of before (`disturbed`, the exceptions of
  `SettledIsCurrent`).

## 6. Not modelled

* Character-level parsing: the tokenizer's and the XML parser's. Tokens and
  documents are where the models start. The depth of nesting, which Python's
  recursion limits, is not bounded.
* `$skip`, and every option no tool sends; of percent-encoding, all but the
  three characters of `UrlMarks` that end or escape a path; how a gateway takes
  a slash inside a literal.
* Durations: back-off, jitter, `Retry-After`.
* Row-level security; `GET /health`; several worker processes (each has limiter
  and cost guard of its own, so the deployment's limits are multiples of those
  here).
* The forms and rendering of the user interface, the entity browser's search
  and detail dialog; the plugin's registration; the install scripts.

## 7. Plan

Done, most important behaviour first: `ToolExecutor` with its invariants and
proofs; `RateLimiter` with its proofs; `MetadataSync`; `ConnectionRoutes`;
`MeteredCalls` with the refinement and its proof; `FilterGrammar` and
`ToolQueries`; `OAuthToken` with its proofs; `Introspect`, the service path and
the limit of `find_rows`; `Panels` with the audit listing; proofs about
`ConnectionRoutes`.

Done since: proofs about `MetadataSync`, the metadata parser, `Panels`, the
filter parser and `ToolQueries`.

Left: an abstract specification of `ConnectionRoutes` in which a connection and
its secret are one thing that exists or not, and the refinement.

The suite is kept to a dozen runs: where a new one needs room, two
disagreements of section 5 share one run, or give it up and stay listed there.
