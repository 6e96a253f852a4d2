---------------------------- MODULE ToolQueries -----------------------------
(***************************************************************************)
(* One call of an agent tool (tools.py): what the arguments are made into, *)
(* which of them are refused where, and the URL that leaves for SAP.  Four *)
(* tools shape an ODataQuery (query_builder.py) that odata_validator.py    *)
(* must accept once the version of the service is known; three write a     *)
(* path of their own that nothing validates afterwards, two of these for   *)
(* administrators only; the last two read the cached snapshot.             *)
(*                                                                         *)
(* Of the pipeline in between only what decides whether the URL is built   *)
(* is kept (ToolExecutor has all of it, and leaves this verdict open).     *)
(***************************************************************************)
EXTENDS FilterGrammar, SequencesExt

CONSTANTS
    None,           \* Python None
    Plain,          \* ASCII identifiers
    Accented,       \* letters beyond ASCII: isalnum() takes them, IDENT_RE not
    Odd,            \* a path, a digit first, a blank inside
    Chars,          \* the characters of keys and of string parameters
    Asks,           \* the calls considered, each a record of its tool's arguments
    MaxTop,         \* DEFAULT_MAX_TOP
    MaxMatches,     \* bound of sap_search_entity's limit
    SnapshotLimit,  \* rows sap_search_entity reads
    Snapshot,       \* the cached rows by name: [ name, words ]
    MaxTokens       \* bound: length of the filters in Asks

VARIABLES
    ask,      \* the tool, its arguments, and who calls
    stage,    \* asked, shaped, resolved, sent, answered
    query,    \* the ODataQuery, or the raw path and its parameters
    version,  \* of the connection resolved
    url,      \* the path and the parameters of the GET, None until sent
    found,    \* what a snapshot tool returns
    answer    \* status of its ToolResult

vars == << ask, stage, query, version, url, found, answer >>

Stages == { "asked", "shaped", "resolved", "sent", "answered" }

\* A path is a sequence of names and of the characters around them.
Slash == "/"
Quote == "'"

\* Characters that mean something in a URL whatever stands around them.
UrlMarks == { "?", "#", "%", Slash }

SnapshotTools == { "sap_describe_entity", "sap_search_entity" }
RawTools == { "sap_navigate", "sap_lookup", "sap_invoke_function" }
AdminTools == { "sap_lookup", "sap_invoke_function" }

\* Session states: one the host does not know, one without a company, and the
\* users of a company by role; "owner" has role_id 1 and another role's name.
Callers == { "unknown", "homeless_admin", "member", "admin", "owner" }
WithCompany == { "member", "admin", "owner" }
Admins == { "homeless_admin", "admin", "owner" }

AggregateOps == { "sum", "avg", "min", "max", "count", "countdistinct" }
Directions == { "asc", "desc" }

\* str.lower of the words an $orderby direction can be.
Lower(word) == IF word = "DESC" THEN "desc" ELSE word

\* Clamped to 1..MaxTop.
Clamp(top) == IF top < 1 THEN 1 ELSE IF top > MaxTop THEN MaxTop ELSE top

\* _split_csv: the blank items go.
Blank == << >>
SplitCsv(raw) ==
    LET Kept[n \in 0..Len(raw)] ==
            IF n = 0 THEN << >>
            ELSE IF raw[n] = Blank THEN Kept[n - 1] ELSE Append(Kept[n - 1], raw[n])
    IN  Kept[Len(raw)]

\* An empty argument is no argument.
Given(seq) == IF seq = << >> THEN None ELSE seq

-----------------------------------------------------------------------------
(* The tool function.                                                      *)

\* _parse_order_by: a property and its direction, asc when there is none; a
\* third word is not looked at.
OrderPairs(raw) ==
    LET items == SplitCsv(raw)
    IN  [ i \in 1..Len(items) |->
            << items[i][1], IF Len(items[i]) > 1 THEN Lower(items[i][2]) ELSE "asc" >> ]

BadDirection(raw) ==
    \E i \in 1..Len(OrderPairs(raw)) : OrderPairs(raw)[i][2] \notin Directions

\* A bug the runs must catch: the key is quoted, its quotes are not doubled.
QuoteKeyVerbatim(key) == << Quote >> \o key \o << Quote >>

\* _quote_key: between quotes, those inside doubled.
QuoteKey(key) ==
    << Quote >>
        \o FlattenSeq([ i \in 1..Len(key) |->
                          IF key[i] = Quote THEN << Quote, Quote >> ELSE << key[i] >> ])
        \o << Quote >>

\* _render_function_params, of  << name, type, value >>  triples.
RenderValue(p) == IF p[2] = "string" THEN QuoteKey(p[3]) ELSE p[3]
RenderParams(params) ==
    FlattenSeq([ i \in 1..Len(params) |->
        (IF i = 1 THEN << >> ELSE << "," >>) \o << params[i][1], "=" >> \o RenderValue(params[i]) ])
UnusableParam(params) ==
    \E i \in 1..Len(params) : params[i][1] \notin Plain \/ params[i][2] = "other"

\* What a tool refuses before the pipeline: nothing is charged or recorded.
ToolRefuses(a) ==
    CASE a.tool \in { "sap_select", "sap_top_n" } -> BadDirection(a.order)
      [] a.tool = "sap_count"           -> FALSE
      [] a.tool = "sap_aggregate"       -> a.items = << >>
      [] a.tool = "sap_navigate"        -> a.entity \notin Plain \/ a.nav \notin Plain \/ a.key = << >>
      [] a.tool = "sap_lookup"          -> a.entity \notin Plain \/ a.key = << >>
      [] a.tool = "sap_invoke_function" -> a.entity \notin Plain \/ UnusableParam(a.params)
      [] a.tool = "sap_describe_entity" -> a.entity \notin Plain
      [] a.tool = "sap_search_entity"   -> a.words = None \/ a.limit \notin 1..MaxMatches

\* A filter is None when the argument is the empty string, << >> when it is
\* blank, which is not the same.
NoQuery(a) ==
    [ entity |-> a.entity, select |-> None, filter |-> None, order |-> None,
      top |-> None, count |-> None, apply |-> None ]

SelectQuery(a) ==
    [ NoQuery(a) EXCEPT !.filter = a.filter, !.select = Given(SplitCsv(a.select)),
                        !.order = Given(OrderPairs(a.order)), !.top = Clamp(a.top) ]

\* sap_top_n has the same arguments under other names and defaults.
TopNQuery(a) == SelectQuery(a)

CountQuery(a) == [ NoQuery(a) EXCEPT !.filter = a.filter, !.count = TRUE ]

AggregateQuery(a) == [ NoQuery(a) EXCEPT !.filter = a.filter, !.apply = a.items ]

\* One record of an entity set, as a path writes it: the key with its quotes
\* doubled and not otherwise encoded, here or where it is joined to the base.
Record(a) == << Slash, a.entity, "(" >> \o QuoteKey(a.key) \o << ")" >>

NavigateRequest(a) ==
    [ path |-> Record(a) \o << Slash, a.nav >>, params |-> [ top |-> Clamp(a.top) ] ]

\* Nothing looks at the names of this $select again, not even whether any is left.
LookupRequest(a) ==
    [ path |-> Record(a),
      params |-> IF a.select = << >> THEN << >> ELSE [ select |-> SplitCsv(a.select) ] ]

\* The strings among the parameters are written as keys are.
FunctionRequest(a) ==
    [ path |-> << Slash, a.entity, "(" >> \o RenderParams(a.params) \o << ")" >>,
      params |-> << >> ]

\* The ODataQuery of the four tools that have one, the path and the parameters
\* of the three that write their own.
Shape(a) ==
    CASE a.tool = "sap_select"          -> SelectQuery(a)
      [] a.tool = "sap_top_n"           -> TopNQuery(a)
      [] a.tool = "sap_count"           -> CountQuery(a)
      [] a.tool = "sap_aggregate"       -> AggregateQuery(a)
      [] a.tool = "sap_navigate"        -> NavigateRequest(a)
      [] a.tool = "sap_lookup"          -> LookupRequest(a)
      [] a.tool = "sap_invoke_function" -> FunctionRequest(a)

-----------------------------------------------------------------------------
(* The URL of an ODataQuery.                                               *)

SelectValid(names) == names # << >> /\ \A i \in 1..Len(names) : names[i] \in Plain

OrderValid(pairs) ==
    \A i \in 1..Len(pairs) : pairs[i][1] \in Plain /\ pairs[i][2] \in Directions

\* _split_top_level_commas: blank items are dropped; one with a parenthesis in
\* it comes out whole, as an Odd one.
TopLevelItems(items) == SplitCsv(items)

\* _validate_apply; what does not read  [prop] with op as alias  is Odd.
ApplyValid(items) ==
    LET all == TopLevelItems(items)
    IN  /\ all # << >>
        /\ \A i \in 1..Len(all) :
              /\ all[i] \notin Odd
              /\ all[i].prop \in Plain \cup {None}
              /\ all[i].op \in AggregateOps
              /\ all[i].op = "count" \/ all[i].prop # None

\* validate_request, without the set of allowed properties: no tool passes one.
ValidateRequest(params, v) ==
    \A option \in DOMAIN params :
        CASE option = "top"    -> params.top \in 1..MaxTop
          [] option = "format" -> params.format = "json"
          [] option = "count"  -> v = "v4"
          [] option = "select" -> SelectValid(params.select)
          [] option = "order"  -> OrderValid(params.order)
          [] option = "apply"  -> ApplyValid(params.apply)
          [] option = "filter" -> Accepts(params.filter, v)

Options == { "select", "filter", "order", "top", "count", "apply" }

\* $count is a segment of the path in v2, where only $filter may go with it and
\* no $format is sent; everywhere else the options given, and $format=json.
CountSegment(q, v) == q.count # None /\ v = "v2"

Params(q, v) ==
    LET given == { option \in Options : q[option] # None }
    IN  IF CountSegment(q, v)
        THEN [ option \in given \ {"count"} |-> q[option] ]
        ELSE [ option \in given \cup {"format"} |->
                 IF option = "format" THEN "json" ELSE q[option] ]

UrlPath(q, v) ==
    << Slash, q.entity >> \o (IF CountSegment(q, v) THEN << Slash, "$count" >> ELSE << >>)

\* build_url goes through.
UrlBuilt(q, v) ==
    /\ q.entity \in Plain \cup Accented
    /\ CountSegment(q, v) => DOMAIN Params(q, v) \subseteq {"filter"}
    /\ ValidateRequest(Params(q, v), v)

Url(q, v) == [ path |-> UrlPath(q, v), params |-> Params(q, v) ]

-----------------------------------------------------------------------------
(* The calls.                                                              *)

Statuses == { "ok", "auth_error", "http_error", "rate_limited", "timeout",
              "validator_rejected", "forbidden", "session_unknown", "not_found",
              "cost_limit_exceeded", "resolution_error" }

Has(a, argument) == argument \in DOMAIN a

\* The arguments of each tool.
Arguments ==
    [ sap_select          |-> { "entity", "filter", "select", "order", "top" },
      sap_top_n           |-> { "entity", "filter", "select", "order", "top" },
      sap_count           |-> { "entity", "filter" },
      sap_aggregate       |-> { "entity", "filter", "items" },
      sap_navigate        |-> { "entity", "key", "nav", "top" },
      sap_lookup          |-> { "entity", "key", "select" },
      sap_invoke_function |-> { "entity", "params" },
      sap_describe_entity |-> { "entity" },
      sap_search_entity   |-> { "words", "limit" } ]

\* "median" and "sideways" stand for the words that mean nothing.
Names == Plain \cup Accented \cup Odd
OrderWords == { "asc", "desc", "DESC", "sideways" }
Aggregates ==
    { Blank } \cup Odd
        \cup [ prop : Names \cup {None}, op : AggregateOps \cup { "median" }, alias : Plain ]

\* Of a function import; a number is written without a quote.
Parameters ==
    Names \X { "string" } \X Seq(Chars)
        \cup Names \X { "number", "other" } \X Seq(Chars \ { Quote })

\* What the signature of the tool lets through.
IsCall(a) ==
    /\ a.tool \in DOMAIN Arguments /\ a.caller \in Callers
    /\ DOMAIN a = { "tool", "caller" } \cup Arguments[a.tool]
    /\ Has(a, "entity") => a.entity \in Names
    /\ Has(a, "filter") => \/ a.filter = None
                           \/ a.filter \in Seq(Tokens) /\ Len(a.filter) <= MaxTokens
    /\ Has(a, "select") => a.select \in Seq(Names \cup { Blank })
    /\ Has(a, "order")  => a.order \in Seq(Seq(Names \cup OrderWords))
    /\ Has(a, "items")  => a.items \in Seq(Aggregates)
    /\ Has(a, "top")    => a.top \in Int
    /\ Has(a, "key")    => a.key \in Seq(Chars)
    /\ Has(a, "nav")    => a.nav \in Names
    /\ Has(a, "params") => a.params \in Seq(Parameters)
    /\ Has(a, "limit")  => a.limit \in Int

ASSUME AsksAreCalls == \A a \in Asks : IsCall(a)

ASSUME ToolConstants ==
    /\ MaxTop \in Nat \ {0} /\ MaxTokens \in Nat
    /\ SnapshotLimit \in Nat /\ Len(Snapshot) \in Nat /\ MaxMatches \in Nat
    /\ Quote \notin Plain /\ Plain \cap UrlMarks = {}

\* None is none of the things it stands for the absence of.
ASSUME NoneStandsApart ==
    /\ None \notin Versions \cup Statuses \cup Plain \cup Int \cup { TRUE }
    /\ \A a \in Asks :
          /\ a.tool \notin SnapshotTools => Shape(a) # None
          /\ a.tool \notin SnapshotTools \cup RawTools =>
               \A v \in Versions : Url(Shape(a), v) # None
          /\ Has(a, "select") => SplitCsv(a.select) # None
          /\ Has(a, "order")  => OrderPairs(a.order) # None
          /\ Has(a, "items")  => a.items # None

-----------------------------------------------------------------------------
(* A call under way.                                                       *)

Init ==
    /\ ask \in Asks
    /\ stage = "asked"
    /\ query = None
    /\ version = None
    /\ url = None
    /\ found = None
    /\ answer = None

Answer(status) ==
    /\ stage' = "answered"
    /\ answer' = status
    /\ UNCHANGED << ask, query, version, url >>

Permitted == ask.tool \in AdminTools => ask.caller \in Admins

\* _require_admin_session, before anything else is looked at.
Forbidden ==
    /\ stage = "asked"
    /\ ~Permitted
    /\ Answer("forbidden")
    /\ UNCHANGED found

\* resolve_company_id: the first thing the snapshot tools do, the first thing
\* the pipeline does for the others.
SessionUnknown ==
    /\ ask.caller \notin WithCompany
    /\ stage = IF ask.tool \in SnapshotTools THEN "asked" ELSE "shaped"
    /\ Answer("session_unknown")
    /\ UNCHANGED found

Known == ask.tool \in SnapshotTools => ask.caller \in WithCompany

\* The tool returns before it calls the pipeline or reads anything.
RejectArguments ==
    /\ stage = "asked"
    /\ Permitted
    /\ Known
    /\ ToolRefuses(ask)
    /\ Answer("validator_rejected")
    /\ UNCHANGED found

\* The arguments are made into a query or a path.
Prepare ==
    /\ stage = "asked"
    /\ ask.tool \notin SnapshotTools
    /\ Permitted
    /\ ~ToolRefuses(ask)
    /\ stage' = "shaped"
    /\ query' = Shape(ask)
    /\ UNCHANGED << ask, version, url, found, answer >>

\* The budget is spent, or the session has no connection to use.
NotResolved ==
    /\ \/ stage = "shaped" /\ ask.caller \in WithCompany
          /\ \E s \in { "cost_limit_exceeded", "resolution_error" } : Answer(s)
       \/ stage = "asked" /\ ask.tool \in SnapshotTools /\ Known /\ ~ToolRefuses(ask)
          /\ Answer("resolution_error")
    /\ UNCHANGED found

\* Only now is the version of the service known.
Resolve ==
    /\ stage = "shaped"
    /\ ask.caller \in WithCompany
    /\ stage' = "resolved"
    /\ version' \in Versions
    /\ UNCHANGED << ask, query, url, found, answer >>

\* build_url raises: charged and audited by then.
RejectQuery ==
    /\ stage = "resolved"
    /\ ask.tool \notin RawTools
    /\ ~UrlBuilt(query, version)
    /\ Answer("validator_rejected")
    /\ UNCHANGED found

Send ==
    /\ stage = "resolved"
    /\ \/ ask.tool \in RawTools /\ url' = query
       \/ ask.tool \notin RawTools /\ UrlBuilt(query, version)
          /\ url' = Url(query, version)
    /\ stage' = "sent"
    /\ UNCHANGED << ask, query, version, found, answer >>

\* A bug the runs must catch: the client's exception reaches the answer as it is.
ReturnUntranslated ==
    /\ stage = "sent"
    /\ \E s \in { "ok", "401", "429" } : Answer(s)
    /\ UNCHANGED found

Return ==
    /\ stage = "sent"
    /\ \E s \in { "ok", "auth_error", "http_error", "rate_limited", "timeout" } : Answer(s)
    /\ UNCHANGED found

\* The matches among the rows read, in turn until there are limit of them.
RowsRead == IF SnapshotLimit < Len(Snapshot) THEN SnapshotLimit ELSE Len(Snapshot)

Matches(a) ==
    LET Found[n \in 0..RowsRead] ==
            IF n = 0 THEN << >>
            ELSE IF a.words \in Snapshot[n].words /\ Len(Found[n - 1]) < a.limit
                 THEN Append(Found[n - 1], Snapshot[n]) ELSE Found[n - 1]
    IN  Found[RowsRead]

SearchEntity ==
    /\ stage = "asked"
    /\ ask.tool = "sap_search_entity"
    /\ Known
    /\ ~ToolRefuses(ask)
    /\ found' = Matches(ask)
    /\ Answer("ok")

\* get_snapshot_entry: any one of the rows of that name, of whatever service.
DescribeEntity ==
    /\ stage = "asked"
    /\ ask.tool = "sap_describe_entity"
    /\ Known
    /\ ~ToolRefuses(ask)
    /\ LET named == { i \in 1..Len(Snapshot) : Snapshot[i].name = ask.entity }
       IN  \/ named = {} /\ Answer("not_found") /\ UNCHANGED found
           \/ \E i \in named : found' = << Snapshot[i] >> /\ Answer("ok")

Next ==
    \/ Forbidden \/ SessionUnknown \/ RejectArguments
    \/ Prepare \/ NotResolved \/ Resolve
    \/ RejectQuery \/ Send \/ Return
    \/ SearchEntity \/ DescribeEntity

Spec == Init /\ [][Next]_vars

-----------------------------------------------------------------------------
(* What the module comments promise, stated of the arguments.              *)

\* Every variable keeps its type: a call has a query once it is shaped, a
\* version once it is resolved, a URL once it is sent, a status at its end.
TypeOK ==
    /\ ask \in Asks
    /\ stage \in Stages
    /\ version \in Versions \cup {None}
    /\ stage \in { "shaped", "resolved", "sent" } => query # None
    /\ (stage = "resolved" \/ url # None) => version # None
    /\ stage = "sent" => url # None
    /\ found # None => ask.tool \in SnapshotTools /\ url = None
    /\ (stage = "answered") = (answer \in Statuses)

Sentences == [ v2 |-> Language("v2", MaxTokens), v4 |-> Language("v4", MaxTokens) ]

Words(raw) == { raw[i] : i \in 1..Len(raw) } \ {Blank}

LegalOrder(item) ==
    item[1] \in Plain /\ (Len(item) > 1 => Lower(item[2]) \in Directions)

LegalAggregate(item) ==
    /\ item \notin Odd
    /\ item.op \in AggregateOps
    /\ item.prop \in Plain \/ (item.prop = None /\ item.op = "count")

\* What the checks let through beyond the whitelist: _is_simple_segment takes
\* letters of any alphabet in the name of an entity set, nothing looks at the
\* $select of a lookup (the run ToolQueries_lookup shows it), and a third word
\* of an order item, which the validator would refuse, is dropped before it.
Lapses == { "accented_entity", "lookup_select", "third_word" }

\* What the whitelist and the tools' descriptions allow: plain names, filters
\* of the grammar for the version of the service, orders of a name and perhaps
\* a direction, the listed aggregates, and the two tools of administrators for
\* administrators; and, with a lapse, what that one adds.
LegalBut(lapses, a, v) ==
    /\ \/ a.entity \in Plain
       \/ "accented_entity" \in lapses /\ a.tool \notin RawTools /\ a.entity \in Accented
    /\ Has(a, "filter") => (a.filter = None \/ a.filter \in Sentences[v])
    /\ Has(a, "select") => \/ Words(a.select) \subseteq Plain
                           \/ "lookup_select" \in lapses /\ a.tool = "sap_lookup"
    /\ Has(a, "order") =>
         \A item \in Words(a.order) :
            LegalOrder(item) /\ (Len(item) <= 2 \/ "third_word" \in lapses)
    /\ Has(a, "items") => Words(a.items) # {}
                            /\ \A item \in Words(a.items) : LegalAggregate(item)
    /\ Has(a, "key") => a.key # << >>
    /\ Has(a, "nav") => a.nav \in Plain
    /\ Has(a, "params") =>
         \A i \in 1..Len(a.params) : a.params[i][1] \in Plain /\ a.params[i][2] # "other"
    /\ a.tool \in AdminTools => a.caller \in Admins

\* The two layers of checks, one before the pipeline and one inside it once the
\* version is known, do what the whitelist of odata_validator.py says but for
\* the three lapses: whatever leaves for SAP is legal or is so but for a lapse,
\* and nothing is refused that is legal, or is so but for a lapse.
VerdictExact ==
    /\ url # None => LegalBut(Lapses, ask, version)
    /\ stage = "answered" /\ answer \in { "validator_rejected", "forbidden" }
         /\ ask.tool \notin SnapshotTools
         => \E v \in Versions : version \in { v, None } /\ ~LegalBut(Lapses, ask, v)

\* What of a path reaches the server: a path ends at the first ? or #, and a %
\* with two hexadecimal digits behind it is one character.
HexDigits == { "0", "1", "2", "3", "4", "5", "6", "7", "8", "9",
               "A", "B", "C", "D", "E", "F", "a", "b", "c", "d", "e", "f" }

\* Of those characters only the quote is told from the others.
Decoded(high, low) == IF high = "2" /\ low = "7" THEN Quote ELSE "octet"

PathOnly(path) ==
    LET ends == { i \in 1..Len(path) : path[i] \in { "?", "#" } }
    IN  IF ends = {} THEN path ELSE SubSeq(path, 1, Min(ends) - 1)

Received(url_path) ==
    LET path == PathOnly(url_path)
        escapes == { i \in 1..Len(path) - 2 :
                       path[i] = "%" /\ path[i + 1] \in HexDigits /\ path[i + 2] \in HexDigits }
    IN  IF escapes = {} THEN path
        ELSE FlattenSeq([ i \in 1..Len(path) |->
                IF i \in escapes THEN << Decoded(path[i + 1], path[i + 2]) >>
                ELSE IF i - 1 \in escapes \/ i - 2 \in escapes THEN << >> ELSE << path[i] >> ])

\* Keys and strings without a character that means something in a URL.  Of the
\* others nothing is claimed (the run ToolQueries_lookup shows why).
Unmarked(text) == \A i \in 1..Len(text) : text[i] \notin UrlMarks

UrlSafe(a) ==
    /\ Has(a, "key") => Unmarked(a.key)
    /\ Has(a, "params") => \A i \in 1..Len(a.params) : Unmarked(a.params[i][3])

\* How an OData server reads a path: a quote opens a string literal, a doubled
\* quote in it is a quote, a single one closes it.  shape has one Quote for
\* each literal, texts what they say.
ReadChar(s, c) ==
    CASE s.mode = "out" /\ c = Quote
           -> [ shape |-> Append(s.shape, Quote), texts |-> Append(s.texts, << >>), mode |-> "in" ]
      [] s.mode = "in" /\ c = Quote
           -> [ s EXCEPT !.mode = "closing" ]
      [] (s.mode = "in" /\ c # Quote) \/ (s.mode = "closing" /\ c = Quote)
           -> [ s EXCEPT !.texts[Len(s.texts)] = Append(@, c), !.mode = "in" ]
      [] OTHER
           -> [ s EXCEPT !.shape = Append(@, c), !.mode = "out" ]

Reading(path) ==
    LET Read[n \in 0..Len(path)] ==
            IF n = 0 THEN [ shape |-> << >>, texts |-> << >>, mode |-> "out" ]
            ELSE ReadChar(Read[n - 1], path[n])
    IN  Read[Len(path)]

\* The strings among the parameters of a function import, in order.
Strings(params) ==
    LET Kept[n \in 0..Len(params)] ==
            IF n = 0 THEN << >>
            ELSE IF params[n][2] = "string" THEN Append(Kept[n - 1], params[n][3])
                 ELSE Kept[n - 1]
    IN  Kept[Len(params)]

Distance(m, n) == IF m < n THEN n - m ELSE m - n

\* The page asked for, or the nearest one allowed.
PageAsked(a, top) ==
    /\ top \in 1..MaxTop
    /\ \A other \in 1..MaxTop : Distance(top, a.top) <= Distance(other, a.top)

\* What SAP reads is what was asked: the options that were given and no other,
\* the projection and the order item by item, a page within the cap, the count
\* in the form of the version, and in the path of a raw tool the very key or
\* strings of the caller, whatever quotes they hold, with nothing of them read
\* as path, as long as they have none of the UrlMarks.  A search returns what it
\* says: matches, all of them unless cut by its limit or by the rows it reads.
SentAsAsked ==
    /\ url # None /\ ask.tool \notin RawTools =>
         LET p == url.params
             counts == ask.tool = "sap_count"
         IN  /\ url.path = << Slash, ask.entity >>
                             \o (IF counts /\ version = "v2" THEN << Slash, "$count" >> ELSE << >>)
             /\ Has(p, "count") <=> counts /\ version = "v4"
             /\ Has(p, "filter") <=> ask.filter # None
             /\ Has(p, "filter") => p.filter = ask.filter
             /\ Has(p, "apply") <=> Has(ask, "items")
             /\ Has(p, "apply") => p.apply = ask.items
             /\ Has(p, "select") <=> Has(ask, "select") /\ Words(ask.select) # {}
             /\ Has(p, "select") => p.select = SplitCsv(ask.select)
             /\ Has(p, "order") <=> Has(ask, "order") /\ Words(ask.order) # {}
             /\ Has(p, "order") =>
                  /\ Len(p.order) = Len(SplitCsv(ask.order))
                  /\ \A i \in 1..Len(p.order) :
                       LET item == SplitCsv(ask.order)[i]
                       IN  /\ p.order[i][1] = item[1]
                           /\ (p.order[i][2] = "desc")
                                = (Len(item) > 1 /\ item[2] \in { "desc", "DESC" })
             /\ Has(p, "top") <=> Has(ask, "top")
             /\ Has(p, "top") => PageAsked(ask, p.top)
    /\ url # None /\ ask.tool \in RawTools =>
         /\ ask.tool = "sap_navigate" => PageAsked(ask, url.params.top)
         /\ ask.tool = "sap_lookup" =>
              /\ Has(url.params, "select") <=> ask.select # << >>
              /\ Has(url.params, "select") => url.params.select = SplitCsv(ask.select)
         /\ UrlSafe(ask) =>
              LET read == Reading(Received(url.path))
              IN  /\ read.mode = "out"
                  /\ ask.tool = "sap_navigate" =>
                       read.shape = << Slash, ask.entity, "(", Quote, ")", Slash, ask.nav >>
                  /\ ask.tool = "sap_lookup" =>
                       read.shape = << Slash, ask.entity, "(", Quote, ")" >>
                  /\ read.texts = IF ask.tool = "sap_invoke_function" THEN Strings(ask.params)
                                  ELSE << ask.key >>
    /\ ask.tool = "sap_search_entity" /\ found # None =>
         /\ \A row \in Range(found) : ask.words \in row.words
         /\ \A i \in 1..Len(Snapshot) :
              ask.words \in Snapshot[i].words =>
                 Snapshot[i] \in Range(found) \/ Len(found) = ask.limit \/ i > SnapshotLimit

\* A lookup is documented to "fetch a single record by primary key", and its
\* $select to be seen by the validator, which "runs on the live URL" (tools.py).
\* Either of the two would do here, so that one lookup that does neither shows
\* both not to hold: its $select has never met validate_request, and its key,
\* joined to the URL as it is, is read as something else.
LookupAsDocumented ==
    url # None /\ ask.tool = "sap_lookup" =>
       \/ ValidateRequest(url.params, version)
       \/ Reading(Received(url.path)) =
             [ shape |-> << Slash, ask.entity, "(", Quote, ")" >>, texts |-> << ask.key >>,
               mode |-> "out" ]
=============================================================================
