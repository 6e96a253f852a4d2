---------------------------- MODULE MCToolQueries ---------------------------
(***************************************************************************)
(* The calls to check: every $filter of up to MaxTokens tokens, and for    *)
(* each argument of each tool the values that something tells apart.       *)
(***************************************************************************)
EXTENDS ToolQueries

CONSTANTS Partner, Amount, none, accented, odd

MCPlain == { Partner, Amount }
MCAccented == { accented }
MCOdd == { odd }
MCChars == { "'", "x", ")", "?", "#", "%", "2", "7" }

\* Three rows by name; two services expose the same entity set.
MCSnapshot ==
    << [ name |-> Amount, path |-> 1, words |-> { "money" } ],
       [ name |-> Partner, path |-> 1, words |-> { "firm", "money" } ],
       [ name |-> Partner, path |-> 2, words |-> { "firm", "money" } ] >>

SomeFilters == { none, << >>, << "operand", "eq", "datetime" >>, << "not" >> }

Filters == { none } \cup UNION { [ 1..n -> Tokens ] : n \in 0..MaxTokens }

SelectItems == Names \cup { Blank }
OrderItems ==
    { Blank } \cup { << n >> : n \in Names }
        \cup { << Amount, d >> : d \in { "asc", "DESC", "sideways", Amount } }
        \cup { << Partner, "desc", odd >> }
SomeAggregates ==
    { Blank, odd }
        \cup [ prop : { Amount, none }, op : { "sum", "count", "median" }, alias : { Partner } ]

UpTo(n, S) == UNION { [ 1..i -> S ] : i \in 0..n }

\* Quotes everywhere; and, for one entity set, what a URL reads otherwise.
Keys == UpTo(4, { "'", "x", ")" })
UrlKeys == UpTo(3, MCChars \ { ")" })

FunctionParams ==
    { << n, "number", << "7" >> >> : n \in { Amount, odd } }
        \cup { << Partner, "string", k >> :
                 k \in { << >>, << "'" >>, << "x", "'", "'" >>, << "?" >>, << "%", "2", "7" >> } }
        \cup { << Amount, "other", << >> >> }

FilterAsks ==
    [ tool : { "sap_select" }, caller : { "member" }, entity : { Partner },
      filter : Filters, select : { << >> }, order : { << >> }, top : { 1 } ]

QueryAsks ==
    [ tool : { "sap_select", "sap_top_n" }, caller : { "member", "unknown" },
      entity : { Partner, accented }, filter : SomeFilters,
      select : UpTo(2, SelectItems), order : { << >>, << << Amount >> >> },
      top : -1..MaxTop + 1 ]
    \cup
    [ tool : { "sap_top_n" }, caller : { "admin" }, entity : Names,
      filter : { none }, select : { << >> }, order : UpTo(2, OrderItems), top : { 2 } ]
    \cup
    [ tool : { "sap_count" }, caller : Callers, entity : Names, filter : SomeFilters ]
    \cup
    [ tool : { "sap_aggregate" }, caller : { "member" }, entity : { Partner, odd },
      filter : SomeFilters, items : UpTo(2, SomeAggregates) ]

RawAsks ==
    [ tool : { "sap_navigate" }, caller : { "member", "homeless_admin" }, entity : Names,
      key : Keys, nav : { Amount, odd }, top : { 0, 1, MaxTop + 1 } ]
    \cup
    [ tool : { "sap_navigate" }, caller : { "member" }, entity : { Partner },
      key : UrlKeys, nav : { Amount }, top : { 1 } ]
    \cup
    [ tool : { "sap_lookup" }, caller : Callers, entity : { Partner, accented },
      key : Keys, select : UpTo(1, SelectItems) ]
    \cup
    [ tool : { "sap_lookup" }, caller : { "admin" }, entity : { Partner },
      key : UrlKeys, select : UpTo(2, SelectItems) ]
    \cup
    [ tool : { "sap_invoke_function" }, caller : Callers, entity : { Partner, odd },
      params : UpTo(2, FunctionParams) ]

SnapshotAsks ==
    [ tool : { "sap_describe_entity" }, caller : Callers, entity : Names ]
    \cup
    [ tool : { "sap_search_entity" }, caller : Callers,
      words : { none, "money", "firm", "gold" }, limit : 0..MaxMatches + 1 ]

MCAsks == FilterAsks \cup QueryAsks \cup RawAsks \cup SnapshotAsks
=============================================================================
