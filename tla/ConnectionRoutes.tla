-------------------------- MODULE ConnectionRoutes --------------------------
(***************************************************************************)
(* POST, PATCH and DELETE /connections, POST /test and /sync (routes.py):  *)
(* what one request does to the row in integrations_sap.connections, to    *)
(* the encrypted credentials the core keeps for it, and to the other       *)
(* requests in flight.                                                     *)
(*                                                                         *)
(* Every call made through run_in_thread is a transaction of its own and   *)
(* an action of its own; between two of them other requests run.  Any call *)
(* may raise, and the process may die: Cut.  The body of /sync between the *)
(* fetch and the health update is module MetadataSync.                     *)
(***************************************************************************)
EXTENDS Integers, FiniteSets, Credentials

CONSTANTS
    Requests,      \* each one at most once; POST r creates connection r
    Legacy,        \* a connection with no credentials row
    Companies,     \* tenants
    LegacyCompany, \* the tenant of Legacy
    Asks,          \* what clients may ask
    None           \* SQL NULL / Python None, no connection

Connections == Requests \cup {Legacy}
Fields == UNION { FormFields(m) : m \in AuthModes }

\* What a client may ask: kind, tenant, the column it sets (the auth mode, or
\* "label" for any of label, base_url, is_active) and the credentials it sends.
Ask == [ kind    : { "create", "patch", "delete", "test", "sync" },
         company : Companies,
         change  : AuthModes \cup { "label", None },
         creds   : {None} \cup SUBSET Fields ]

Row == [ company : Companies, mode : AuthModes,
         secret : Connections \cup {None}, health : { None, "ok", "error" } ]

ASSUME RouteConstants ==
    /\ Legacy \notin Requests
    /\ None \notin Connections \cup AuthModes \cup { "label" }
    /\ None \notin { "ok", "error" } \cup Nat
    /\ None \notin Row
    /\ None \notin Ask
    /\ \A creds \in SUBSET Fields : None # creds
    /\ LegacyCompany \in Companies
    /\ Asks \subseteq Ask
    /\ \A a \in Asks : a.kind = "create" => a.change \in AuthModes /\ a.creds # None

VARIABLES
    rows,        \* integrations_sap.connections
    secrets,     \* the core's credentials rows: the keys each one stores
    abandoned,   \* credentials rows whose deletion the core refused or a cut
                 \* prevented (history)
    \* and for each request:
    stage,       \* the call it is about to make
    ask,         \* what it asks
    on,          \* the connection it is about
    row,         \* the row it has read
    verdict,     \* the health it is about to record
    wrote,       \* the writes of its own that took effect (history)
    reply        \* the status code it answered

tables == << rows, secrets, abandoned >>
vars == << tables, stage, ask, on, row, verdict, wrote, reply >>

InFlight == { "saving", "inserting", "rolling_back", "reading", "updating",
              "storing", "deleting", "purging", "resolving", "loading",
              "fetching", "stamping", "returning" }
Stages == { "idle", "answered", "cut" } \cup InFlight

Init ==
    /\ rows = [ c \in Connections |->
                  IF c = Legacy THEN [ company |-> LegacyCompany, mode |-> "basic",
                                       secret |-> None, health |-> None ]
                                ELSE None ]
    /\ secrets = [ c \in Connections |-> None ]
    /\ abandoned = {}
    /\ stage = [ r \in Requests |-> "idle" ]
    /\ ask = [ r \in Requests |-> None ]
    /\ on = [ r \in Requests |-> None ]
    /\ row = [ r \in Requests |-> None ]
    /\ verdict = [ r \in Requests |-> None ]
    /\ wrote = [ r \in Requests |-> {} ]
    /\ reply = [ r \in Requests |-> None ]

Goto(r, there) ==
    /\ stage' = [ stage EXCEPT ![r] = there ]
    /\ UNCHANGED reply
Answer(r, code) ==
    /\ stage' = [ stage EXCEPT ![r] = "answered" ]
    /\ reply' = [ reply EXCEPT ![r] = code ]
Wrote(r, what) == wrote' = [ wrote EXCEPT ![r] = @ \cup {what} ]

\* What the two UPDATEs set of a row.
WithMode(x, mode) == [ x EXCEPT !.mode = mode ]
WithHealth(x, health) == [ x EXCEPT !.health = health ]

Valid(mode, creds) == FormFields(mode) \subseteq creds

-----------------------------------------------------------------------------
(* POST /connections.                                                      *)

Create(r, a) ==
    /\ a.kind = "create"
    /\ on' = [ on EXCEPT ![r] = r ]
    /\ \/ Valid(a.change, a.creds) /\ Goto(r, "saving")
       \/ ~Valid(a.change, a.creds) /\ Answer(r, 422)

Save(r) ==
    /\ stage[r] = "saving"
    /\ secrets' = [ secrets EXCEPT ![r] = ask[r].creds ]
    /\ Wrote(r, "secret")
    /\ Goto(r, "inserting")
    /\ UNCHANGED << rows, abandoned, ask, on, row, verdict >>

\* Two bugs the runs must catch: a row that is committed although the call
\* raises, and one that is born healthy.
InsertThenRaise(r) ==
    /\ stage[r] = "inserting"
    /\ rows' = [ rows EXCEPT ![r] =
                   [ company |-> ask[r].company, mode |-> ask[r].change,
                     secret |-> r, health |-> None ] ]
    /\ Wrote(r, "row")
    /\ Goto(r, "returning") \/ Goto(r, "rolling_back")
    /\ UNCHANGED << secrets, abandoned, ask, on, row, verdict >>
InsertHealthy(r) ==
    /\ stage[r] = "inserting"
    /\ \/ /\ rows' = [ rows EXCEPT ![r] =
                          [ company |-> ask[r].company, mode |-> ask[r].change,
                            secret |-> r, health |-> "ok" ] ]
          /\ Wrote(r, "row")
          /\ Goto(r, "returning")
       \/ Goto(r, "rolling_back") /\ UNCHANGED << rows, wrote >>
    /\ UNCHANGED << secrets, abandoned, ask, on, row, verdict >>

\* The INSERT, or its failure: a database error, a label that is taken.
Insert(r) ==
    /\ stage[r] = "inserting"
    /\ \/ /\ rows' = [ rows EXCEPT ![r] =
                          [ company |-> ask[r].company, mode |-> ask[r].change,
                            secret |-> r, health |-> None ] ]
          /\ Wrote(r, "row")
          /\ Goto(r, "returning")
       \/ Goto(r, "rolling_back") /\ UNCHANGED << rows, wrote >>
    /\ UNCHANGED << secrets, abandoned, ask, on, row, verdict >>

\* sdk_delete_connection; what it raises is logged and swallowed.
Discard(secret) ==
    \/ /\ secrets' = [ secrets EXCEPT ![secret] = None ]
       /\ UNCHANGED abandoned
    \/ /\ abandoned' = abandoned \cup {secret}
       /\ UNCHANGED secrets

\* A bug the runs must catch: the failed INSERT leaves its secret behind.
RollBackNothing(r) ==
    /\ stage[r] = "rolling_back"
    /\ Answer(r, 500)
    /\ UNCHANGED << tables, ask, on, row, verdict, wrote >>

RollBack(r) ==
    /\ stage[r] = "rolling_back"
    /\ Discard(r)
    /\ Answer(r, 500)
    /\ UNCHANGED << rows, ask, on, row, verdict, wrote >>

-----------------------------------------------------------------------------
(* PATCH and DELETE /connections/{id}.                                     *)

\* A bug the runs must catch: the tenant is not compared.
VisibleToAll(r, c) == rows[c] # None

Visible(r, c) == rows[c] # None /\ rows[c].company = ask[r].company

\* What PATCH does after its UPDATE, before it next suspends; the mode is the
\* one asked for, or the one read at the start.
Credit(r, old) ==
    LET mode == IF ask[r].change \in AuthModes THEN ask[r].change ELSE old.mode
    IN  \/ ask[r].creds = None /\ Goto(r, "returning")
        \/ /\ ask[r].creds # None
           /\ \/ ~Valid(mode, ask[r].creds) /\ Answer(r, 422)
              \/ Valid(mode, ask[r].creds) /\ old.secret = None /\ Answer(r, 409)
              \/ Valid(mode, ask[r].creds) /\ old.secret # None /\ Goto(r, "storing")

Read(r) ==
    /\ stage[r] = "reading"
    /\ \/ ~Visible(r, on[r]) /\ Answer(r, 404) /\ UNCHANGED row
       \/ /\ Visible(r, on[r])
          /\ row' = [ row EXCEPT ![r] = rows[on[r]] ]
          /\ \/ ask[r].kind = "delete" /\ Goto(r, "deleting")
             \/ ask[r].kind = "patch" /\ ask[r].change # None /\ Goto(r, "updating")
             \/ ask[r].kind = "patch" /\ ask[r].change = None /\ Credit(r, rows[on[r]])
    /\ UNCHANGED << tables, ask, on, verdict, wrote >>

\* A bug the runs must catch: whatever is set is set as the mode.
UpdateWrongColumn(r) ==
    /\ stage[r] = "updating"
    /\ rows[on[r]] # None
    /\ Wrote(r, "row")
    /\ rows' = [ rows EXCEPT ![on[r]] = WithMode(@, ask[r].change) ]
    /\ Credit(r, row[r])
    /\ UNCHANGED << secrets, abandoned, ask, on, row, verdict >>

\* The UPDATE, by id; that it matched no row goes unnoticed.
Update(r) ==
    /\ stage[r] = "updating"
    /\ \/ /\ rows[on[r]] # None
          /\ Wrote(r, "row")
          /\ rows' = IF ask[r].change \in AuthModes
                     THEN [ rows EXCEPT ![on[r]] = WithMode(@, ask[r].change) ]
                     ELSE rows
       \/ rows[on[r]] = None /\ UNCHANGED << rows, wrote >>
    /\ Credit(r, row[r])
    /\ UNCHANGED << secrets, abandoned, ask, on, row, verdict >>

\* sdk_update_config replaces the credentials or merges into them: the core
\* decides. If they are gone it does nothing (or raises: Cut).
Store(r) ==
    /\ stage[r] = "storing"
    /\ LET s == row[r].secret
       IN  \/ /\ secrets[s] # None
              /\ \E keys \in { ask[r].creds, secrets[s] \cup ask[r].creds } :
                    secrets' = [ secrets EXCEPT ![s] = keys ]
              /\ Wrote(r, "secret")
           \/ secrets[s] = None /\ UNCHANGED << secrets, wrote >>
    /\ Goto(r, "returning")
    /\ UNCHANGED << rows, abandoned, ask, on, row, verdict >>

\* A bug the runs must catch: the row read at the start is answered.
ReturnAnyway(r) ==
    /\ stage[r] = "returning"
    /\ Answer(r, IF ask[r].kind = "create" THEN 201 ELSE 200)
    /\ UNCHANGED << tables, ask, on, row, verdict, wrote >>

\* The row read back is what POST and PATCH answer; serialising None raises.
Return(r) ==
    /\ stage[r] = "returning"
    /\ \/ rows[on[r]] = None /\ Answer(r, 500)
       \/ /\ rows[on[r]] # None
          /\ Answer(r, IF ask[r].kind = "create" THEN 201 ELSE 200)
    /\ UNCHANGED << tables, ask, on, row, verdict, wrote >>

Delete(r) ==
    /\ stage[r] = "deleting"
    /\ rows' = [ rows EXCEPT ![on[r]] = None ]
    /\ \/ row[r].secret = None /\ Answer(r, 204)
       \/ row[r].secret # None /\ Goto(r, "purging")
    /\ UNCHANGED << secrets, abandoned, ask, on, row, verdict, wrote >>

Purge(r) ==
    /\ stage[r] = "purging"
    /\ Discard(row[r].secret)
    /\ Answer(r, 204)
    /\ UNCHANGED << rows, ask, on, row, verdict, wrote >>

-----------------------------------------------------------------------------
(* POST /connections/{id}/test and /sync.                                  *)

Resolve(r) ==
    /\ stage[r] = "resolving"
    /\ \/ ~Visible(r, on[r]) /\ Answer(r, 404) /\ UNCHANGED row
       \/ /\ Visible(r, on[r])
          /\ row' = [ row EXCEPT ![r] = rows[on[r]] ]
          /\ \/ rows[on[r]].secret = None /\ Answer(r, 400)
             \/ rows[on[r]].secret # None /\ Goto(r, "loading")
    /\ UNCHANGED << tables, ask, on, verdict, wrote >>

\* Missing credentials raise a ResolutionError that says "not found".
Load(r) ==
    /\ stage[r] = "loading"
    /\ LET keys == secrets[row[r].secret]
           enough == RequiredKeys(row[r].mode) \subseteq keys
       IN  \/ keys = None /\ Answer(r, 404)
           \/ keys # None /\ ~enough /\ Answer(r, 400)
           \/ keys # None /\ enough /\ Goto(r, "fetching")
    /\ UNCHANGED << tables, ask, on, row, verdict, wrote >>

\* $metadata arrives and parses, or not: /test reports that, /sync answers it.
Fetch(r) ==
    /\ stage[r] = "fetching"
    /\ \/ \E result \in { "ok", "error" } :
             /\ result = "error" => ask[r].kind = "test"
             /\ verdict' = [ verdict EXCEPT ![r] = result ]
             /\ Goto(r, "stamping")
       \/ /\ ask[r].kind = "sync"
          /\ \E code \in { 502, 504 } : Answer(r, code)
          /\ UNCHANGED verdict
    /\ UNCHANGED << tables, ask, on, row, wrote >>

\* auth.apply raises AuthError or httpx.TransportError: neither is handled.
TokenFails(r) ==
    /\ stage[r] = "fetching"
    /\ row[r].mode = "oauth_client_credentials"
    /\ Answer(r, 500)
    /\ UNCHANGED << tables, ask, on, row, verdict, wrote >>

\* A bug the runs must catch: the health update is an upsert.
StampUpsert(r) ==
    /\ stage[r] = "stamping"
    /\ rows' = [ rows EXCEPT ![on[r]] = [ row[r] EXCEPT !.health = verdict[r] ] ]
    /\ Wrote(r, "row")
    /\ Answer(r, 200)
    /\ UNCHANGED << secrets, abandoned, ask, on, row, verdict >>

\* set_connection_health, by id, then the answer.
Stamp(r) ==
    /\ stage[r] = "stamping"
    /\ \/ /\ rows[on[r]] # None
          /\ rows' = [ rows EXCEPT ![on[r]] = WithHealth(@, verdict[r]) ]
          /\ Wrote(r, "row")
       \/ rows[on[r]] = None /\ UNCHANGED << rows, wrote >>
    /\ Answer(r, 200)
    /\ UNCHANGED << secrets, abandoned, ask, on, row, verdict >>

-----------------------------------------------------------------------------

\* A request about connection c arrives.
About(r, a, c) ==
    /\ on' = [ on EXCEPT ![r] = c ]
    /\ \/ a.kind \in { "patch", "delete" } /\ Goto(r, "reading")
       \/ a.kind \in { "test", "sync" } /\ Goto(r, "resolving")

\* Clients know the ids of the connections that exist or did; any other id is
\* answered like one that is gone.
Known == {Legacy} \cup { c \in Requests : "row" \in wrote[c] /\ ask[c].kind = "create" }

Arrive(r, a) ==
    /\ stage[r] = "idle"
    /\ ask' = [ ask EXCEPT ![r] = a ]
    /\ Create(r, a) \/ \E c \in Known : About(r, a, c)
    /\ UNCHANGED << tables, row, verdict, wrote >>

\* The credentials a request has yet to attach to a row or to delete.
Holds(r) ==
    IF stage[r] \in { "inserting", "rolling_back" } THEN {r}
    ELSE IF stage[r] = "purging" THEN { row[r].secret }
    ELSE {}

\* A call raises where nothing handles it, or the process dies.
Cut(r) ==
    /\ stage[r] \in InFlight
    /\ stage' = [ stage EXCEPT ![r] = "cut" ]
    /\ abandoned' = abandoned \cup Holds(r)
    /\ UNCHANGED << rows, secrets, ask, on, row, verdict, wrote, reply >>

RequestNext(r) ==
    \/ \E a \in Asks : Arrive(r, a)
    \/ Save(r)
    \/ Insert(r)
    \/ RollBack(r)
    \/ Read(r)
    \/ Update(r)
    \/ Store(r)
    \/ Return(r)
    \/ Delete(r)
    \/ Purge(r)
    \/ Resolve(r)
    \/ Load(r)
    \/ Fetch(r)
    \/ TokenFails(r)
    \/ Stamp(r)
    \/ Cut(r)

Next == \E r \in Requests : RequestNext(r)

Spec == Init /\ [][Next]_vars

-----------------------------------------------------------------------------
(* Properties.                                                             *)

\* The type invariant.
TypeOK ==
    /\ rows \in [ Connections -> {None} \cup Row ]
    /\ secrets \in [ Connections -> {None} \cup SUBSET Fields ]
    /\ abandoned \subseteq Connections
    /\ stage \in [ Requests -> Stages ]
    /\ ask \in [ Requests -> {None} \cup Asks ]
    /\ on \in [ Requests -> Connections \cup {None} ]
    /\ row \in [ Requests -> {None} \cup Row ]
    /\ verdict \in [ Requests -> { None, "ok", "error" } ]
    /\ wrote \in [ Requests -> SUBSET { "row", "secret" } ]
    /\ reply \in [ Requests -> Nat \cup {None} ]

\* No orphaned secrets: credentials belong to a row, or to the request that is
\* about to insert their row or to delete them, unless the core refused to
\* delete them or a cut came first.
SecretsAccounted ==
    \A s \in Connections : secrets[s] # None =>
        \/ rows[s] # None /\ rows[s].secret = s
        \/ \E r \in Requests : s \in Holds(r)
        \/ s \in abandoned

\* No row outlives its credentials, however requests race.
RowsHaveSecrets ==
    \A c \in Connections :
        rows[c] # None /\ rows[c].secret # None => secrets[rows[c].secret] # None

\* A connection that is gone stays gone: nothing that was in flight when it was
\* deleted writes it back, and its credentials come back with nothing either.
NoResurrection ==
    [][ \A c \in Connections :
          /\ rows[c] = None /\ rows'[c] # None
                => c \in Requests /\ "row" \notin wrote[c]
          /\ secrets[c] = None /\ secrets'[c] # None
                => c \in Requests /\ "secret" \notin wrote[c] ]_vars

\* A success is one: a POST or PATCH answered 20x has written all it was asked
\* to, although it ignores how many rows its UPDATE matched; after a DELETE
\* answered 204 the connection is gone for good.
Wanted(r) ==
    { w \in { "row", "secret" } :
        \/ w = "row" /\ ask[r].change # None
        \/ w = "secret" /\ ask[r].creds # None }
SuccessIsTrue ==
    \A r \in Requests : reply[r] \in { 200, 201, 204 } =>
        /\ ask[r].kind \in { "create", "patch" } => wrote[r] = Wanted(r)
        /\ ask[r].kind = "delete" =>
              rows[on[r]] = None /\ (secrets[on[r]] = None \/ on[r] \in abandoned)
        /\ ask[r].kind \in { "test", "sync" } => verdict[r] # None

\* Tenants are opaque to one another: a request never changes the row or the
\* credentials of another tenant's connection, and learns nothing but 404.
TenantsApart ==
    \A r \in Requests : on[r] # None /\ ask[r].kind # "create" =>
        LET theirs == IF on[r] = Legacy THEN LegacyCompany ELSE ask[on[r]].company
        IN  theirs # ask[r].company => wrote[r] = {} /\ reply[r] \in { None, 404 }

\* The health shown is earned: "ok" by a test or a sync of this very connection
\* that got its $metadata, "error" only by a test that did not.
HealthEarned ==
    \A c \in Connections : rows[c] # None /\ rows[c].health # None =>
        \E r \in Requests :
            /\ on[r] = c /\ "row" \in wrote[r]
            /\ verdict[r] = rows[c].health
            /\ verdict[r] = "error" => ask[r].kind = "test"

-----------------------------------------------------------------------------
(* What the documentation says, and the code does not do.                  *)

\* README.md:182, 208-210: a connection saved with a username and a password
\* can be tested: its credentials are not refused as missing.
BasicConnects ==
    \A r \in Requests : reply[r] = 400 =>
        \/ on[r] = Legacy
        \/ \E p \in Requests : ask[p] # None /\ ask[p].kind = "patch"

=============================================================================
