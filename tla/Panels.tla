-------------------------------- MODULE Panels --------------------------------
(***************************************************************************)
(* The module's view in the browser (SAPConnectorView.tsx) and its panels: *)
(* which connection is selected, which panel is open, what it shows and    *)
(* the requests that are on their way.                                     *)
(*                                                                         *)
(* Only the panel of the open tab is mounted.  A handler keeps the         *)
(* selection and the filter of the render it was made in, whatever changes *)
(* while it waits; answers come in any order; what a panel that is no      *)
(* longer mounted does to its own state is lost, but what it does to the   *)
(* selection is not.                                                       *)
(***************************************************************************)
EXTENDS Integers, Sequences, FiniteSets

CONSTANTS
    Connections,    \* ids of connections
    AuditLog,       \* the audit log of the company, oldest row first
    Limit,          \* how many rows the audit panel asks for
    MaxGestures,    \* bound: what the user does
    MaxRequests,    \* bound: how many are on their way when the user does more
    None            \* nothing is selected, no filter, no answer yet

Statuses == { AuditLog[i].status : i \in 1 .. Len(AuditLog) }

ASSUME PanelConstants ==
    /\ Limit \in Nat \ {0}
    /\ MaxGestures \in Nat /\ MaxRequests \in Nat
    /\ None \notin Connections \cup Statuses /\ None \notin Nat
    /\ Len(AuditLog) \in Nat

VARIABLES
    live,           \* the connections the server has
    ever,           \* those it has had (ids are not used twice)
    tab,            \* ?tab=
    selected,       \* selectedConnectionId
    filter,         \* statusFilter of the audit panel
    shown,          \* what the open panel shows, and what that is of
    loading,        \* loading of the open panel
    requests,       \* on their way
    issued,         \* how many there have been
    gestures,       \* what the user has done so far
    choice,         \* how many, when the user last chose a connection (history)
    answered,       \* the latest reload the open panel has shown (history)
    disturbed       \* its answers came late, or not at all (history)

server == << live, ever >>
view == << tab, selected, filter >>
panel == << shown, loading, answered, disturbed >>
asked == << requests, issued >>
vars == << server, view, panel, asked, gestures, choice >>

Tabs == { "connection", "status", "browser", "audit" }
Kinds == { "reload", "create", "delete", "touch" }
Renders == (Connections \cup {None}) \X (Statuses \cup {None})
Rows == Connections \cup 1 .. Len(AuditLog)

\* What a handler keeps of the render it was made in.
Render(on, status) == << on, status >>
Now == Render(selected, filter)

Blank == [ of |-> Render(None, None), rows |-> {} ]

\* A request of panel t, by an effect or by the handler of button `by` of row
\* `on`, begun `since` then.
Request(n, t, kind, by, on, render) ==
    [ n |-> n, since |-> n, tab |-> t, kind |-> kind, by |-> by, on |-> on,
      render |-> render, mounted |-> TRUE, served |-> FALSE, rows |-> {} ]

Requests ==
    [ n : Nat, since : Nat, tab : Tabs, kind : Kinds, by : Kinds \cup {None},
      on : Connections \cup {None}, render : Renders, mounted : BOOLEAN,
      served : BOOLEAN, rows : SUBSET Rows ]

\* reload() of panel t: nothing in a panel that needs a connection and has none.
Reload(n, t, render) ==
    IF t = "connection" \/ render[1] # None
    THEN { Request(n, t, "reload", None, None, render) } ELSE {}

\* A bug the runs must catch: the reload of a panel that is gone fills the open one.
ReloadsAnyway(n, q) ==
    [ q EXCEPT !.n = n, !.kind = "reload", !.served = FALSE, !.rows = {}, !.mounted = TRUE ]

\* The handler of q goes on with the reload() it has kept.
Reloads(n, q) ==
    [ q EXCEPT !.n = n, !.kind = "reload", !.served = FALSE, !.rows = {} ]

Mine(qs) == { q \in qs : q.mounted }

\* The tab and the selection come from the URL, and the URL may be an old one:
\* the connection it names may be gone.
Init ==
    /\ ever \in SUBSET Connections
    /\ live \in SUBSET ever
    /\ tab \in Tabs
    /\ selected \in ever \cup {None}
    /\ filter = None
    /\ shown = Blank
    /\ requests = Reload(1, tab, Render(selected, None))
    /\ issued = Cardinality(requests)
    /\ loading = (requests # {})
    /\ gestures = 0
    /\ choice = None
    /\ answered = 0
    /\ disturbed = FALSE

-----------------------------------------------------------------------------
(* The server (routes.py, repository.py).                                  *)

\* list_audit_log takes the newest rows of the company, list_connection_audit
\* leaves those of the connection.
AuditListing(c, status) ==
    LET Fits(i) == status \in { None, AuditLog[i].status }
    IN  { i \in 1 .. Len(AuditLog) :
            /\ AuditLog[i].on = c
            /\ Fits(i)
            /\ Cardinality({ j \in i + 1 .. Len(AuditLog) : Fits(j) }) < Limit }

\* What a reload is answered with.
Listing(q) ==
    IF q.tab = "connection" THEN live
    ELSE IF q.tab = "audit" THEN AuditListing(q.render[1], q.render[2])
    ELSE { q.render[1] }

Served(q, rows) ==
    /\ ~q.served
    /\ requests' = (requests \ {q}) \cup { [ q EXCEPT !.served = TRUE, !.rows = rows ] }
    /\ UNCHANGED << view, issued, gestures, choice >>

\* A connection the server does not have is a 404 (Fail).
ServeReload(q) ==
    /\ q.kind = "reload"
    /\ q.tab = "connection" \/ q.render[1] \in live
    /\ Served(q, Listing(q))
    /\ UNCHANGED << server, panel >>

\* What is done for a panel that is gone may make the open one out of date.
Behind(q) ==
    /\ disturbed' = (disturbed \/ ~q.mounted)
    /\ UNCHANGED << shown, loading, answered >>

ServeCreate(q) ==
    /\ q.kind = "create"
    /\ \E c \in Connections \ ever :
          /\ live' = live \cup {c}
          /\ ever' = ever \cup {c}
          /\ Served(q, {c})
    /\ Behind(q)

ServeDelete(q) ==
    /\ q.kind = "delete"
    /\ q.on \in live
    /\ live' = live \ { q.on }
    /\ Served(q, {})
    /\ Behind(q)
    /\ UNCHANGED ever

\* A test or a sync.
ServeTouch(q) ==
    /\ q.kind = "touch"
    /\ q.on \in live
    /\ Served(q, {})
    /\ UNCHANGED << server, panel >>

-----------------------------------------------------------------------------
(* What the user does.                                                     *)

Gesture ==
    /\ gestures < MaxGestures
    /\ Cardinality(requests) < MaxRequests
    /\ gestures' = gestures + 1

\* useEffect: selection or filter have changed, and the open panel reloads,
\* beside the requests `kept`.
Effect(kept, n, flaw) ==
    /\ requests' = kept \cup Reload(n, tab, Render(selected', filter'))
    /\ issued' = n
    /\ loading' = TRUE
    /\ disturbed' = (Mine(kept) # {} /\ flaw)

\* handleTabChange: the panel of another tab is mounted, with a state of its own.
\* Only the connection panel's requests may still do something when it is gone.
OpenTab(t) ==
    LET left == { [ q EXCEPT !.mounted = FALSE ] :
                    q \in { p \in requests : p.tab = "connection" } }
        new == Reload(issued + 1, t, Render(selected, None))
    IN  /\ t # tab
        /\ Gesture
        /\ tab' = t
        /\ filter' = None
        /\ shown' = Blank
        /\ requests' = left \cup new
        /\ issued' = issued + Cardinality(new)
        /\ loading' = (new # {})
        /\ answered' = 0
        /\ disturbed' = FALSE
        /\ UNCHANGED << server, selected, choice >>

\* A click on a row.
Select(c) ==
    /\ tab = "connection"
    /\ c \in shown.rows
    /\ Gesture
    /\ selected' = c
    /\ choice' = issued
    /\ UNCHANGED << server, tab, filter, shown, answered >>
    /\ IF c = selected THEN UNCHANGED << asked, loading, disturbed >>
       ELSE Effect(requests, issued + 1, disturbed)

\* A bug the runs must catch: reload does not depend on the filter.
SetFilterOnly(status) ==
    /\ tab = "audit"
    /\ selected # None
    /\ status # filter
    /\ Gesture
    /\ filter' = status
    /\ UNCHANGED << server, tab, selected, panel, asked, choice >>

\* The status filter of the audit panel.
SetFilter(status) ==
    /\ tab = "audit"
    /\ selected # None
    /\ status # filter
    /\ Gesture
    /\ filter' = status
    /\ UNCHANGED << server, tab, selected, shown, answered, choice >>
    /\ Effect(requests, issued + 1, disturbed)

\* The refresh button of the audit panel.
Refresh ==
    /\ tab = "audit"
    /\ selected # None
    /\ ~loading
    /\ Gesture
    /\ UNCHANGED << server, view, shown, answered, choice >>
    /\ Effect(requests, issued + 1, disturbed)

\* A button of the open panel: its request keeps this render.
Press(kind, on) ==
    /\ Gesture
    /\ requests' = requests \cup { Request(issued + 1, tab, kind, kind, on, Now) }
    /\ issued' = issued + 1
    /\ UNCHANGED << server, view, panel, choice >>

\* Buttons are disabled while their handler is at work.
Idle(kind, on) == \A q \in Mine(requests) : q.by = kind => q.on # on

Create ==
    /\ tab = "connection"
    /\ \A q \in Mine(requests) : q.kind # "create"
    /\ Press("create", None)

Delete(c) ==
    /\ tab = "connection"
    /\ c \in shown.rows
    /\ Idle("delete", c)
    /\ Press("delete", c)

\* Test in a row; test or sync in the status panel, one at a time.
Touch(c) ==
    /\ \/ tab = "connection" /\ c \in shown.rows /\ Idle("touch", c)
       \/ tab = "status" /\ c = selected /\ \A on \in Connections : Idle("touch", on)
    /\ Press("touch", c)

-----------------------------------------------------------------------------
(* The answers.                                                            *)

\* A bug the runs must catch: whatever was selected before.
SelectsOnlyAlways(q) == q.tab = "connection" /\ Cardinality(q.rows) = 1

\* A list of one connection selects it, if none was selected.
SelectsOnly(q) ==
    /\ q.tab = "connection"
    /\ Cardinality(q.rows) = 1
    /\ q.render[1] = None

AnswerReload(q) ==
    LET kept == requests \ {q}
        late == q.mounted /\ q.n < answered
    IN  /\ q.kind = "reload"
        /\ q.served
        /\ IF q.mounted
           THEN /\ shown' = [ of |-> q.render, rows |-> q.rows ]
                /\ answered' = q.n
           ELSE UNCHANGED << shown, answered >>
        /\ selected' = IF SelectsOnly(q) THEN CHOOSE c \in q.rows : TRUE ELSE selected
        /\ UNCHANGED << server, tab, filter, gestures, choice >>
        /\ IF selected' # selected THEN Effect(kept, issued + 1, disturbed \/ late)
           ELSE /\ requests' = kept
                /\ loading' = (loading /\ ~q.mounted)
                /\ disturbed' = (disturbed \/ late)
                /\ UNCHANGED issued

\* onCreated: the new connection is selected, and the list asked for by the
\* reload of before and by that of the new selection.
AnswerCreate(q) ==
    /\ q.kind = "create"
    /\ q.served
    /\ selected' = CHOOSE c \in q.rows : TRUE
    /\ choice' = issued
    /\ UNCHANGED << server, tab, filter, shown, answered, gestures >>
    /\ Effect((requests \ {q}) \cup { Reloads(issued + 1, q) }, issued + 2, disturbed)

\* onAfterAction, await reload().
AnswerAct(q) ==
    /\ q.kind \in { "delete", "touch" }
    /\ q.served
    /\ requests' = (requests \ {q}) \cup { Reloads(issued + 1, q) }
    /\ issued' = issued + 1
    /\ loading' = (loading \/ q.mounted)
    /\ disturbed' = (disturbed \/ (q.mounted /\ q.tab = "status" /\ q.render # Now))
    /\ UNCHANGED << server, view, shown, answered, gestures, choice >>

\* A refusal, or no answer at all: the panel keeps what it shows.
Fail(q) ==
    /\ requests' = requests \ {q}
    /\ loading' = (loading /\ ~(q.mounted /\ q.kind = "reload"))
    /\ disturbed' = (disturbed \/ (q.mounted /\ (q.kind = "reload" \/ q.served)))
    /\ UNCHANGED << server, view, shown, answered, issued, gestures, choice >>

Next ==
    \/ \E t \in Tabs : OpenTab(t)
    \/ \E c \in Connections : Select(c)
    \/ \E c \in Connections : Delete(c)
    \/ \E c \in Connections : Touch(c)
    \/ \E status \in Statuses \cup {None} : SetFilter(status)
    \/ Refresh
    \/ Create
    \/ \E q \in requests : ServeReload(q)
    \/ \E q \in requests : ServeCreate(q)
    \/ \E q \in requests : ServeDelete(q)
    \/ \E q \in requests : ServeTouch(q)
    \/ \E q \in requests : AnswerReload(q)
    \/ \E q \in requests : AnswerCreate(q)
    \/ \E q \in requests : AnswerAct(q)
    \/ \E q \in requests : Fail(q)

Spec == Init /\ [][Next]_vars

-----------------------------------------------------------------------------
(* Properties.                                                             *)

\* The type invariant.
TypeOK ==
    /\ live \subseteq ever /\ ever \subseteq Connections
    /\ tab \in Tabs
    /\ selected \in Connections \cup {None}
    /\ filter \in Statuses \cup {None} /\ (filter # None => tab = "audit")
    /\ shown \in [ of : Renders, rows : SUBSET Rows ]
    /\ requests \subseteq Requests
    /\ \A q \in requests :
          /\ q.n \in 1 .. issued /\ q.since \in 1 .. q.n
          /\ q.mounted => q.tab = tab
    /\ issued \in Nat
    /\ gestures \in 0 .. MaxGestures
    /\ choice \in 0 .. issued \cup {None} /\ answered \in 0 .. issued
    /\ << loading, disturbed >> \in BOOLEAN \X BOOLEAN

\* The audit panel lacks a row of its connection and status only behind Limit
\* newer ones of that status, of whichever connection.
AuditShown ==
    \A i \in 1 .. Len(AuditLog) :
        LET Fits(j) == filter = None \/ AuditLog[j].status = filter
        IN  IF i \in shown.rows THEN AuditLog[i].on = selected /\ Fits(i)
            ELSE AuditLog[i].on = selected /\ Fits(i) =>
                   \E newer \in SUBSET (i + 1 .. Len(AuditLog)) :
                      Cardinality(newer) = Limit /\ \A j \in newer : Fits(j)

\* A panel that waits for nothing shows what is selected and filtered now, the
\* connection panel what the server has, however tabs, selection and filter
\* were changed meanwhile; unless an answer failed or was overtaken by a later
\* one, or was asked for by an action of before.
SettledIsCurrent ==
    Mine(requests) = {} /\ ~disturbed =>
        IF tab = "connection" THEN shown.rows = live
        ELSE selected # None =>
               /\ shown.of = << selected, filter >>
               /\ tab = "audit" => AuditShown

\* An answer takes a connection the user chose out of the selection only if
\* what asked for it was begun before that choice.
ChoiceStands ==
    [][ choice # None /\ gestures' = gestures /\ choice' = choice /\ selected' # selected
          => \E q \in requests \ requests' : q.since <= choice ]_vars

=============================================================================
