---------------------------- MODULE PanelsProofs ----------------------------
(***************************************************************************)
(* What the panels show and what is selected, for any connections, any     *)
(* audit log and any order of gestures and answers.                        *)
(***************************************************************************)
EXTENDS Panels, FiniteSetTheorems, TLAPS

-----------------------------------------------------------------------------
(* The inductive invariant.                                                *)

Pending == { q \in requests : q.mounted /\ q.kind = "reload" }

\* What a panel's requests carry: only the connection panel creates and
\* deletes, only it and the status panel test; answers fit what was asked.
Carries(q) ==
    /\ q.kind \in { "create", "delete" } => q.tab = "connection"
    /\ q.kind = "touch" => q.tab \in { "connection", "status" }
    /\ q.tab = "connection" => q.rows \subseteq Connections
    /\ q.kind = "create" /\ q.served => \E c \in Connections : q.rows = {c}
    /\ q.kind = "reload" /\ q.served /\ q.tab = "audit" =>
          q.rows = AuditListing(q.render[1], q.render[2])

\* What the open panel shows fits what it is of.
ShownFits ==
    /\ tab = "connection" => shown.rows \subseteq Connections
    /\ tab = "audit" /\ shown.of[1] # None =>
          shown.rows = AuditListing(shown.of[1], shown.of[2])

\* Who chose a connection has one; and what asked for the list before there was
\* a selection was begun before that choice.
ChoiceInv ==
    choice # None =>
        /\ selected # None
        /\ \A q \in requests :
              q.tab = "connection" /\ q.render[1] = None => q.since <= choice

\* What would be current if it were shown.
FreshRows(q) ==
    IF tab = "connection" THEN ~q.served \/ q.rows = live ELSE q.render = Now
FreshShown ==
    IF tab = "connection" THEN shown.rows = live ELSE shown.of = Now

\* The latest of the reloads the open panel waits for, unless it shows a later one.
Latest(x) == x.n > answered /\ \A y \in Pending : y = x \/ y.n < x.n
LatestShown == \A y \in Pending : y.n < answered

\* The latest is current, or there will be a later one: what has been created or
\* deleted is followed by a reload.
Owed == \E q \in Mine(requests) : q.kind \in { "create", "delete" } /\ q.served
LatestIsFresh ==
    (tab = "connection" \/ selected # None) /\ ~disturbed =>
        \/ Owed
        \/ \E x \in Pending : Latest(x) /\ FreshRows(x)
        \/ LatestShown /\ FreshShown

IInv ==
    /\ TypeOK
    /\ \A q \in requests : Carries(q)
    /\ ShownFits /\ ChoiceInv /\ LatestIsFresh

-----------------------------------------------------------------------------
(* What the operators return.                                              *)

\* r is a request that reload() of panel t has just made.
IsReload(r, n, t, render) ==
    /\ r \in Requests
    /\ r.n = n /\ r.since = n /\ r.tab = t /\ r.kind = "reload" /\ r.render = render
    /\ r.mounted = TRUE /\ r.served = FALSE /\ r.rows = {}

\* A render is one of Renders, and Now and Render give back what they are of.
LEMMA RenderIs ==
    ASSUME NEW on \in Connections \cup {None}, NEW status \in Statuses \cup {None}
    PROVE  /\ Render(on, status) \in Renders
           /\ Render(on, status)[1] = on
           /\ Render(on, status)[2] = status
  BY DEF Render, Renders

\* reload() makes at most one request, and one where the panel has what it needs.
LEMMA ReloadIs ==
    ASSUME NEW n \in Nat, NEW t \in Tabs, NEW render \in Renders
    PROVE  \/ /\ Reload(n, t, render) = {}
              /\ Cardinality(Reload(n, t, render)) = 0
              /\ t # "connection" /\ render[1] = None
           \/ /\ t = "connection" \/ render[1] # None
              /\ Cardinality(Reload(n, t, render)) = 1
              /\ \E r : Reload(n, t, render) = {r} /\ IsReload(r, n, t, render)
  <1>1. CASE t = "connection" \/ render[1] # None
    <2> DEFINE r == Request(n, t, "reload", None, None, render)
    <2>1. Reload(n, t, render) = {r}
      BY <1>1 DEF Reload
    <2>2. IsReload(r, n, t, render)
      <3>1. "reload" \in Kinds /\ None \in Kinds \cup {None} /\ None \in Connections \cup {None}
        BY DEF Kinds
      <3>2. r = Request(n, t, "reload", None, None, render)
        OBVIOUS
      <3> HIDE DEF r
      <3>3. /\ r \in Requests
            /\ r.n = n /\ r.since = n /\ r.tab = t /\ r.kind = "reload" /\ r.render = render
            /\ r.mounted = TRUE /\ r.served = FALSE /\ r.rows = {}
        BY <3>1, <3>2 DEF Request, Requests
      <3> QED BY <3>3 DEF IsReload
    <2>3. Cardinality({r}) = 1
      BY FS_Singleton
    <2> HIDE DEF r
    <2> QED BY <1>1, <2>1, <2>2, <2>3
  <1>2. CASE ~(t = "connection" \/ render[1] # None)
    BY <1>2, FS_EmptySet DEF Reload
  <1> QED BY <1>1, <1>2

\* What the server's answer changes of a request.
LEMMA ServedIs ==
    ASSUME NEW q \in Requests, NEW rows \in SUBSET Rows,
           NEW p, p = [ q EXCEPT !.served = TRUE, !.rows = rows ]
    PROVE  /\ p \in Requests
           /\ p.n = q.n /\ p.since = q.since /\ p.tab = q.tab /\ p.kind = q.kind
           /\ p.render = q.render /\ p.mounted = q.mounted
           /\ p.served = TRUE /\ p.rows = rows
  BY DEF Requests

\* p is the reload, the n-th request, that the handler of q ends with.
IsReloads(p, q, n) ==
    /\ p \in Requests
    /\ p.n = n /\ p.since = q.since /\ p.tab = q.tab /\ p.kind = "reload"
    /\ p.render = q.render /\ p.mounted = q.mounted
    /\ p.served = FALSE /\ p.rows = {}

\* The reload() at the end of a handler keeps what the handler's request carries.
LEMMA ReloadsIs ==
    ASSUME NEW q \in Requests, NEW n \in Nat
    PROVE  IsReloads(Reloads(n, q), q, n)
  BY DEF Requests, Reloads, Kinds, IsReloads

\* What is left of a request when its panel is gone.
LEMMA LeftIs ==
    ASSUME NEW q \in Requests, NEW p, p = [ q EXCEPT !.mounted = FALSE ]
    PROVE  /\ p \in Requests
           /\ p.n = q.n /\ p.since = q.since /\ p.tab = q.tab /\ p.kind = q.kind
           /\ p.render = q.render /\ p.mounted = FALSE
           /\ p.served = q.served /\ p.rows = q.rows
  BY DEF Requests

\* The rows of an audit listing are rows of the log.
LEMMA AuditListingIs ==
    ASSUME NEW c, NEW status
    PROVE  AuditListing(c, status) \subseteq Rows
  BY DEF AuditListing, Rows

\* A finite set has subsets of every smaller size.
LEMMA SubsetOfSize ==
    ASSUME NEW S, IsFiniteSet(S), NEW k \in Nat, k <= Cardinality(S)
    PROVE  \E T \in SUBSET S : Cardinality(T) = k
  <1> DEFINE n == Cardinality(S)
  <1>1. n \in Nat
    BY FS_CardinalityType
  <1>2. PICK f : f \in Bijection(1..n, S)
    BY FS_CardinalityType DEF ExistsBijection
  <1> HIDE DEF n
  <1> DEFINE T == { f[i] : i \in 1..k }
             g == [ i \in 1..k |-> f[i] ]
  <1>3. k <= n
    BY DEF n
  <1>4. /\ \A i \in 1..n : f[i] \in S
        /\ \A i, j \in 1..n : f[i] = f[j] => i = j
    BY <1>2 DEF Bijection, Injection, Surjection, IsInjective
  <1>5. \A i \in 1..k : i \in 1..n
    BY <1>1, <1>3
  <1>6. T \subseteq S
    BY <1>4, <1>5
  <1>7. g \in Bijection(1..k, T)
    <2>1. g \in [1..k -> T]
      OBVIOUS
    <2>2. \A i, j \in 1..k : g[i] = g[j] => i = j
      BY <1>4, <1>5
    <2>3. \A t \in T : \E i \in 1..k : g[i] = t
      OBVIOUS
    <2> QED BY <2>1, <2>2, <2>3 DEF Bijection, Injection, Surjection, IsInjective
  <1>8. /\ IsFiniteSet(1..k) /\ Cardinality(1..k) = k
    <2>1. Cardinality(1..k) = IF 1 > k THEN 0 ELSE k - 1 + 1
      BY FS_Interval
    <2> QED BY <2>1, FS_Interval
  <1>9. Cardinality(T) = k
    BY <1>7, <1>8, FS_Bijection DEF ExistsBijection
  <1> QED BY <1>6, <1>9

-----------------------------------------------------------------------------
(* What stays current.                                                     *)

\* A reload made after every other request is the latest.
LEMMA AsksLast ==
    ASSUME NEW r, r \in requests', r.mounted = TRUE, r.kind = "reload",
           answered' < r.n, \A y \in requests' : y = r \/ y.n < r.n,
           FreshRows(r)'
    PROVE  LatestIsFresh'
  BY DEF LatestIsFresh, Latest, Pending

\* What leaves the panel, its selection, its reloads and what is owed alone
\* leaves it as current as it was.
LEMMA SamePending ==
    ASSUME LatestIsFresh, UNCHANGED << live, tab, selected, filter, shown, answered >>,
           Pending' = Pending, disturbed' = FALSE => disturbed = FALSE, Owed => Owed',
           disturbed \in BOOLEAN, disturbed' \in BOOLEAN
    PROVE  LatestIsFresh'
  BY DEF LatestIsFresh, Latest, LatestShown, FreshRows, FreshShown, Now, Render

\* The initial states satisfy the invariant.
LEMMA InitIInv ==
    ASSUME Init
    PROVE  IInv
  <1> DEFINE render == Render(selected, None)
  <1>1. selected \in Connections \cup {None} /\ tab \in Tabs /\ render \in Renders
    <2>1. selected \in Connections \cup {None} /\ tab \in Tabs
      BY DEF Init
    <2> QED BY <2>1, RenderIs
  <1>2. requests = Reload(1, tab, render) /\ issued = Cardinality(requests)
    BY DEF Init
  <1>3. render[1] = selected /\ Now = render
    BY <1>1, RenderIs DEF Init, Now
  <1> HIDE DEF render
  <1>r. \/ requests = {} /\ issued = 0 /\ tab # "connection" /\ render[1] = None
        \/ issued = 1 /\ \E r : requests = {r} /\ IsReload(r, 1, tab, render)
    <2>1. 1 \in Nat
      OBVIOUS
    <2>2. \/ /\ Reload(1, tab, render) = {}
             /\ Cardinality(Reload(1, tab, render)) = 0
             /\ tab # "connection" /\ render[1] = None
          \/ /\ Cardinality(Reload(1, tab, render)) = 1
             /\ \E r : Reload(1, tab, render) = {r} /\ IsReload(r, 1, tab, render)
      BY ONLY <1>1, <2>1, ReloadIs
    <2> QED BY <1>2, <2>2
  <1>4. TypeOK
    <2>1. /\ requests \subseteq Requests /\ issued \in Nat
          /\ \A q \in requests : q.n = 1 /\ q.since = 1 /\ issued = 1 /\ q.tab = tab
      BY <1>r DEF IsReload
    <2>2. shown \in [ of : Renders, rows : SUBSET Rows ]
      <3>1. Render(None, None) \in Renders
        BY RenderIs
      <3> QED BY <3>1 DEF Init, Blank
    <2>3. /\ live \subseteq ever /\ ever \subseteq Connections
          /\ filter \in Statuses \cup {None} /\ filter = None
          /\ gestures \in 0 .. MaxGestures
          /\ choice \in 0 .. issued \cup {None} /\ answered \in 0 .. issued
      BY <2>1, PanelConstants DEF Init
    <2>4. << loading, disturbed >> \in BOOLEAN \X BOOLEAN
      BY DEF Init
    <2>5. \A q \in requests :
             /\ q.n \in 1 .. issued /\ q.since \in 1 .. q.n
             /\ q.mounted => q.tab = tab
      BY <2>1
    <2> QED BY <1>1, <2>1, <2>2, <2>3, <2>4, <2>5 DEF TypeOK
  <1>5. \A q \in requests : Carries(q)
    BY <1>r DEF IsReload, Carries
  <1>6. ShownFits
    BY RenderIs DEF Init, ShownFits, Blank
  <1>7. ChoiceInv
    BY DEF Init, ChoiceInv
  <1>8. LatestIsFresh
    <2> SUFFICES ASSUME tab = "connection" \/ selected # None
                 PROVE  LatestIsFresh
      BY DEF LatestIsFresh
    <2>1. PICK r : requests = {r} /\ IsReload(r, 1, tab, render)
      BY <1>3, <1>r
    <2>2. r \in Pending /\ \A y \in Pending : y = r
      BY <2>1 DEF Pending, IsReload
    <2>3. Latest(r)
      BY <2>1, <2>2 DEF Init, Latest, IsReload
    <2>4. FreshRows(r)
      BY <1>3, <2>1 DEF FreshRows, IsReload
    <2> QED BY <2>2, <2>3, <2>4 DEF LatestIsFresh
  <1> QED BY <1>4, <1>5, <1>6, <1>7, <1>8 DEF IInv

\* Another tab is opened: its panel has nothing but its own first reload.
LEMMA OpenTabKeeps ==
    ASSUME IInv, NEW t \in Tabs, OpenTab(t)
    PROVE  IInv'
  <1> DEFINE render == Render(selected, None)
             left == { [ q EXCEPT !.mounted = FALSE ] :
                         q \in { p \in requests : p.tab = "connection" } }
             new == Reload(issued + 1, t, render)
  <1>1. TypeOK /\ (\A q \in requests : Carries(q)) /\ ChoiceInv
    BY DEF IInv
  <1>2. /\ requests' = left \cup new /\ issued' = issued + Cardinality(new)
        /\ tab' = t /\ filter' = None /\ shown' = Blank /\ answered' = 0
        /\ loading' = (new # {}) /\ disturbed' = FALSE /\ gestures' = gestures + 1
        /\ gestures < MaxGestures
        /\ live' = live /\ ever' = ever /\ selected' = selected /\ choice' = choice
    BY DEF OpenTab, Gesture, server
  <1>3. render \in Renders /\ render[1] = selected /\ Now' = render
    BY <1>1, <1>2, RenderIs DEF TypeOK, Now
  <1>4. issued \in Nat /\ issued + 1 \in Nat
    BY <1>1 DEF TypeOK
  <1>5. \A p \in left : \E q \in requests :
           /\ q.tab = "connection"
           /\ p \in Requests
           /\ p.n = q.n /\ p.since = q.since /\ p.tab = q.tab /\ p.kind = q.kind
           /\ p.render = q.render /\ p.mounted = FALSE
           /\ p.served = q.served /\ p.rows = q.rows
    <2> SUFFICES ASSUME NEW p \in left
                 PROVE  \E q \in requests :
                           /\ q.tab = "connection"
                           /\ p \in Requests
                           /\ p.n = q.n /\ p.since = q.since /\ p.tab = q.tab
                           /\ p.kind = q.kind /\ p.render = q.render /\ p.mounted = FALSE
                           /\ p.served = q.served /\ p.rows = q.rows
      OBVIOUS
    <2>1. PICK q \in requests : q.tab = "connection" /\ p = [ q EXCEPT !.mounted = FALSE ]
      BY Zenon
    <2>2. q \in Requests
      BY <1>1 DEF TypeOK
    <2> QED BY ONLY <2>1, <2>2, LeftIs, ZenonT(60)
  <1>6. \/ new = {} /\ Cardinality(new) = 0 /\ t # "connection" /\ render[1] = None
        \/ /\ Cardinality(new) = 1
           /\ \E r : new = {r} /\ IsReload(r, issued + 1, t, render)
    BY <1>3, <1>4, ReloadIs
  <1> HIDE DEF render, left, new
  <1>7. TypeOK'
    <2>1. requests' \subseteq Requests
      BY <1>2, <1>5, <1>6 DEF IsReload
    <2>2. issued' \in Nat /\ issued <= issued' /\ (new # {} => issued' = issued + 1)
      BY <1>2, <1>4, <1>6
    <2>3. \A q \in requests' :
             /\ q.n \in 1 .. issued' /\ q.since \in 1 .. q.n
             /\ q.mounted => q.tab = tab'
      <3> SUFFICES ASSUME NEW q \in requests'
                   PROVE  /\ q.n \in 1 .. issued' /\ q.since \in 1 .. q.n
                          /\ q.mounted => q.tab = tab'
        OBVIOUS
      <3>1. CASE q \in left
        <4>1. PICK p \in requests : q.n = p.n /\ q.since = p.since /\ q.mounted = FALSE
          BY <3>1, <1>5
        <4>2. p.n \in 1 .. issued /\ p.since \in 1 .. p.n
          BY <1>1 DEF TypeOK
        <4> QED BY <4>1, <4>2, <2>2, <1>4
      <3>2. CASE q \in new
        BY <3>2, <1>2, <1>4, <1>6, <2>2 DEF IsReload
      <3> QED BY <3>1, <3>2, <1>2
    <2>4. shown' \in [ of : Renders, rows : SUBSET Rows ]
      BY <1>2, RenderIs DEF Blank
    <2>5. /\ gestures' \in 0 .. MaxGestures
          /\ choice' \in 0 .. issued' \cup {None} /\ answered' \in 0 .. issued'
      <3>1. gestures \in 0 .. MaxGestures /\ choice \in 0 .. issued \cup {None}
        BY <1>1 DEF TypeOK
      <3> QED BY <3>1, <1>2, <1>4, <2>2, PanelConstants
    <2>6. << loading, disturbed >>' \in BOOLEAN \X BOOLEAN
      BY <1>2
    <2> QED BY <1>1, <1>2, <2>1, <2>2, <2>3, <2>4, <2>5, <2>6 DEF TypeOK
  <1>8. \A q \in requests' : Carries(q)
    <2> SUFFICES ASSUME NEW q \in requests'
                 PROVE  Carries(q)
      OBVIOUS
    <2>1. CASE q \in left
      BY <2>1, <1>1, <1>5 DEF Carries
    <2>2. CASE q \in new
      BY <2>2, <1>6 DEF Carries, IsReload
    <2> QED BY <2>1, <2>2, <1>2
  <1>9. ShownFits'
    BY <1>2, RenderIs DEF ShownFits, Blank
  <1>10. ChoiceInv'
    BY <1>1, <1>2, <1>3, <1>5, <1>6 DEF ChoiceInv, IsReload
  <1>11. LatestIsFresh'
    <2> SUFFICES ASSUME t = "connection" \/ selected # None
                 PROVE  LatestIsFresh'
      BY <1>2 DEF LatestIsFresh
    <2>1. PICK r : new = {r} /\ IsReload(r, issued + 1, t, render)
      BY <1>3, <1>6
    <2>2. Pending' = {r}
      BY <2>1, <1>2, <1>5 DEF Pending, IsReload
    <2>3. Latest(r)'
      BY <2>1, <2>2, <1>2, <1>4 DEF Latest, IsReload
    <2>4. FreshRows(r)'
      BY <2>1, <1>2, <1>3 DEF FreshRows, IsReload
    <2> QED BY <2>2, <2>3, <2>4 DEF LatestIsFresh
  <1> QED BY <1>7, <1>8, <1>9, <1>10, <1>11 DEF IInv

-----------------------------------------------------------------------------
(* The gestures.                                                           *)

\* Requests that are added keep the requests typed.
LEMMA MoreRequests ==
    ASSUME TypeOK, NEW new, tab' = tab, issued' \in Nat, issued <= issued',
           \A q \in requests' : q \in requests \/ q \in new,
           \A q \in new : /\ q \in Requests
                          /\ q.n \in 1 .. issued' /\ q.since \in 1 .. q.n
                          /\ q.mounted => q.tab = tab
    PROVE  /\ requests' \subseteq Requests
           /\ 0 .. issued \subseteq 0 .. issued'
           /\ \A q \in requests' :
                 /\ q.n \in 1 .. issued' /\ q.since \in 1 .. q.n
                 /\ q.mounted => q.tab = tab'
  <1>1. /\ issued \in Nat /\ requests \subseteq Requests
        /\ \A q \in requests :
              /\ q.n \in 1 .. issued /\ q.since \in 1 .. q.n
              /\ q.mounted => q.tab = tab
    BY DEF TypeOK
  <1>2. \A k \in 1 .. issued : k \in 1 .. issued'
    BY <1>1
  <1>3. \A q \in requests' : q \in Requests
    BY <1>1
  <1>4. 0 .. issued \subseteq 0 .. issued'
    BY <1>1
  <1>5. \A q \in requests' :
           /\ q.n \in 1 .. issued' /\ q.since \in 1 .. q.n
           /\ q.mounted => q.tab = tab'
    BY <1>1, <1>2
  <1> QED BY <1>3, <1>4, <1>5

\* The reload of a new selection or filter is the latest and asks for what is
\* selected and filtered now.
LEMMA EffectAsks ==
    ASSUME NEW kept, NEW n \in Nat, n # 0, tab \in Tabs, tab' = tab, answered' < n,
           selected' \in Connections \cup {None}, filter' \in Statuses \cup {None},
           tab = "connection" \/ selected' # None,
           \A q \in kept : q.n < n,
           requests' = kept \cup Reload(n, tab, Render(selected', filter'))
    PROVE  /\ LatestIsFresh'
           /\ \E r : /\ requests' = kept \cup {r} /\ r \in Requests
                     /\ r.n = n /\ r.since \in 1 .. r.n /\ r.tab = tab
                     /\ r.render[1] = selected' /\ Carries(r)
  <1> DEFINE render == Render(selected', filter')
  <1>1. render \in Renders /\ render[1] = selected' /\ render = Now'
    BY RenderIs DEF Now
  <1>2. requests' = kept \cup Reload(n, tab, render)
    OBVIOUS
  <1> HIDE DEF render
  <1>3. PICK r : requests' = kept \cup {r} /\ IsReload(r, n, tab, render)
    BY <1>1, <1>2, ReloadIs
  <1>4. FreshRows(r)'
    BY <1>1, <1>3 DEF FreshRows, IsReload
  <1>5. LatestIsFresh'
    <2>1. /\ r \in requests' /\ r.mounted = TRUE /\ r.kind = "reload" /\ answered' < r.n
          /\ \A y \in requests' : y = r \/ y.n < r.n
      BY <1>3 DEF IsReload
    <2> QED BY <2>1, <1>4, AsksLast
  <1>6. Carries(r) /\ r.since \in 1 .. r.n
    BY <1>3 DEF Carries, IsReload
  <1> QED BY <1>1, <1>3, <1>5, <1>6 DEF IsReload

\* A click on a row selects a connection and asks for the list again.
LEMMA SelectKeeps ==
    ASSUME IInv, NEW c \in Connections, Select(c)
    PROVE  IInv'
  <1>1. TypeOK /\ (\A q \in requests : Carries(q)) /\ ShownFits /\ ChoiceInv /\ LatestIsFresh
    BY DEF IInv
  <1>2. /\ tab = "connection" /\ gestures < MaxGestures /\ gestures' = gestures + 1
        /\ selected' = c /\ choice' = issued
        /\ UNCHANGED << live, ever, tab, filter, shown, answered >>
    BY DEF Select, Gesture, server
  <1>3. /\ issued \in Nat /\ c # None /\ answered \in 0 .. issued
        /\ \A q \in requests : q.n \in 1 .. issued /\ q.since \in 1 .. q.n
    BY <1>1, PanelConstants DEF TypeOK
  <1>4. /\ gestures' \in 0 .. MaxGestures
        /\ filter' \in Statuses \cup {None} /\ (filter' # None => tab' = "audit")
        /\ selected' \in Connections \cup {None}
        /\ live' \subseteq ever' /\ ever' \subseteq Connections
        /\ tab' \in Tabs /\ shown' \in [ of : Renders, rows : SUBSET Rows ]
    BY <1>1, <1>2, PanelConstants DEF TypeOK
  <1>5. ShownFits'
    BY <1>1, <1>2 DEF ShownFits
  <1>6. CASE c = selected
    <2>1. UNCHANGED << requests, issued, loading, disturbed >>
      BY <1>6 DEF Select, asked
    <2>2. TypeOK'
      BY <1>1, <1>2, <1>3, <1>4, <2>1 DEF TypeOK
    <2>3. ChoiceInv'
      BY <1>2, <1>3, <2>1 DEF ChoiceInv
    <2>4. LatestIsFresh'
      BY <1>1, <1>2, <1>6, <2>1, SamePending DEF Pending, Owed, Mine, TypeOK
    <2> QED BY <1>1, <1>5, <2>1, <2>2, <2>3, <2>4 DEF IInv
  <1>7. CASE c # selected
    <2>1. Effect(requests, issued + 1, disturbed)
      BY <1>7 DEF Select
    <2>2. /\ requests' = requests \cup Reload(issued + 1, tab, Render(selected', filter'))
          /\ issued' = issued + 1 /\ loading' = TRUE /\ disturbed' \in BOOLEAN
      BY <2>1 DEF Effect
    <2>3. \A q \in requests : q.n < issued + 1
      BY <1>3
    <2>4. /\ LatestIsFresh'
          /\ \E r : /\ requests' = requests \cup {r} /\ r \in Requests
                    /\ r.n = issued + 1 /\ r.since \in 1 .. r.n /\ r.tab = tab
                    /\ r.render[1] = selected' /\ Carries(r)
      BY <1>2, <1>3, <1>4, <2>2, <2>3, EffectAsks
    <2>5. PICK r : /\ requests' = requests \cup {r} /\ r \in Requests
                   /\ r.n = issued + 1 /\ r.since \in 1 .. r.n /\ r.tab = tab
                   /\ r.render[1] = selected' /\ Carries(r)
      BY <2>4
    <2>6. /\ requests' \subseteq Requests /\ 0 .. issued \subseteq 0 .. issued'
          /\ \A q \in requests' :
                /\ q.n \in 1 .. issued' /\ q.since \in 1 .. q.n
                /\ q.mounted => q.tab = tab'
      <3> DEFINE new == {r}
      <3>1. /\ \A q \in requests' : q \in requests \/ q \in new
            /\ \A q \in new : /\ q \in Requests
                              /\ q.n \in 1 .. issued' /\ q.since \in 1 .. q.n
                              /\ q.mounted => q.tab = tab
        BY <1>3, <2>2, <2>5
      <3> HIDE DEF new
      <3> QED BY <1>1, <1>2, <1>3, <2>2, <3>1, MoreRequests
    <2>7. TypeOK'
      <3>1. issued' \in Nat /\ choice' \in 0 .. issued' \cup {None} /\ answered' \in 0 .. issued'
        BY <1>2, <1>3, <2>2, <2>6
      <3>2. << loading, disturbed >>' \in BOOLEAN \X BOOLEAN
        BY <2>2
      <3> QED BY <1>4, <2>6, <3>1, <3>2 DEF TypeOK
    <2>8. ChoiceInv'
      BY <1>2, <1>3, <2>5 DEF ChoiceInv
    <2>9. \A q \in requests' : Carries(q)
      BY <1>1, <2>5
    <2> QED BY <1>5, <2>4, <2>7, <2>8, <2>9 DEF IInv
  <1> QED BY <1>6, <1>7

\* The audit panel asks again, for another status or the same one.
LEMMA AuditEffectKeeps ==
    ASSUME IInv, tab = "audit", selected # None, filter' \in Statuses \cup {None},
           gestures < MaxGestures, gestures' = gestures + 1,
           UNCHANGED << live, ever, tab, selected, shown, answered, choice >>,
           Effect(requests, issued + 1, disturbed)
    PROVE  IInv'
  <1>1. TypeOK /\ (\A q \in requests : Carries(q)) /\ ShownFits /\ ChoiceInv /\ LatestIsFresh
    BY DEF IInv
  <1>2. /\ issued \in Nat /\ answered \in 0 .. issued /\ choice \in 0 .. issued \cup {None}
        /\ selected \in Connections \cup {None}
        /\ \A q \in requests : q.n \in 1 .. issued /\ q.since \in 1 .. q.n
    BY <1>1 DEF TypeOK
  <1>3. /\ requests' = requests \cup Reload(issued + 1, tab, Render(selected', filter'))
        /\ issued' = issued + 1 /\ loading' = TRUE /\ disturbed' \in BOOLEAN
    BY DEF Effect
  <1>4. /\ LatestIsFresh'
        /\ \E r : /\ requests' = requests \cup {r} /\ r \in Requests
                  /\ r.n = issued + 1 /\ r.since \in 1 .. r.n /\ r.tab = tab
                  /\ r.render[1] = selected' /\ Carries(r)
    <2>1. \A q \in requests : q.n < issued + 1
      BY <1>2
    <2>2. selected' \in Connections \cup {None} /\ tab \in Tabs /\ answered' < issued + 1
      BY <1>2 DEF Tabs
    <2> QED BY <1>2, <1>3, <2>1, <2>2, EffectAsks
  <1>5. PICK r : /\ requests' = requests \cup {r} /\ r \in Requests
                 /\ r.n = issued + 1 /\ r.since \in 1 .. r.n /\ r.tab = tab
                 /\ r.render[1] = selected' /\ Carries(r)
    BY <1>4
  <1>6. /\ requests' \subseteq Requests /\ 0 .. issued \subseteq 0 .. issued'
        /\ \A q \in requests' :
              /\ q.n \in 1 .. issued' /\ q.since \in 1 .. q.n
              /\ q.mounted => q.tab = tab'
    <2> DEFINE new == {r}
    <2>1. /\ \A q \in requests' : q \in requests \/ q \in new
          /\ \A q \in new : /\ q \in Requests
                            /\ q.n \in 1 .. issued' /\ q.since \in 1 .. q.n
                            /\ q.mounted => q.tab = tab
      BY <1>2, <1>3, <1>5
    <2> HIDE DEF new
    <2> QED BY <1>1, <1>2, <1>3, <2>1, MoreRequests
  <1>7. TypeOK'
    <2>1. /\ issued' \in Nat /\ choice' \in 0 .. issued' \cup {None}
          /\ answered' \in 0 .. issued' /\ gestures' \in 0 .. MaxGestures
      BY <1>1, <1>2, <1>3, <1>6, PanelConstants DEF TypeOK
    <2>2. << loading, disturbed >>' \in BOOLEAN \X BOOLEAN
      BY <1>3
    <2>3. /\ live' \subseteq ever' /\ ever' \subseteq Connections
          /\ tab' \in Tabs /\ selected' \in Connections \cup {None}
          /\ filter' \in Statuses \cup {None} /\ (filter' # None => tab' = "audit")
          /\ shown' \in [ of : Renders, rows : SUBSET Rows ]
      BY <1>1 DEF TypeOK
    <2> QED BY <1>6, <2>1, <2>2, <2>3 DEF TypeOK
  <1>8. \A q \in requests' : Carries(q)
    BY <1>1, <1>5
  <1>9. ShownFits'
    BY <1>1 DEF ShownFits
  <1>10. ChoiceInv'
    BY <1>1, <1>5 DEF ChoiceInv
  <1> QED BY <1>4, <1>7, <1>8, <1>9, <1>10 DEF IInv

\* The status filter of the audit panel.
LEMMA SetFilterKeeps ==
    ASSUME IInv, NEW status \in Statuses \cup {None}, SetFilter(status)
    PROVE  IInv'
  BY AuditEffectKeeps DEF SetFilter, Gesture, server

\* The refresh button of the audit panel.
LEMMA RefreshKeeps ==
    ASSUME IInv, Refresh
    PROVE  IInv'
  <1>1. filter \in Statuses \cup {None}
    BY DEF IInv, TypeOK
  <1> QED BY <1>1, AuditEffectKeeps DEF Refresh, Gesture, server, view

\* A button's request is no reload and is owed nothing before it is served.
LEMMA PressKeeps ==
    ASSUME IInv, NEW kind \in { "create", "delete", "touch" },
           NEW on \in Connections \cup {None}, Press(kind, on),
           kind \in { "create", "delete" } => tab = "connection",
           kind = "touch" => tab \in { "connection", "status" }
    PROVE  IInv'
  <1> DEFINE r == Request(issued + 1, tab, kind, kind, on, Now)
  <1>1. TypeOK /\ (\A q \in requests : Carries(q)) /\ ShownFits /\ ChoiceInv /\ LatestIsFresh
    BY DEF IInv
  <1>2. /\ requests' = requests \cup {r} /\ issued' = issued + 1
        /\ gestures < MaxGestures /\ gestures' = gestures + 1
        /\ UNCHANGED << live, ever, tab, selected, filter, shown, loading, answered, disturbed, choice >>
    BY DEF Press, Gesture, server, view, panel
  <1>3. /\ issued \in Nat /\ issued + 1 \in Nat /\ tab \in Tabs
        /\ Now \in Renders /\ Now[1] = selected
    BY <1>1, RenderIs DEF TypeOK, Now
  <1>4. /\ r \in Requests
        /\ r.n = issued + 1 /\ r.since = issued + 1 /\ r.tab = tab /\ r.kind = kind
        /\ r.render = Now
        /\ r.mounted = TRUE /\ r.served = FALSE /\ r.rows = {}
    BY <1>3 DEF Request, Requests, Kinds
  <1> HIDE DEF r
  <1>5. /\ requests' \subseteq Requests /\ 0 .. issued \subseteq 0 .. issued'
        /\ \A q \in requests' :
              /\ q.n \in 1 .. issued' /\ q.since \in 1 .. q.n
              /\ q.mounted => q.tab = tab'
    <2> DEFINE new == {r}
    <2>1. /\ \A q \in requests' : q \in requests \/ q \in new
          /\ \A q \in new : /\ q \in Requests
                            /\ q.n \in 1 .. issued' /\ q.since \in 1 .. q.n
                            /\ q.mounted => q.tab = tab
      BY <1>2, <1>3, <1>4
    <2> HIDE DEF new
    <2> QED BY <1>1, <1>2, <1>3, <2>1, MoreRequests
  <1>6. TypeOK'
    <2>1. gestures' \in 0 .. MaxGestures /\ issued' \in Nat
      BY <1>1, <1>2, <1>3, PanelConstants DEF TypeOK
    <2>2. choice' \in 0 .. issued' \cup {None} /\ answered' \in 0 .. issued'
      BY <1>1, <1>2, <1>5 DEF TypeOK
    <2> QED BY <1>1, <1>2, <1>5, <2>1, <2>2 DEF TypeOK
  <1>7. \A q \in requests' : Carries(q)
    BY <1>1, <1>2, <1>4 DEF Carries
  <1>8. ShownFits'
    BY <1>1, <1>2 DEF ShownFits
  <1>9. ChoiceInv'
    BY <1>1, <1>2, <1>3, <1>4 DEF ChoiceInv
  <1>10. LatestIsFresh'
    <2>1. Pending' = Pending
      BY <1>2, <1>4 DEF Pending
    <2>2. Owed => Owed'
      BY <1>2 DEF Owed, Mine
    <2>3. disturbed \in BOOLEAN
      BY <1>1 DEF TypeOK
    <2> QED BY <1>1, <1>2, <2>1, <2>2, <2>3, SamePending
  <1> QED BY <1>6, <1>7, <1>8, <1>9, <1>10 DEF IInv

\* Create, delete and test or sync.
LEMMA ButtonsKeep ==
    ASSUME IInv
    PROVE  /\ Create => IInv'
           /\ \A c \in Connections : Delete(c) => IInv'
           /\ \A c \in Connections : Touch(c) => IInv'
  <1>1. ASSUME Create PROVE IInv'
    BY <1>1, PressKeeps DEF Create
  <1>2. ASSUME NEW c \in Connections, Delete(c) PROVE IInv'
    BY <1>2, PressKeeps DEF Delete
  <1>3. ASSUME NEW c \in Connections, Touch(c) PROVE IInv'
    BY <1>3, PressKeeps DEF Touch
  <1> QED BY <1>1, <1>2, <1>3

-----------------------------------------------------------------------------
(* The server.                                                             *)

\* p is q with its answer.
IsServed(p, q, rows) ==
    /\ p \in Requests
    /\ p.n = q.n /\ p.since = q.since /\ p.tab = q.tab /\ p.kind = q.kind
    /\ p.render = q.render /\ p.mounted = q.mounted
    /\ p.served = TRUE /\ p.rows = rows

\* An answer that fits what was asked takes the place of the request.
LEMMA ServedKeeps ==
    ASSUME IInv, NEW q \in requests, NEW rows \in SUBSET Rows, Served(q, rows),
           live' \subseteq ever', ever' \subseteq Connections,
           UNCHANGED << shown, loading, answered >>, disturbed' \in BOOLEAN,
           q.tab = "connection" => rows \subseteq Connections,
           q.kind = "create" => \E c \in Connections : rows = {c},
           q.kind = "reload" /\ q.tab = "audit" =>
              rows = AuditListing(q.render[1], q.render[2])
    PROVE  /\ TypeOK' /\ (\A p \in requests' : Carries(p)) /\ ShownFits' /\ ChoiceInv'
           /\ UNCHANGED << tab, selected, filter >>
           /\ \E p : requests' = (requests \ {q}) \cup {p} /\ IsServed(p, q, rows)
  <1> DEFINE p == [ q EXCEPT !.served = TRUE, !.rows = rows ]
  <1>1. TypeOK /\ (\A r \in requests : Carries(r)) /\ ShownFits /\ ChoiceInv
    BY DEF IInv
  <1>2. /\ requests' = (requests \ {q}) \cup {p}
        /\ UNCHANGED << tab, selected, filter, issued, gestures, choice >>
    BY DEF Served, view
  <1>3. /\ q \in Requests /\ issued \in Nat
        /\ q.n \in 1 .. issued /\ q.since \in 1 .. q.n
        /\ q.mounted => q.tab = tab
    BY <1>1 DEF TypeOK
  <1>4. IsServed(p, q, rows)
    BY <1>3, ServedIs DEF IsServed
  <1> HIDE DEF p
  <1>5. /\ requests' \subseteq Requests
        /\ \A r \in requests' :
              /\ r.n \in 1 .. issued' /\ r.since \in 1 .. r.n
              /\ r.mounted => r.tab = tab'
    <2> DEFINE new == {p}
    <2>1. /\ \A r \in requests' : r \in requests \/ r \in new
          /\ \A r \in new : /\ r \in Requests
                            /\ r.n \in 1 .. issued' /\ r.since \in 1 .. r.n
                            /\ r.mounted => r.tab = tab
      BY <1>2, <1>3, <1>4 DEF IsServed
    <2> HIDE DEF new
    <2>2. issued' \in Nat /\ issued <= issued'
      BY <1>2, <1>3
    <2> QED BY <1>1, <1>2, <2>1, <2>2, MoreRequests
  <1>6. TypeOK'
    <2>1. << loading, disturbed >>' \in BOOLEAN \X BOOLEAN
      BY <1>1 DEF TypeOK
    <2> QED BY <1>1, <1>2, <1>5, <2>1 DEF TypeOK
  <1>7. \A r \in requests' : Carries(r)
    <2>1. Carries(p)
      BY <1>1, <1>4 DEF Carries, IsServed
    <2> QED BY <1>1, <1>2, <2>1
  <1>8. ShownFits'
    BY <1>1, <1>2 DEF ShownFits
  <1>9. ChoiceInv'
    BY <1>1, <1>2, <1>4 DEF ChoiceInv, IsServed
  <1> QED BY <1>2, <1>4, <1>6, <1>7, <1>8, <1>9

\* A reload is answered with what is current.
LEMMA ServeReloadKeeps ==
    ASSUME IInv, NEW q \in requests, ServeReload(q)
    PROVE  IInv'
  <1>1. TypeOK /\ Carries(q) /\ LatestIsFresh
    BY DEF IInv
  <1>2. /\ q.kind = "reload" /\ (q.tab = "connection" \/ q.render[1] \in live)
        /\ Served(q, Listing(q)) /\ UNCHANGED << live, ever, shown, loading, answered, disturbed >>
    BY DEF ServeReload, server, panel
  <1>3. /\ live \subseteq ever /\ ever \subseteq Connections /\ disturbed \in BOOLEAN
        /\ (q.mounted => q.tab = tab)
    BY <1>1 DEF TypeOK
  <1>4. /\ Listing(q) \in SUBSET Rows
        /\ q.tab = "connection" => Listing(q) = live
        /\ q.tab = "audit" => Listing(q) = AuditListing(q.render[1], q.render[2])
    BY <1>2, <1>3, AuditListingIs DEF Listing, Rows
  <1>5. /\ TypeOK' /\ (\A p \in requests' : Carries(p)) /\ ShownFits' /\ ChoiceInv'
        /\ UNCHANGED << tab, selected, filter >>
        /\ \E p : requests' = (requests \ {q}) \cup {p} /\ IsServed(p, q, Listing(q))
    BY <1>2, <1>3, <1>4, ServedKeeps
  <1>6. PICK p : requests' = (requests \ {q}) \cup {p} /\ IsServed(p, q, Listing(q))
    BY <1>5
  <1>7. LatestIsFresh'
    <2> SUFFICES ASSUME tab = "connection" \/ selected # None, ~disturbed
                 PROVE  LatestIsFresh'
      BY <1>2, <1>5 DEF LatestIsFresh
    <2>1. \A y \in Pending' : \E z \in Pending : y.n = z.n /\ (y = z \/ (y = p /\ z = q))
      BY <1>2, <1>6 DEF Pending, IsServed
    <2>2. CASE Owed
      <3>1. Owed'
        BY <2>2, <1>2, <1>6 DEF Owed, Mine
      <3> QED BY <3>1 DEF LatestIsFresh
    <2>3. CASE LatestShown /\ FreshShown
      <3>1. LatestShown'
        BY <2>1, <2>3, <1>2 DEF LatestShown
      <3>2. FreshShown'
        BY <2>3, <1>2, <1>5 DEF FreshShown, Now, Render
      <3> QED BY <3>1, <3>2 DEF LatestIsFresh
    <2>4. ASSUME NEW x \in Pending, Latest(x), FreshRows(x)
          PROVE  LatestIsFresh'
      <3>1. CASE x = q
        <4>1. p \in Pending' /\ Latest(p)'
          BY <2>1, <2>4, <3>1, <1>2, <1>6 DEF Latest, Pending, IsServed
        <4>2. FreshRows(p)'
          BY <2>4, <3>1, <1>2, <1>3, <1>4, <1>5, <1>6 DEF FreshRows, Pending, IsServed, Now, Render
        <4> QED BY <4>1, <4>2 DEF LatestIsFresh
      <3>2. CASE x # q
        <4>1. x \in Pending' /\ Latest(x)'
          BY <2>1, <2>4, <3>2, <1>2, <1>6 DEF Latest, Pending, IsServed
        <4>2. FreshRows(x)'
          BY <2>4, <1>2, <1>5 DEF FreshRows, Now, Render
        <4> QED BY <4>1, <4>2 DEF LatestIsFresh
      <3> QED BY <3>1, <3>2
    <2> QED BY <1>1, <2>2, <2>3, <2>4 DEF LatestIsFresh
  <1> QED BY <1>5, <1>7 DEF IInv

\* What is created or deleted for the open panel is owed a reload.
LEMMA OwedIsFresh ==
    ASSUME NEW q, NEW rows, NEW p, p \in requests', IsServed(p, q, rows),
           q.kind \in { "create", "delete" }, Behind(q)
    PROVE  LatestIsFresh'
  <1>1. q.mounted => Owed'
    BY DEF Owed, Mine, IsServed
  <1>2. ~q.mounted => disturbed'
    BY DEF Behind
  <1> QED BY <1>1, <1>2 DEF LatestIsFresh

\* A connection is created.
LEMMA ServeCreateKeeps ==
    ASSUME IInv, NEW q \in requests, ServeCreate(q)
    PROVE  IInv'
  <1>1. TypeOK /\ Carries(q)
    BY DEF IInv
  <1>2. PICK c \in Connections \ ever :
           live' = live \cup {c} /\ ever' = ever \cup {c} /\ Served(q, {c})
    BY DEF ServeCreate
  <1>3. /\ q.kind = "create" /\ Behind(q)
        /\ UNCHANGED << shown, loading, answered >> /\ disturbed' \in BOOLEAN
    BY <1>1 DEF ServeCreate, Behind, TypeOK
  <1>4. /\ live' \subseteq ever' /\ ever' \subseteq Connections /\ {c} \in SUBSET Rows
    BY <1>1, <1>2 DEF TypeOK, Rows
  <1>5. /\ TypeOK' /\ (\A p \in requests' : Carries(p)) /\ ShownFits' /\ ChoiceInv'
        /\ \E p : requests' = (requests \ {q}) \cup {p} /\ IsServed(p, q, {c})
    <2>1. /\ q.tab = "connection" => {c} \subseteq Connections
          /\ q.kind = "create" => \E d \in Connections : {c} = {d}
      OBVIOUS
    <2> QED BY <1>2, <1>3, <1>4, <2>1, ServedKeeps
  <1>6. LatestIsFresh'
    BY <1>3, <1>5, OwedIsFresh
  <1> QED BY <1>5, <1>6 DEF IInv

\* A connection is deleted.
LEMMA ServeDeleteKeeps ==
    ASSUME IInv, NEW q \in requests, ServeDelete(q)
    PROVE  IInv'
  <1>1. TypeOK /\ Carries(q)
    BY DEF IInv
  <1>2. /\ q.kind = "delete" /\ live' = live \ {q.on} /\ ever' = ever
        /\ Served(q, {}) /\ Behind(q)
        /\ UNCHANGED << shown, loading, answered >> /\ disturbed' \in BOOLEAN
    BY <1>1 DEF ServeDelete, Behind, TypeOK
  <1>3. /\ live' \subseteq ever' /\ ever' \subseteq Connections
    BY <1>1, <1>2 DEF TypeOK
  <1>4. /\ TypeOK' /\ (\A p \in requests' : Carries(p)) /\ ShownFits' /\ ChoiceInv'
        /\ \E p : requests' = (requests \ {q}) \cup {p} /\ IsServed(p, q, {})
    BY <1>2, <1>3, ServedKeeps
  <1>5. LatestIsFresh'
    BY <1>2, <1>4, OwedIsFresh
  <1> QED BY <1>4, <1>5 DEF IInv

\* A test or a sync is done: nothing the panels show.
LEMMA ServeTouchKeeps ==
    ASSUME IInv, NEW q \in requests, ServeTouch(q)
    PROVE  IInv'
  <1>1. TypeOK /\ LatestIsFresh
    BY DEF IInv
  <1>2. /\ q.kind = "touch" /\ Served(q, {})
        /\ UNCHANGED << live, ever, shown, loading, answered, disturbed >>
    BY DEF ServeTouch, server, panel
  <1>3. live \subseteq ever /\ ever \subseteq Connections /\ disturbed \in BOOLEAN
    BY <1>1 DEF TypeOK
  <1>4. /\ TypeOK' /\ (\A p \in requests' : Carries(p)) /\ ShownFits' /\ ChoiceInv'
        /\ UNCHANGED << tab, selected, filter >>
        /\ \E p : requests' = (requests \ {q}) \cup {p} /\ IsServed(p, q, {})
    BY <1>2, <1>3, ServedKeeps
  <1>5. Pending' = Pending /\ (Owed => Owed')
    BY <1>2, <1>4 DEF Pending, Owed, Mine, IsServed
  <1>6. LatestIsFresh'
    BY <1>1, <1>2, <1>3, <1>4, <1>5, SamePending
  <1> QED BY <1>4, <1>6 DEF IInv

-----------------------------------------------------------------------------
(* The answers.                                                            *)

\* What a list of one connection selects is a connection.
LEMMA SelectsAConnection ==
    ASSUME NEW q, Carries(q), SelectsOnly(q)
    PROVE  (CHOOSE c \in q.rows : TRUE) \in Connections
  <1>1. q.rows # {}
    BY FS_EmptySet DEF SelectsOnly
  <1>2. (CHOOSE c \in q.rows : TRUE) \in q.rows
    BY <1>1
  <1> QED BY <1>2 DEF SelectsOnly, Carries

\* The open panel shows an answer, or one for a panel that is gone is dropped.
LEMMA AnswerReloadKeeps ==
    ASSUME IInv, NEW q \in requests, AnswerReload(q)
    PROVE  IInv'
  <1> DEFINE kept == requests \ {q}
             late == q.mounted /\ q.n < answered
  <1>1. TypeOK /\ (\A r \in requests : Carries(r)) /\ ShownFits /\ ChoiceInv /\ LatestIsFresh
    BY DEF IInv
  <1>2. /\ q.kind = "reload" /\ q.served
        /\ q.mounted => shown' = [ of |-> q.render, rows |-> q.rows ] /\ answered' = q.n
        /\ ~q.mounted => UNCHANGED << shown, answered >>
        /\ UNCHANGED << live, ever, tab, filter, gestures, choice >>
    BY DEF AnswerReload, server
  <1>3. selected' = IF SelectsOnly(q) THEN CHOOSE c \in q.rows : TRUE ELSE selected
    BY DEF AnswerReload
  <1>4. /\ issued \in Nat /\ answered \in 0 .. issued /\ tab \in Tabs
        /\ q \in Requests /\ (q.mounted => q.tab = tab)
        /\ \A r \in requests : r.n \in 1 .. issued /\ r.since \in 1 .. r.n
        /\ disturbed \in BOOLEAN /\ loading \in BOOLEAN
        /\ filter \in Statuses \cup {None} /\ choice \in 0 .. issued \cup {None}
        /\ selected \in Connections \cup {None}
    BY <1>1 DEF TypeOK
  <1>5. /\ selected' \in Connections \cup {None}
        /\ (selected' # selected => selected' # None)
        /\ (choice # None => selected' # None)
    <2>1. CASE SelectsOnly(q)
      <3>1. selected' \in Connections
        BY <1>1, <1>3, <2>1, SelectsAConnection
      <3> QED BY <3>1, PanelConstants
    <2>2. CASE ~SelectsOnly(q)
      BY <1>1, <1>3, <1>4, <2>2 DEF ChoiceInv
    <2> QED BY <2>1, <2>2
  <1>6. answered' \in 0 .. issued
    BY <1>2, <1>4
  <1>7. ShownFits'
    <2>1. CASE q.mounted
      BY <2>1, <1>1, <1>2, <1>4 DEF ShownFits, Carries
    <2>2. CASE ~q.mounted
      BY <2>2, <1>1, <1>2 DEF ShownFits
    <2> QED BY <2>1, <2>2
  <1>8. shown' \in [ of : Renders, rows : SUBSET Rows ]
    <2>1. CASE q.mounted
      BY <2>1, <1>2, <1>4 DEF Requests
    <2>2. CASE ~q.mounted
      BY <2>2, <1>1, <1>2 DEF TypeOK
    <2> QED BY <2>1, <2>2
  <1>9. CASE selected' # selected
    <2>1. /\ requests' = kept \cup Reload(issued + 1, tab, Render(selected', filter'))
          /\ issued' = issued + 1 /\ loading' = TRUE /\ disturbed' \in BOOLEAN
      BY <1>9 DEF AnswerReload, Effect
    <2>2. \A r \in kept : r.n < issued + 1 /\ r \in requests
      BY <1>4
    <2> HIDE DEF kept
    <2>3. /\ LatestIsFresh'
          /\ \E r : /\ requests' = kept \cup {r} /\ r \in Requests
                    /\ r.n = issued + 1 /\ r.since \in 1 .. r.n /\ r.tab = tab
                    /\ r.render[1] = selected' /\ Carries(r)
      <3>1. issued + 1 \in Nat /\ issued + 1 # 0 /\ answered' < issued + 1
        BY <1>4, <1>6
      <3>2. filter' \in Statuses \cup {None} /\ selected' # None /\ tab' = tab
        BY <1>2, <1>4, <1>5, <1>9
      <3> QED BY <1>4, <1>5, <2>1, <2>2, <3>1, <3>2, EffectAsks
    <2>4. PICK r : /\ requests' = kept \cup {r} /\ r \in Requests
                   /\ r.n = issued + 1 /\ r.since \in 1 .. r.n /\ r.tab = tab
                   /\ r.render[1] = selected' /\ Carries(r)
      BY <2>3
    <2>5. /\ requests' \subseteq Requests /\ 0 .. issued \subseteq 0 .. issued'
          /\ \A p \in requests' :
                /\ p.n \in 1 .. issued' /\ p.since \in 1 .. p.n
                /\ p.mounted => p.tab = tab'
      <3> DEFINE new == {r}
      <3>1. /\ \A p \in requests' : p \in requests \/ p \in new
            /\ \A p \in new : /\ p \in Requests
                              /\ p.n \in 1 .. issued' /\ p.since \in 1 .. p.n
                              /\ p.mounted => p.tab = tab
        BY <1>4, <2>1, <2>2, <2>4
      <3> HIDE DEF new
      <3> QED BY <1>1, <1>2, <1>4, <2>1, <3>1, MoreRequests
    <2>6. TypeOK'
      <3>1. /\ issued' \in Nat /\ choice' \in 0 .. issued' \cup {None}
            /\ answered' \in 0 .. issued'
        BY <1>2, <1>4, <1>6, <2>1, <2>5
      <3>2. << loading, disturbed >>' \in BOOLEAN \X BOOLEAN
        BY <2>1
      <3> QED BY <1>1, <1>2, <1>5, <1>8, <2>5, <3>1, <3>2 DEF TypeOK
    <2>7. \A p \in requests' : Carries(p)
      BY <1>1, <2>2, <2>4
    <2>8. ChoiceInv'
      BY <1>1, <1>2, <1>5, <2>2, <2>4 DEF ChoiceInv
    <2> QED BY <1>7, <2>3, <2>6, <2>7, <2>8 DEF IInv
  <1>10. CASE selected' = selected
    <2>1. /\ requests' = kept /\ issued' = issued /\ loading' = (loading /\ ~q.mounted)
          /\ disturbed' = (disturbed \/ late)
      BY <1>10 DEF AnswerReload
    <2>2. TypeOK'
      <3>1. << loading, disturbed >>' \in BOOLEAN \X BOOLEAN
        BY <1>4, <2>1
      <3> QED BY <1>1, <1>2, <1>5, <1>6, <1>8, <2>1, <3>1 DEF TypeOK
    <2>3. \A p \in requests' : Carries(p)
      BY <1>1, <2>1
    <2>4. ChoiceInv'
      BY <1>1, <1>2, <1>10, <2>1 DEF ChoiceInv
    <2>5. LatestIsFresh'
      <3> SUFFICES ASSUME tab = "connection" \/ selected # None, ~disturbed, ~late
                   PROVE  LatestIsFresh'
        BY <1>2, <1>10, <2>1 DEF LatestIsFresh
      <3>1. Pending' = Pending \ {q} /\ (Owed => Owed')
        BY <1>2, <2>1 DEF Pending, Owed, Mine
      <3>2. CASE ~q.mounted
        <4>1. Pending' = Pending
          BY <3>1, <3>2 DEF Pending
        <4>2. UNCHANGED << live, tab, selected, filter, shown, answered >>
              /\ disturbed' \in BOOLEAN
          BY <1>2, <1>4, <1>10, <2>1, <3>2
        <4> QED BY <1>1, <1>4, <3>1, <4>1, <4>2, SamePending
      <3>3. CASE q.mounted
        <4>1. /\ q \in Pending /\ ~(q.n < answered)
              /\ answered' = q.n /\ shown' = [ of |-> q.render, rows |-> q.rows ]
          BY <1>2, <3>3 DEF Pending
        <4>2. CASE Owed
          BY <3>1, <4>2 DEF LatestIsFresh
        <4>3. CASE LatestShown /\ FreshShown
          BY <4>1, <4>3 DEF LatestShown
        <4>4. ASSUME NEW x \in Pending, Latest(x), FreshRows(x)
              PROVE  LatestIsFresh'
          <5>1. CASE x = q
            <6>1. LatestShown'
              BY <3>1, <4>1, <4>4, <5>1 DEF LatestShown, Latest
            <6>2. FreshShown'
              BY <1>2, <1>10, <4>1, <4>4, <5>1 DEF FreshShown, FreshRows, Now, Render
            <6> QED BY <6>1, <6>2 DEF LatestIsFresh
          <5>2. CASE x # q
            <6>1. x \in Pending' /\ Latest(x)'
              BY <3>1, <4>1, <4>4, <5>2 DEF Latest
            <6>2. FreshRows(x)'
              BY <1>2, <1>10, <4>4 DEF FreshRows, Now, Render
            <6> QED BY <6>1, <6>2 DEF LatestIsFresh
          <5> QED BY <5>1, <5>2
        <4> QED BY <1>1, <4>2, <4>3, <4>4 DEF LatestIsFresh
      <3> QED BY <3>2, <3>3
    <2> QED BY <1>7, <2>2, <2>3, <2>4, <2>5 DEF IInv
  <1> QED BY <1>9, <1>10

\* What has been created is selected, and the list is asked for again.
LEMMA AnswerCreateKeeps ==
    ASSUME IInv, NEW q \in requests, AnswerCreate(q)
    PROVE  IInv'
  <1>n. PICK n, p : n = issued + 1 /\ p = Reloads(n, q)
    OBVIOUS
  <1> DEFINE kept == (requests \ {q}) \cup {p}
  <1>1. TypeOK /\ (\A r \in requests : Carries(r)) /\ ShownFits /\ ChoiceInv
    BY DEF IInv
  <1>2. /\ q.kind = "create" /\ q.served
        /\ selected' = CHOOSE c \in q.rows : TRUE
        /\ choice' = issued
        /\ UNCHANGED << live, ever, tab, filter, shown, answered, gestures >>
        /\ Effect(kept, issued + 2, disturbed)
    BY <1>n DEF AnswerCreate, server
  <1>3. selected' \in Connections /\ selected' # None
    <2>1. PICK c \in Connections : q.rows = {c}
      BY <1>1, <1>2 DEF Carries
    <2>2. (CHOOSE d \in {c} : TRUE) = c
      OBVIOUS
    <2> QED BY <1>2, <2>1, <2>2, PanelConstants
  <1>4. /\ issued \in Nat /\ answered \in 0 .. issued /\ tab \in Tabs
        /\ q \in Requests /\ (q.mounted => q.tab = tab)
        /\ q.n \in 1 .. issued /\ q.since \in 1 .. q.n
        /\ \A r \in requests : r.n \in 1 .. issued /\ r.since \in 1 .. r.n
        /\ filter \in Statuses \cup {None}
    BY <1>1 DEF TypeOK
  <1>5. issued + 1 \in Nat /\ issued + 2 \in Nat /\ issued + 2 # 0 /\ answered' < issued + 2
    BY <1>2, <1>4
  <1>6. /\ p \in Requests
        /\ p.n = issued + 1 /\ p.since = q.since /\ p.tab = q.tab /\ p.kind = "reload"
        /\ p.render = q.render /\ p.mounted = q.mounted
        /\ p.served = FALSE /\ p.rows = {}
    <2>1. n \in Nat
      BY <1>n, <1>5
    <2>2. q \in Requests /\ p = Reloads(n, q)
      BY <1>n, <1>4
    <2>3. IsReloads(p, q, n)
      BY <2>1, <2>2, ReloadsIs, Zenon
    <2> QED BY <1>n, <2>3 DEF IsReloads
  <1>7. /\ requests' = kept \cup Reload(issued + 2, tab, Render(selected', filter'))
        /\ issued' = issued + 2 /\ loading' = TRUE /\ disturbed' \in BOOLEAN
    <2> HIDE DEF kept
    <2>1. disturbed \in BOOLEAN
      BY <1>1 DEF TypeOK
    <2> QED BY <1>2, <2>1 DEF Effect
  <1>8. \A r \in kept : r = p \/ r \in requests
    OBVIOUS
  <1>9. Carries(p)
    BY <1>6 DEF Carries
  <1> HIDE DEF kept
  <1>10. \A r \in kept : r.n < issued + 2
    BY <1>4, <1>6, <1>8
  <1>11. /\ LatestIsFresh'
         /\ \E r : /\ requests' = kept \cup {r} /\ r \in Requests
                   /\ r.n = issued + 2 /\ r.since \in 1 .. r.n /\ r.tab = tab
                   /\ r.render[1] = selected' /\ Carries(r)
    BY <1>2, <1>3, <1>4, <1>5, <1>7, <1>10, EffectAsks
  <1>12. PICK r : /\ requests' = kept \cup {r} /\ r \in Requests
                  /\ r.n = issued + 2 /\ r.since \in 1 .. r.n /\ r.tab = tab
                  /\ r.render[1] = selected' /\ Carries(r)
    BY <1>11
  <1>13. /\ requests' \subseteq Requests /\ 0 .. issued \subseteq 0 .. issued'
         /\ \A s \in requests' :
               /\ s.n \in 1 .. issued' /\ s.since \in 1 .. s.n
               /\ s.mounted => s.tab = tab'
    <2> DEFINE new == { p, r }
    <2>1. \A s \in requests' : s \in requests \/ s \in new
      BY <1>8, <1>12
    <2>2. \A s \in new : /\ s \in Requests
                         /\ s.n \in 1 .. issued' /\ s.since \in 1 .. s.n
                         /\ s.mounted => s.tab = tab
      BY <1>4, <1>6, <1>7, <1>12
    <2>3. issued' \in Nat /\ issued <= issued'
      BY <1>4, <1>7
    <2> HIDE DEF new
    <2> QED BY <1>1, <1>2, <2>1, <2>2, <2>3, MoreRequests
  <1>14. TypeOK'
    <2>1. /\ issued' \in Nat /\ choice' \in 0 .. issued' \cup {None}
          /\ answered' \in 0 .. issued'
      BY <1>2, <1>4, <1>7, <1>13
    <2>2. << loading, disturbed >>' \in BOOLEAN \X BOOLEAN
      BY <1>7
    <2> QED BY <1>1, <1>2, <1>3, <1>13, <2>1, <2>2 DEF TypeOK
  <1>15. \A s \in requests' : Carries(s)
    BY <1>1, <1>8, <1>9, <1>12
  <1>16. ShownFits'
    BY <1>1, <1>2 DEF ShownFits
  <1>17. ChoiceInv'
    <2>1. \A s \in requests : s.since <= issued
      BY <1>4
    <2>2. p.since <= issued
      BY <1>4, <1>6
    <2> QED BY <1>2, <1>3, <1>8, <1>12, <2>1, <2>2 DEF ChoiceInv
  <1> QED BY <1>11, <1>14, <1>15, <1>16, <1>17 DEF IInv

\* After a delete, a test or a sync its panel reloads.
LEMMA AnswerActKeeps ==
    ASSUME IInv, NEW q \in requests, AnswerAct(q)
    PROVE  IInv'
  <1>n. PICK n, p : n = issued + 1 /\ p = Reloads(n, q)
    OBVIOUS
  <1>1. TypeOK /\ (\A r \in requests : Carries(r)) /\ ShownFits /\ ChoiceInv /\ LatestIsFresh
    BY DEF IInv
  <1>2. /\ q.kind \in { "delete", "touch" } /\ q.served
        /\ requests' = (requests \ {q}) \cup {p}
        /\ issued' = issued + 1
        /\ loading' = (loading \/ q.mounted)
        /\ disturbed' = (disturbed \/ (q.mounted /\ q.tab = "status" /\ q.render # Now))
        /\ UNCHANGED << live, ever, tab, selected, filter, shown, answered, gestures, choice >>
    BY <1>n DEF AnswerAct, server, view
  <1>3. /\ issued \in Nat /\ answered \in 0 .. issued /\ tab \in Tabs
        /\ q \in Requests /\ (q.mounted => q.tab = tab)
        /\ q.n \in 1 .. issued /\ q.since \in 1 .. q.n
        /\ \A r \in requests : r.n \in 1 .. issued /\ r.since \in 1 .. r.n
        /\ choice \in 0 .. issued \cup {None}
        /\ loading \in BOOLEAN /\ disturbed \in BOOLEAN
    BY <1>1 DEF TypeOK
  <1>4. /\ p \in Requests
        /\ p.n = issued + 1 /\ p.since = q.since /\ p.tab = q.tab /\ p.kind = "reload"
        /\ p.render = q.render /\ p.mounted = q.mounted
        /\ p.served = FALSE /\ p.rows = {}
    <2>1. n \in Nat
      BY <1>n, <1>3
    <2>2. q \in Requests /\ p = Reloads(n, q)
      BY <1>n, <1>3
    <2>3. IsReloads(p, q, n)
      BY <2>1, <2>2, ReloadsIs, Zenon
    <2> QED BY <1>n, <2>3 DEF IsReloads
  <1>5. /\ requests' \subseteq Requests /\ 0 .. issued \subseteq 0 .. issued'
        /\ \A s \in requests' :
              /\ s.n \in 1 .. issued' /\ s.since \in 1 .. s.n
              /\ s.mounted => s.tab = tab'
    <2> DEFINE new == {p}
    <2>1. /\ \A s \in requests' : s \in requests \/ s \in new
          /\ issued' \in Nat /\ issued <= issued'
      BY <1>2, <1>3
    <2>2. \A s \in new : /\ s \in Requests
                         /\ s.n \in 1 .. issued' /\ s.since \in 1 .. s.n
                         /\ s.mounted => s.tab = tab
      BY <1>2, <1>3, <1>4
    <2> HIDE DEF new
    <2> QED BY <1>1, <1>2, <2>1, <2>2, MoreRequests
  <1>6. TypeOK'
    <2>1. /\ issued' \in Nat /\ choice' \in 0 .. issued' \cup {None}
          /\ answered' \in 0 .. issued'
      BY <1>2, <1>3, <1>5
    <2>2. << loading, disturbed >>' \in BOOLEAN \X BOOLEAN
      BY <1>2, <1>3, <1>4 DEF Requests
    <2> QED BY <1>1, <1>2, <1>5, <2>1, <2>2 DEF TypeOK
  <1>7. \A s \in requests' : Carries(s)
    <2>1. Carries(p)
      BY <1>4 DEF Carries
    <2> QED BY <1>1, <1>2, <2>1
  <1>8. ShownFits'
    BY <1>1, <1>2 DEF ShownFits
  <1>9. ChoiceInv'
    BY <1>1, <1>2, <1>4 DEF ChoiceInv
  <1>10. LatestIsFresh'
    <2> SUFFICES ASSUME ~disturbed, ~(q.mounted /\ q.tab = "status" /\ q.render # Now)
                 PROVE  LatestIsFresh'
      BY <1>2 DEF LatestIsFresh
    <2>1. CASE q.mounted
      <3>1. /\ p \in requests' /\ p.mounted = TRUE /\ p.kind = "reload" /\ answered' < p.n
        BY <1>2, <1>3, <1>4, <2>1 DEF Requests
      <3>2. \A y \in requests' : y = p \/ y.n < p.n
        BY <1>2, <1>3, <1>4
      <3>3. FreshRows(p)'
        <4>1. CASE tab = "connection"
          BY <4>1, <1>2, <1>4 DEF FreshRows
        <4>2. CASE tab # "connection"
          <5>1. q.tab = "status" /\ q.render = Now
            BY <4>2, <1>1, <1>2, <1>3, <2>1 DEF Carries
          <5> QED BY <4>2, <5>1, <1>2, <1>4 DEF FreshRows, Now, Render
        <4> QED BY <4>1, <4>2
      <3> QED BY <3>1, <3>2, <3>3, AsksLast
    <2>2. CASE ~q.mounted
      <3>1. Pending' = Pending /\ (Owed => Owed')
        BY <1>2, <1>4, <2>2 DEF Pending, Owed, Mine
      <3>2. disturbed' \in BOOLEAN
        BY <1>2, <1>3, <2>2
      <3> QED BY <1>1, <1>2, <1>3, <3>1, <3>2, SamePending
    <2> QED BY <2>1, <2>2
  <1> QED BY <1>6, <1>7, <1>8, <1>9, <1>10 DEF IInv

\* A request that fails is dropped.
LEMMA FailKeeps ==
    ASSUME IInv, NEW q \in requests, Fail(q)
    PROVE  IInv'
  <1>1. TypeOK /\ (\A r \in requests : Carries(r)) /\ ShownFits /\ ChoiceInv /\ LatestIsFresh
    BY DEF IInv
  <1>2. /\ requests' = requests \ {q}
        /\ loading' = (loading /\ ~(q.mounted /\ q.kind = "reload"))
        /\ disturbed' = (disturbed \/ (q.mounted /\ (q.kind = "reload" \/ q.served)))
        /\ UNCHANGED << live, ever, tab, selected, filter, shown, answered, issued, gestures, choice >>
    BY DEF Fail, server, view
  <1>3. loading \in BOOLEAN /\ disturbed \in BOOLEAN
    BY <1>1 DEF TypeOK
  <1>4. loading' \in BOOLEAN /\ disturbed' \in BOOLEAN
    BY <1>2, <1>3
  <1>5. TypeOK'
    <2>1. << loading, disturbed >>' \in BOOLEAN \X BOOLEAN
      BY <1>4
    <2> QED BY <1>1, <1>2, <2>1 DEF TypeOK
  <1>6. (\A r \in requests' : Carries(r)) /\ ShownFits' /\ ChoiceInv'
    BY <1>1, <1>2 DEF ShownFits, ChoiceInv
  <1>7. LatestIsFresh'
    <2> SUFFICES ASSUME ~(q.mounted /\ (q.kind = "reload" \/ q.served))
                 PROVE  LatestIsFresh'
      BY <1>2 DEF LatestIsFresh
    <2>1. Pending' = Pending /\ (Owed => Owed')
      BY <1>2 DEF Pending, Owed, Mine
    <2>2. disturbed' = FALSE => disturbed = FALSE
      BY <1>2, <1>3
    <2> QED BY <1>1, <1>2, <1>3, <1>4, <2>1, <2>2, SamePending
  <1> QED BY <1>5, <1>6, <1>7 DEF IInv

-----------------------------------------------------------------------------
(* The theorems.                                                           *)

\* Every step keeps the invariant.
LEMMA NextIInv ==
    ASSUME IInv, [Next]_vars
    PROVE  IInv'
  <1>1. ASSUME NEW t \in Tabs, OpenTab(t) PROVE IInv'
    BY <1>1, OpenTabKeeps
  <1>2. ASSUME NEW c \in Connections, Select(c) PROVE IInv'
    BY <1>2, SelectKeeps
  <1>3. ASSUME NEW c \in Connections, Delete(c) \/ Touch(c) PROVE IInv'
    BY <1>3, ButtonsKeep
  <1>4. ASSUME NEW status \in Statuses \cup {None}, SetFilter(status) PROVE IInv'
    BY <1>4, SetFilterKeeps
  <1>5. CASE Refresh
    BY <1>5, RefreshKeeps
  <1>6. CASE Create
    BY <1>6, ButtonsKeep
  <1>7. ASSUME NEW q \in requests, ServeReload(q) PROVE IInv'
    BY <1>7, ServeReloadKeeps
  <1>8. ASSUME NEW q \in requests, ServeCreate(q) PROVE IInv'
    BY <1>8, ServeCreateKeeps
  <1>9. ASSUME NEW q \in requests, ServeDelete(q) PROVE IInv'
    BY <1>9, ServeDeleteKeeps
  <1>10. ASSUME NEW q \in requests, ServeTouch(q) PROVE IInv'
    BY <1>10, ServeTouchKeeps
  <1>11. ASSUME NEW q \in requests, AnswerReload(q) PROVE IInv'
    BY <1>11, AnswerReloadKeeps
  <1>12. ASSUME NEW q \in requests, AnswerCreate(q) PROVE IInv'
    BY <1>12, AnswerCreateKeeps
  <1>13. ASSUME NEW q \in requests, AnswerAct(q) PROVE IInv'
    BY <1>13, AnswerActKeeps
  <1>14. ASSUME NEW q \in requests, Fail(q) PROVE IInv'
    BY <1>14, FailKeeps
  <1>15. CASE UNCHANGED vars
    <2>1. UNCHANGED << live, ever, tab, selected, filter, shown, loading, answered,
                       disturbed, requests, issued, gestures, choice >>
      BY <1>15 DEF vars, server, view, panel, asked
    <2>2. TypeOK /\ (\A r \in requests : Carries(r)) /\ ShownFits /\ ChoiceInv /\ LatestIsFresh
      BY DEF IInv
    <2>3. TypeOK'
      BY <2>1, <2>2 DEF TypeOK
    <2>4. (\A r \in requests' : Carries(r)) /\ ShownFits' /\ ChoiceInv'
      BY <2>1, <2>2 DEF ShownFits, ChoiceInv
    <2>5. LatestIsFresh'
      BY <2>1, <2>2, SamePending DEF Pending, Owed, Mine, TypeOK
    <2> QED BY <2>3, <2>4, <2>5 DEF IInv
  <1> QED BY <1>1, <1>2, <1>3, <1>4, <1>5, <1>6, <1>7, <1>8, <1>9, <1>10,
             <1>11, <1>12, <1>13, <1>14, <1>15 DEF Next

\* The invariant holds in every behaviour.
THEOREM Invariance == Spec => []IInv
  <1>1. Init => IInv
    BY InitIInv
  <1>2. IInv /\ [Next]_vars => IInv'
    BY NextIInv
  <1> QED BY <1>1, <1>2, PTL DEF Spec

\* The selection, the open panel and its requests (SAPConnectorView.tsx and the
\* panels) are well typed: a mounted request is of the open tab, and only the
\* audit panel has a filter.
THEOREM TypeCorrect == Spec => []TypeOK
  <1>1. IInv => TypeOK
    BY DEF IInv
  <1> QED BY <1>1, Invariance, PTL

\* An audit listing lacks a row that fits only behind Limit newer ones that do.
LEMMA ListingShown ==
    ASSUME TypeOK, shown.rows = AuditListing(selected, filter)
    PROVE  AuditShown
  <1> SUFFICES ASSUME NEW i \in 1 .. Len(AuditLog)
               PROVE  IF i \in shown.rows
                      THEN AuditLog[i].on = selected
                           /\ (filter = None \/ AuditLog[i].status = filter)
                      ELSE AuditLog[i].on = selected
                           /\ (filter = None \/ AuditLog[i].status = filter) =>
                             \E newer \in SUBSET (i + 1 .. Len(AuditLog)) :
                                /\ Cardinality(newer) = Limit
                                /\ \A j \in newer : filter = None \/ AuditLog[j].status = filter
    BY DEF AuditShown
  <1> DEFINE newer == { j \in i + 1 .. Len(AuditLog) : filter \in { None, AuditLog[j].status } }
  <1>1. i \in shown.rows <=> /\ AuditLog[i].on = selected
                             /\ filter \in { None, AuditLog[i].status }
                             /\ Cardinality(newer) < Limit
    BY DEF AuditListing
  <1>2. IsFiniteSet(newer) /\ Cardinality(newer) \in Nat
    <2>1. i \in Int /\ i + 1 \in Int /\ Len(AuditLog) \in Int
      BY PanelConstants
    <2>2. IsFiniteSet(i + 1 .. Len(AuditLog))
      BY <2>1, FS_Interval
    <2>3. newer \subseteq i + 1 .. Len(AuditLog)
      OBVIOUS
    <2> HIDE DEF newer
    <2> QED BY <2>2, <2>3, FS_Subset, FS_CardinalityType
  <1>3. \A j \in newer : j \in i + 1 .. Len(AuditLog) /\ (filter = None \/ AuditLog[j].status = filter)
    OBVIOUS
  <1> HIDE DEF newer
  <1>4. CASE i \in shown.rows
    BY <1>1, <1>4
  <1>5. CASE i \notin shown.rows /\ AuditLog[i].on = selected
             /\ (filter = None \/ AuditLog[i].status = filter)
    <2>1. Limit \in Nat /\ Limit <= Cardinality(newer)
      BY <1>1, <1>2, <1>5, PanelConstants
    <2>2. PICK T \in SUBSET newer : Cardinality(T) = Limit
      BY <1>2, <2>1, SubsetOfSize
    <2> QED BY <1>3, <1>5, <2>2
  <1> QED BY <1>4, <1>5

\* A panel that waits for nothing shows what is selected and filtered now, for
\* every order in which tabs, selection and filter were changed and the answers
\* of the reloads came, unless one failed, was overtaken or was asked for by an
\* action of before.
THEOREM SettledShowsNow == Spec => []SettledIsCurrent
  <1>1. IInv => SettledIsCurrent
    <2> SUFFICES ASSUME IInv, Mine(requests) = {}, ~disturbed,
                        tab = "connection" \/ selected # None
                 PROVE  IF tab = "connection" THEN shown.rows = live
                        ELSE /\ shown.of = << selected, filter >>
                             /\ tab = "audit" => AuditShown
      BY DEF SettledIsCurrent
    <2>1. FreshShown
      BY DEF IInv, LatestIsFresh, Pending, Owed, Mine
    <2>2. CASE tab = "connection"
      BY <2>1, <2>2 DEF FreshShown
    <2>3. CASE tab # "connection"
      <3>1. shown.of = << selected, filter >>
        BY <2>1, <2>3 DEF FreshShown, Now, Render
      <3>2. shown.of[1] = selected /\ shown.of[2] = filter
        BY <3>1
      <3>3. ASSUME tab = "audit" PROVE AuditShown
        <4>1. shown.rows = AuditListing(selected, filter)
          BY <2>3, <3>2, <3>3 DEF IInv, ShownFits
        <4> QED BY <4>1, ListingShown DEF IInv
      <3> QED BY <2>3, <3>1, <3>3
    <2> QED BY <2>2, <2>3
  <1> QED BY <1>1, Invariance, PTL

\* An answer takes a connection the user chose out of the selection only if what
\* asked for it was begun before that choice: a list of one that was asked for
\* when nothing was selected, or a connection the user was creating.
THEOREM ChoicesStand == Spec => ChoiceStands
  <1> DEFINE Stands == choice # None /\ gestures' = gestures /\ choice' = choice
                       /\ selected' # selected =>
                          \E q \in requests \ requests' : q.since <= choice
  <1>1. IInv /\ [Next]_vars => [Stands]_vars
    <2> SUFFICES ASSUME IInv, Next, choice # None, gestures' = gestures, choice' = choice,
                        selected' # selected
                 PROVE  \E q \in requests \ requests' : q.since <= choice
      OBVIOUS
    <2>1. /\ issued \in Nat /\ gestures \in Nat
          /\ \A q \in requests : q.n \in 1 .. issued /\ q.since \in 1 .. q.n /\ q \in Requests
          /\ tab \in Tabs /\ filter \in Statuses \cup {None}
      BY PanelConstants DEF IInv, TypeOK
    <2>2. ASSUME NEW q \in requests, AnswerReload(q)
          PROVE  \E r \in requests \ requests' : r.since <= choice
      <3>1. SelectsOnly(q) /\ Carries(q)
        BY <2>2 DEF AnswerReload, IInv
      <3>2. q.since <= choice
        BY <3>1 DEF SelectsOnly, IInv, ChoiceInv
      <3>3. selected' \in Connections
        BY <3>1, <2>2, SelectsAConnection DEF AnswerReload
      <3>4. /\ requests' = (requests \ {q}) \cup Reload(issued + 1, tab, Render(selected', filter'))
            /\ filter' = filter
        BY <2>2 DEF AnswerReload, Effect
      <3>5. \A r \in Reload(issued + 1, tab, Render(selected', filter')) : r.n = issued + 1
        <4>1. PICK n \in Nat : n = issued + 1
          BY <2>1
        <4>2. PICK render \in Renders : render = Render(selected', filter')
          BY <2>1, <3>3, <3>4, RenderIs
        <4>3. \A r \in Reload(n, tab, render) : r.n = n
          <5>1. tab \in Tabs
            BY <2>1
          <5>2. \/ Reload(n, tab, render) = {}
                \/ \E r : Reload(n, tab, render) = {r} /\ IsReload(r, n, tab, render)
            BY <5>1, ReloadIs, Zenon
          <5> QED BY <5>2 DEF IsReload
        <4> QED BY <4>1, <4>2, <4>3
      <3>6. q \notin requests'
        BY <2>1, <3>4, <3>5
      <3> QED BY <3>2, <3>6
    <2>3. ASSUME NEW q \in requests, AnswerCreate(q)
          PROVE  \E r \in requests \ requests' : r.since <= choice
      <3>1. choice = issued /\ q.kind = "create" /\ q.served
        BY <2>3 DEF AnswerCreate
      <3>2. q.since <= choice
        BY <2>1, <3>1
      <3>3. \A r \in Reload(issued + 2, tab, Render(selected', filter')) : r.kind = "reload"
        BY DEF Reload, Request
      <3>4. Reloads(issued + 1, q).kind = "reload"
        <4>1. PICK n \in Nat : n = issued + 1
          BY <2>1
        <4>2. Reloads(n, q).kind = "reload"
          BY <2>1 DEF Reloads, Requests
        <4> QED BY <4>1, <4>2
      <3>5. requests' = ((requests \ {q}) \cup { Reloads(issued + 1, q) })
                          \cup Reload(issued + 2, tab, Render(selected', filter'))
        BY <2>3 DEF AnswerCreate, Effect
      <3>6. q \notin requests'
        BY <3>1, <3>3, <3>4, <3>5
      <3> QED BY <3>2, <3>6
    <2>4. /\ \A t \in Tabs : ~OpenTab(t)
          /\ \A c \in Connections : ~Select(c) /\ ~Delete(c) /\ ~Touch(c)
          /\ \A status \in Statuses \cup {None} : ~SetFilter(status)
          /\ ~Refresh /\ ~Create
      <3>1. gestures' # gestures + 1
        BY <2>1
      <3> QED BY <3>1 DEF OpenTab, Select, Delete, Touch, SetFilter, Refresh, Create, Press, Gesture
    <2>5. \A q \in requests :
             ~ServeReload(q) /\ ~ServeCreate(q) /\ ~ServeDelete(q) /\ ~ServeTouch(q)
      BY DEF ServeReload, ServeCreate, ServeDelete, ServeTouch, Served, view
    <2>6. \A q \in requests : ~AnswerAct(q) /\ ~Fail(q)
      BY DEF AnswerAct, Fail, view
    <2> QED BY <2>2, <2>3, <2>4, <2>5, <2>6 DEF Next
  <1> QED BY <1>1, Invariance, PTL DEF Spec, ChoiceStands
=============================================================================
