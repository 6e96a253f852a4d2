----------------------- MODULE ConnectionRoutesProofs -----------------------
(***************************************************************************)
(* What holds of ConnectionRoutes for any number of requests, any tenants  *)
(* and anything the clients may ask.                                       *)
(***************************************************************************)
EXTENDS ConnectionRoutes, TLAPS

-----------------------------------------------------------------------------
(* The inductive invariant.                                                *)

\* A row for c has been inserted at some time: its id is known, and no INSERT
\* of that id is left.
Created(c) ==
    \/ c = Legacy
    \/ c \in Requests /\ ask[c] # None /\ ask[c].kind = "create" /\ "row" \in wrote[c]

\* The tenant of a connection and the name of its credentials, for as long as
\* it lives and ever after.
Owner(c) == IF c = Legacy THEN LegacyCompany ELSE ask[c].company
KeyOf(c) == IF c = Legacy THEN None ELSE c

\* What a request is and what it is about.
Begun(r) ==
    /\ stage[r] = "idle" <=> ask[r] = None
    /\ stage[r] = "idle" => on[r] = None
    /\ stage[r] \in { "saving", "inserting", "rolling_back" } => ask[r].kind = "create"
    /\ stage[r] = "reading" => ask[r].kind \in { "patch", "delete" }
    /\ stage[r] \in { "updating", "storing" } => ask[r].kind = "patch"
    /\ stage[r] \in { "deleting", "purging" } => ask[r].kind = "delete"
    /\ stage[r] \in { "resolving", "loading", "fetching", "stamping" } =>
          ask[r].kind \in { "test", "sync" }
    /\ stage[r] = "returning" => ask[r].kind \in { "create", "patch" }
    /\ ask[r] # None =>
          IF ask[r].kind = "create" THEN on[r] = r
          ELSE on[r] \in Connections /\ Created(on[r])
    /\ reply[r] # None => stage[r] = "answered"

\* The row a request works with is one of its own tenant's, and names the
\* credentials of that very connection.
RowRead(r) ==
    /\ stage[r] \in { "updating", "storing", "deleting", "purging",
                      "loading", "fetching", "stamping" } => row[r] # None
    /\ stage[r] = "returning" /\ ask[r].kind = "patch" => row[r] # None
    /\ row[r] # None =>
          /\ ask[r] # None
          /\ ask[r].kind # "create"
          /\ Owner(on[r]) = ask[r].company
          /\ row[r].secret = KeyOf(on[r])
    /\ stage[r] \in { "storing", "purging", "loading" } => on[r] # Legacy
    /\ stage[r] = "purging" => rows[on[r]] = None

\* What it has written when it stands where it stands, unless a DELETE has
\* overtaken it.
Written(r) ==
    /\ stage[r] \in { "idle", "saving", "reading", "updating", "resolving" } => wrote[r] = {}
    /\ stage[r] \in { "inserting", "rolling_back" } =>
          wrote[r] = { "secret" } /\ secrets[r] # None
    /\ stage[r] = "updating" => ask[r].change # None
    /\ stage[r] = "storing" => ask[r].creds # None
    /\ stage[r] = "storing" /\ rows[on[r]] # None =>
          ("row" \in wrote[r] <=> ask[r].change # None) /\ "secret" \notin wrote[r]
    /\ stage[r] = "returning" =>
          IF ask[r].kind = "create" THEN wrote[r] = { "row", "secret" }
          ELSE rows[on[r]] # None => wrote[r] = Wanted(r)

\* Its verdict is there when it is about to be recorded, and stays.
Judged(r) ==
    /\ stage[r] = "stamping" => verdict[r] # None
    /\ verdict[r] # None => stage[r] \in { "stamping", "answered", "cut" }
    /\ verdict[r] = "error" => ask[r].kind = "test"

RequestInv(r) == Begun(r) /\ RowRead(r) /\ Written(r) /\ Judged(r)

\* A row and its credentials belong together, and to one tenant.
RowsInv == \A c \in Connections : rows[c] # None =>
    /\ Created(c)
    /\ rows[c].company = Owner(c)
    /\ rows[c].secret = KeyOf(c)
    /\ c # Legacy => secrets[c] # None

\* Credentials were saved by the creation of their connection.
SecretsInv == \A c \in Connections : secrets[c] # None =>
    c \in Requests /\ "secret" \in wrote[c] /\ ask[c] # None /\ ask[c].kind = "create"

IInv ==
    /\ TypeOK
    /\ \A r \in Requests : RequestInv(r)
    /\ RowsInv /\ SecretsInv /\ SecretsAccounted
    /\ SuccessIsTrue /\ TenantsApart /\ HealthEarned

LEMMA InitInv == Init => IInv
<1> SUFFICES ASSUME Init PROVE IInv
  OBVIOUS
<1> USE RouteConstants DEF Init, Connections
<1>1. TypeOK
  BY DEF TypeOK, Row, AuthModes, Stages
<1>2. \A r \in Requests : RequestInv(r)
  BY DEF RequestInv, Begun, RowRead, Written, Judged
<1>3. RowsInv /\ SecretsInv /\ SecretsAccounted
  BY DEF RowsInv, SecretsInv, SecretsAccounted, Created, Owner, KeyOf
<1>4. SuccessIsTrue /\ TenantsApart /\ HealthEarned
  BY DEF SuccessIsTrue, TenantsApart, HealthEarned
<1> QED BY <1>1, <1>2, <1>3, <1>4 DEF IInv

-----------------------------------------------------------------------------
(* Types.                                                                  *)

\* What a client asks has the fields its kind needs.
LEMMA AskType ==
    ASSUME NEW a \in Asks
    PROVE  /\ a \in Ask /\ a # None
           /\ a.company \in Companies
           /\ a.change \in AuthModes \cup { "label", None }
           /\ a.creds \in {None} \cup SUBSET Fields
           /\ a.kind = "create" => a.change \in AuthModes /\ a.creds \in SUBSET Fields
BY RouteConstants DEF Ask

\* A column that is set leaves the others alone.
LEMMA RowWith ==
    ASSUME NEW x \in Row
    PROVE  /\ \A m \in AuthModes :
                 /\ WithMode(x, m) \in Row
                 /\ WithMode(x, m).company = x.company
                 /\ WithMode(x, m).secret = x.secret
                 /\ WithMode(x, m).health = x.health
           /\ \A h \in { None, "ok", "error" } :
                 /\ WithHealth(x, h) \in Row
                 /\ WithHealth(x, h).company = x.company
                 /\ WithHealth(x, h).secret = x.secret
                 /\ WithHealth(x, h).health = h
BY DEF Row, WithMode, WithHealth

\* The credentials of a connection bear its id; Legacy has none.
LEMMA Key ==
    ASSUME NEW c \in Connections
    PROVE  IF c = Legacy THEN KeyOf(c) = None ELSE KeyOf(c) = c /\ c # None /\ c \in Requests
BY RouteConstants DEF KeyOf, Connections

\* What a request is about, once it has read its row.
LEMMA Target ==
    ASSUME IInv, NEW r \in Requests, row[r] # None
    PROVE  /\ ask[r] \in Asks /\ ask[r] # None /\ ask[r].kind # "create"
           /\ on[r] \in Connections /\ Created(on[r])
           /\ row[r] \in Row /\ row[r].mode \in AuthModes
           /\ row[r].secret = KeyOf(on[r]) /\ Owner(on[r]) = ask[r].company
<1>1. RowRead(r) /\ Begun(r) /\ TypeOK
  BY DEF IInv, RequestInv
<1>2. ask[r] \in Asks /\ ask[r] # None /\ ask[r].kind # "create"
  BY <1>1 DEF RowRead, TypeOK
<1>3. on[r] \in Connections /\ Created(on[r])
  BY <1>1, <1>2 DEF Begun
<1>4. row[r] \in Row
  BY <1>1 DEF TypeOK
<1> QED BY <1>1, <1>2, <1>3, <1>4 DEF RowRead, Row

\* A step of a request keeps the types.
LEMMA TypeStep ==
    ASSUME IInv, NEW r \in Requests, RequestNext(r)
    PROVE  TypeOK'
<1> USE RouteConstants DEF IInv, TypeOK, Connections, Goto, Answer, Wrote, Stages, InFlight
<1> RequestInv(r)
  OBVIOUS
<1> USE DEF RequestInv
<1>1. ASSUME NEW a \in Asks, Arrive(r, a) PROVE TypeOK'
  BY <1>1, AskType DEF Arrive, Create, About, Known, tables
<1>2. CASE Save(r)
  BY <1>2, AskType DEF Save, Begun
<1>3. CASE Insert(r)
  BY <1>3, AskType, SMTT(40) DEF Insert, Begun, Row
<1>4. CASE RollBack(r)
  BY <1>4 DEF RollBack, Discard
<1>5. CASE Read(r)
  BY <1>5 DEF Read, Visible, Credit, Begun, tables
<1>6. CASE Update(r)
  <2>1. row[r] # None /\ on[r] \in Connections
    BY <1>6, Target DEF Update, RowRead
  <2>2. rows' \in [ Connections -> {None} \cup Row ]
    <3>1. rows[on[r]] # None /\ ask[r].change \in AuthModes =>
             WithMode(rows[on[r]], ask[r].change) \in Row
      BY <2>1, RowWith
    <3> QED BY <1>6, <2>1, <3>1 DEF Update
  <2>3. wrote' \in [ Requests -> SUBSET { "row", "secret" } ]
    BY <1>6 DEF Update
  <2>4. stage' \in [ Requests -> Stages ] /\ reply' \in [ Requests -> Nat \cup {None} ]
    BY <1>6 DEF Update, Credit
  <2> QED BY <1>6, <2>2, <2>3, <2>4 DEF Update
<1>7. CASE Store(r)
  <2>1. on[r] \in Requests /\ row[r].secret = on[r] /\ ask[r].creds \in SUBSET Fields
    BY <1>7, Target, Key, AskType DEF Store, RowRead, Written
  <2>2. secrets' \in [ Connections -> {None} \cup SUBSET Fields ]
    BY <1>7, <2>1 DEF Store
  <2>3. wrote' \in [ Requests -> SUBSET { "row", "secret" } ]
    BY <1>7 DEF Store
  <2> QED BY <1>7, <2>2, <2>3 DEF Store
<1>8. CASE Return(r)
  BY <1>8 DEF Return, tables
<1>9. CASE Delete(r)
  <2>1. on[r] \in Connections
    BY <1>9, Target DEF Delete, RowRead
  <2> QED BY <1>9, <2>1 DEF Delete
<1>10. CASE Purge(r)
  BY <1>10 DEF Purge, Discard, Begun, RowRead, KeyOf
<1>11. CASE Resolve(r)
  BY <1>11 DEF Resolve, Visible, Begun, tables
<1>12. CASE Load(r)
  BY <1>12 DEF Load, tables
<1>13. CASE Fetch(r)
  BY <1>13 DEF Fetch, tables
<1>14. CASE TokenFails(r)
  BY <1>14 DEF TokenFails, tables
<1>15. CASE Stamp(r)
  <2>1. row[r] # None /\ on[r] \in Connections /\ verdict[r] \in { None, "ok", "error" }
    BY <1>15, Target DEF Stamp, RowRead
  <2>2. rows' \in [ Connections -> {None} \cup Row ]
    BY <1>15, <2>1, RowWith DEF Stamp
  <2>3. wrote' \in [ Requests -> SUBSET { "row", "secret" } ]
    BY <1>15 DEF Stamp
  <2> QED BY <1>15, <2>2, <2>3, ZenonT(60) DEF Stamp
<1>16. CASE Cut(r)
  BY <1>16 DEF Cut, Holds, Begun, RowRead, KeyOf
<1> QED
  BY <1>1, <1>2, <1>3, <1>4, <1>5, <1>6, <1>7, <1>8, <1>9, <1>10,
     <1>11, <1>12, <1>13, <1>14, <1>15, <1>16 DEF RequestNext

-----------------------------------------------------------------------------
(* What a step does, seen from each part of the state.                     *)

\* A step of r is nobody else's.
Others(r) == \A q \in Requests \ {r} :
    /\ stage'[q] = stage[q] /\ ask'[q] = ask[q] /\ on'[q] = on[q]
    /\ row'[q] = row[q] /\ verdict'[q] = verdict[q]
    /\ wrote'[q] = wrote[q] /\ reply'[q] = reply[q]

\* What r is about, and the health it has judged, it never changes; what it
\* has written it has written.
Own(r) ==
    /\ ask[r] # None => ask'[r] = ask[r] /\ on'[r] = on[r]
    /\ verdict[r] # None => verdict'[r] = verdict[r]
    /\ wrote[r] \subseteq wrote'[r]

\* A row appears by an INSERT and goes by a DELETE; between the two its tenant
\* and its credentials stay, and its health is changed by a test or a sync.
RowsStep(r) == \A c \in Connections :
    /\ rows[c] = None /\ rows'[c] # None =>
          /\ c = r /\ stage[r] = "inserting" /\ stage'[r] = "returning"
          /\ rows'[c].company = ask[r].company /\ rows'[c].secret = r
          /\ rows'[c].health = None
          /\ "row" \in wrote'[r] /\ secrets' = secrets
    /\ rows[c] # None /\ rows'[c] = None =>
          stage[r] = "deleting" /\ c = on[r]
    /\ rows[c] # None /\ rows'[c] # None =>
          /\ rows'[c].company = rows[c].company /\ rows'[c].secret = rows[c].secret
          /\ \/ rows'[c].health = rows[c].health
             \/ /\ c = on[r] /\ stage[r] = "stamping" /\ "row" \in wrote'[r]
                /\ rows'[c].health = verdict[r]

\* Credentials appear by the save of a POST and go by its rollback or by a
\* purge.
SecretsStep(r) ==
    /\ \A c \in Connections :
          /\ secrets[c] = None /\ secrets'[c] # None =>
                /\ c = r /\ stage[r] = "saving" /\ stage'[r] = "inserting"
                /\ "secret" \in wrote'[r]
          /\ secrets[c] # None /\ secrets'[c] = None =>
                \/ stage[r] = "rolling_back" /\ c = r
                \/ stage[r] = "purging" /\ c = on[r]
    /\ abandoned \subseteq abandoned'

LEMMA OthersStep ==
    ASSUME IInv, NEW r \in Requests, RequestNext(r)
    PROVE  Others(r)
<1> TypeOK
  BY DEF IInv
<1> USE DEF TypeOK, Others, Goto, Answer, Wrote, tables
<1>1. ASSUME NEW a \in Asks, Arrive(r, a) PROVE Others(r)
  BY <1>1 DEF Arrive, Create, About
<1>2. CASE Save(r) \/ Insert(r) \/ RollBack(r)
  BY <1>2 DEF Save, Insert, RollBack
<1>3. CASE Read(r) \/ Update(r)
  BY <1>3 DEF Read, Update, Credit
<1>4. CASE Store(r) \/ Return(r) \/ Delete(r) \/ Purge(r)
  BY <1>4 DEF Store, Return, Delete, Purge
<1>5. CASE Resolve(r) \/ Load(r) \/ Fetch(r) \/ TokenFails(r)
  BY <1>5 DEF Resolve, Load, Fetch, TokenFails
<1>6. CASE Stamp(r) \/ Cut(r)
  BY <1>6 DEF Stamp, Cut
<1> QED BY <1>1, <1>2, <1>3, <1>4, <1>5, <1>6 DEF RequestNext

LEMMA OwnStep ==
    ASSUME IInv, NEW r \in Requests, RequestNext(r)
    PROVE  Own(r)
<1> TypeOK /\ RequestInv(r)
  BY DEF IInv
<1> USE DEF TypeOK, Own, Goto, Answer, Wrote, tables
<1>1. ASSUME NEW a \in Asks, Arrive(r, a) PROVE Own(r)
  BY <1>1 DEF Arrive, RequestInv, Begun
<1>2. CASE Save(r) \/ Insert(r) \/ RollBack(r)
  BY <1>2 DEF Save, Insert, RollBack
<1>3. CASE Read(r) \/ Update(r)
  BY <1>3 DEF Read, Update
<1>4. CASE Store(r) \/ Return(r) \/ Delete(r) \/ Purge(r)
  BY <1>4 DEF Store, Return, Delete, Purge
<1>5. CASE Resolve(r) \/ Load(r) \/ TokenFails(r)
  BY <1>5 DEF Resolve, Load, TokenFails
<1>6. CASE Fetch(r)
  BY <1>6 DEF Fetch, RequestInv, Judged
<1>7. CASE Stamp(r) \/ Cut(r)
  BY <1>7 DEF Stamp, Cut
<1> QED BY <1>1, <1>2, <1>3, <1>4, <1>5, <1>6, <1>7 DEF RequestNext

LEMMA RowsChange ==
    ASSUME IInv, NEW r \in Requests, RequestNext(r)
    PROVE  RowsStep(r)
<1> TypeOK /\ RequestInv(r)
  BY DEF IInv
<1>1. CASE rows' = rows
  BY <1>1 DEF RowsStep
<1>2. CASE Insert(r)
  <2>1. rows[r] = None
    <3>1. "row" \notin wrote[r]
      BY <1>2 DEF Insert, RequestInv, Written
    <3> QED BY <3>1, RouteConstants DEF IInv, RowsInv, Created, Connections
  <2> QED BY <1>2, <2>1 DEF Insert, RowsStep, TypeOK, Connections, Goto, Wrote
<1>3. CASE Update(r)
  <2>1. row[r] # None /\ on[r] \in Connections
    BY <1>3, Target DEF Update, RequestInv, RowRead
  <2>2. rows[on[r]] # None => rows[on[r]] \in Row
    BY <2>1 DEF TypeOK
  <2>3. ASSUME rows[on[r]] # None, ask[r].change \in AuthModes,
               rows' = [ rows EXCEPT ![on[r]] = WithMode(@, ask[r].change) ]
        PROVE  RowsStep(r)
    <3> DEFINE new == WithMode(rows[on[r]], ask[r].change)
    <3>1. /\ new \in Row /\ new # None /\ new.company = rows[on[r]].company
          /\ new.secret = rows[on[r]].secret /\ new.health = rows[on[r]].health
      BY <2>2, <2>3, RowWith, RouteConstants
    <3>2. rows' = [ rows EXCEPT ![on[r]] = new ]
      BY <2>3
    <3> HIDE DEF new
    <3> QED BY <2>1, <2>3, <3>1, <3>2 DEF RowsStep, TypeOK
  <2> QED BY <1>1, <1>3, <2>3 DEF Update
<1>4. CASE Delete(r)
  BY <1>4 DEF Delete, RowsStep, TypeOK
<1>5. CASE Stamp(r)
  <2>1. row[r] # None /\ on[r] \in Connections /\ verdict[r] \in { None, "ok", "error" }
    BY <1>5, Target DEF Stamp, RequestInv, RowRead, TypeOK
  <2>2. rows[on[r]] # None => rows[on[r]] \in Row
    BY <2>1 DEF TypeOK
  <2>3. ASSUME rows[on[r]] # None, Wrote(r, "row"),
               rows' = [ rows EXCEPT ![on[r]] = WithHealth(@, verdict[r]) ]
        PROVE  RowsStep(r)
    <3>1. "row" \in wrote'[r]
      BY <2>3 DEF Wrote, TypeOK
    <3> QED BY <1>5, <2>1, <2>2, <2>3, <3>1, RowWith, RouteConstants
            DEF RowsStep, TypeOK, Stamp
  <2> QED BY <1>1, <1>5, <2>3 DEF Stamp
<1>6. ASSUME NEW a \in Asks, Arrive(r, a) PROVE rows' = rows
  BY <1>6 DEF Arrive, tables
<1>7. CASE Cut(r) \/ Save(r) \/ RollBack(r) \/ Read(r) \/ Store(r) \/ Return(r) \/ Purge(r)
  BY <1>1, <1>7 DEF Cut, Save, RollBack, Read, Store, Return, Purge, tables
<1>8. CASE Resolve(r) \/ Load(r) \/ Fetch(r) \/ TokenFails(r)
  BY <1>1, <1>8 DEF Resolve, Load, Fetch, TokenFails, tables
<1> QED
  BY <1>1, <1>2, <1>3, <1>4, <1>5, <1>6, <1>7, <1>8 DEF RequestNext

LEMMA SecretsChange ==
    ASSUME IInv, NEW r \in Requests, RequestNext(r)
    PROVE  SecretsStep(r)
<1> TypeOK /\ RequestInv(r)
  BY DEF IInv
<1>1. CASE UNCHANGED << secrets, abandoned >>
  BY <1>1 DEF SecretsStep
<1>2. CASE Save(r)
  <2>1. stage'[r] = "inserting" /\ "secret" \in wrote'[r]
    BY <1>2 DEF Save, TypeOK, Goto, Wrote
  <2>2. ask[r] # None /\ ask[r] \in Asks /\ ask[r].kind = "create"
    BY <1>2 DEF Save, RequestInv, Begun, TypeOK
  <2>3. ask[r].creds # None
    BY <2>2, RouteConstants
  <2> QED BY <1>2, <2>1, <2>3 DEF Save, SecretsStep, TypeOK
<1>3. CASE RollBack(r)
  BY <1>3 DEF RollBack, Discard, SecretsStep, TypeOK
<1>4. CASE Store(r)
  <2>1. on[r] \in Connections /\ row[r].secret = on[r]
    BY <1>4, Target, Key DEF Store, RequestInv, RowRead
  <2>2. ask[r].creds # None /\ ask[r].creds \in SUBSET Fields
    BY <1>4, Target, AskType DEF Store, RequestInv, RowRead, Written
  <2>3. secrets[on[r]] # None => secrets[on[r]] \in SUBSET Fields
    BY <2>1 DEF TypeOK
  <2>4. ASSUME secrets[on[r]] # None,
               NEW keys \in { ask[r].creds, secrets[on[r]] \cup ask[r].creds },
               secrets' = [ secrets EXCEPT ![on[r]] = keys ], abandoned' = abandoned
        PROVE  SecretsStep(r)
    <3>1. keys \in SUBSET Fields
      BY <2>2, <2>3, <2>4
    <3>2. keys # None
      BY <3>1, RouteConstants
    <3> QED BY <2>1, <2>4, <3>2 DEF SecretsStep, TypeOK
  <2> QED BY <1>1, <1>4, <2>1, <2>4 DEF Store
<1>5. CASE Purge(r)
  <2>1. on[r] \in Connections /\ row[r].secret = on[r]
    BY <1>5, Target, Key DEF Purge, RequestInv, RowRead
  <2> QED BY <1>5, <2>1 DEF Purge, Discard, SecretsStep, TypeOK
<1>6. CASE Cut(r)
  BY <1>6 DEF Cut, SecretsStep
<1>7. ASSUME NEW a \in Asks, Arrive(r, a) PROVE UNCHANGED << secrets, abandoned >>
  BY <1>7 DEF Arrive, tables
<1>8. CASE Insert(r) \/ Read(r) \/ Update(r) \/ Return(r) \/ Delete(r)
  BY <1>1, <1>8 DEF Insert, Read, Update, Return, Delete, tables
<1>9. CASE Resolve(r) \/ Load(r) \/ Fetch(r) \/ TokenFails(r) \/ Stamp(r)
  BY <1>1, <1>9 DEF Resolve, Load, Fetch, TokenFails, Stamp, tables
<1> QED
  BY <1>1, <1>2, <1>3, <1>4, <1>5, <1>6, <1>7, <1>8, <1>9 DEF RequestNext

-----------------------------------------------------------------------------
(* What a step leaves alone.                                               *)

\* A connection that has existed keeps its tenant, and its creation is over: if
\* it is gone it stays gone.
LEMMA Stays ==
    ASSUME IInv, NEW r \in Requests, RequestNext(r), NEW c \in Connections, Created(c)
    PROVE  /\ Created(c)' /\ Owner(c)' = Owner(c)
           /\ rows[c] = None => rows'[c] = None
           /\ c = r => stage[r] \notin { "saving", "inserting", "rolling_back" }
<1>1. Others(r) /\ Own(r) /\ RowsStep(r)
  BY OthersStep, OwnStep, RowsChange
<1>2. c = r => stage[r] \notin { "saving", "inserting", "rolling_back" }
  BY RouteConstants DEF IInv, RequestInv, Written, Created
<1>3. rows[c] = None => rows'[c] = None
  BY <1>1, <1>2 DEF RowsStep
<1>4. CASE c = Legacy
  BY <1>2, <1>3, <1>4 DEF Created, Owner
<1>5. CASE c # Legacy
  <2>1. c \in Requests /\ ask[c] # None /\ "row" \in wrote[c]
    BY <1>5 DEF Created
  <2>2. ask'[c] = ask[c] /\ "row" \in wrote'[c]
    BY <1>1, <2>1 DEF Others, Own
  <2> QED BY <1>2, <1>3, <1>5, <2>1, <2>2 DEF Created, Owner
<1> QED BY <1>4, <1>5

\* A step of r does not disturb what another request relies on.
LEMMA OtherRequests ==
    ASSUME IInv, NEW r \in Requests, RequestNext(r), NEW q \in Requests, q # r
    PROVE  RequestInv(q)'
<1>1. /\ stage'[q] = stage[q] /\ ask'[q] = ask[q] /\ on'[q] = on[q]
      /\ row'[q] = row[q] /\ verdict'[q] = verdict[q]
      /\ wrote'[q] = wrote[q] /\ reply'[q] = reply[q]
  BY OthersStep DEF Others
<1>2. Begun(q) /\ RowRead(q) /\ Written(q) /\ Judged(q)
  BY DEF IInv, RequestInv
<1>3. ASSUME ask[q] # None, ask[q].kind # "create"
      PROVE  /\ on[q] \in Connections /\ Created(on[q]) /\ Created(on[q])'
             /\ Owner(on[q])' = Owner(on[q])
             /\ rows[on[q]] = None => rows'[on[q]] = None
  <2>1. on[q] \in Connections /\ Created(on[q])
    BY <1>2, <1>3 DEF Begun
  <2>2. \A c \in Connections : Created(c) =>
           /\ Created(c)' /\ Owner(c)' = Owner(c)
           /\ rows[c] = None => rows'[c] = None
    BY Stays
  <2>3. Created(on[q])' /\ Owner(on[q])' = Owner(on[q])
    BY <1>1, <2>1, <2>2 DEF Created, Owner
  <2> QED BY <2>1, <2>2, <2>3
<1>4. Begun(q)'
  BY <1>1, <1>2, <1>3 DEF Begun
<1>5. RowRead(q)'
  BY <1>1, <1>2, <1>3 DEF RowRead, KeyOf
<1>6. Written(q)'
  <2>1. stage[q] \in { "inserting", "rolling_back" } => secrets'[q] # None
    <3> SUFFICES ASSUME stage[q] \in { "inserting", "rolling_back" } PROVE secrets'[q] # None
      OBVIOUS
    <3>1. secrets[q] # None /\ "row" \notin wrote[q]
      BY <1>2 DEF Written
    <3>2. ~Created(q)
      BY <3>1, RouteConstants DEF Created
    <3>3. stage[r] = "purging" => on[r] # q
      BY <3>2, Target DEF IInv, RequestInv, RowRead
    <3> QED BY <3>1, <3>3, SecretsChange DEF SecretsStep, Connections
  <2>2. stage[q] \in { "storing", "returning" } => ask[q] # None
    BY <1>2 DEF Begun
  <2>3. stage[q] = "storing" => ask[q].kind # "create"
    BY <1>2 DEF Begun
  <2>4. Wanted(q)' = Wanted(q)
    BY <1>1 DEF Wanted
  <2> QED BY <1>1, <1>2, <1>3, <2>1, <2>2, <2>3, <2>4 DEF Written
<1>7. Judged(q)'
  BY <1>1, <1>2 DEF Judged
<1> QED BY <1>4, <1>5, <1>6, <1>7 DEF RequestInv

\* What a request in flight keeps: itself, and what it is about.
LEMMA Keeps ==
    ASSUME IInv, NEW r \in Requests, RequestNext(r), stage[r] \in InFlight
    PROVE  /\ ask[r] # None /\ ask[r] \in Asks /\ reply[r] = None
           /\ ask'[r] = ask[r] /\ on'[r] = on[r]
           /\ ask[r].kind = "create" => on[r] = r
           /\ ask[r].kind # "create" =>
                 /\ on[r] \in Connections /\ Created(on[r]) /\ Created(on[r])'
                 /\ Owner(on[r])' = Owner(on[r])
                 /\ rows[on[r]] = None => rows'[on[r]] = None
<1>1. Begun(r) /\ TypeOK
  BY DEF IInv, RequestInv
<1>2. ask[r] # None /\ ask[r] \in Asks /\ reply[r] = None
  BY <1>1 DEF Begun, TypeOK, InFlight
<1>3. ask'[r] = ask[r] /\ on'[r] = on[r]
  BY <1>2, OwnStep DEF Own
<1>4. CASE ask[r].kind = "create"
  BY <1>1, <1>2, <1>3, <1>4 DEF Begun
<1>5. CASE ask[r].kind # "create"
  <2>1. on[r] \in Connections /\ Created(on[r])
    BY <1>1, <1>2, <1>5 DEF Begun
  <2>2. \A c \in Connections : Created(c) =>
           /\ Created(c)' /\ Owner(c)' = Owner(c)
           /\ rows[c] = None => rows'[c] = None
    BY Stays
  <2>3. Created(on[r])' /\ Owner(on[r])' = Owner(on[r])
    BY <1>3, <2>1, <2>2 DEF Created, Owner
  <2> QED BY <1>2, <1>3, <1>5, <2>1, <2>2, <2>3
<1> QED BY <1>4, <1>5

\* A request that arrives relies on nothing but a connection that has existed.
LEMMA Arrives ==
    ASSUME IInv, NEW r \in Requests, NEW a \in Asks, Arrive(r, a)
    PROVE  RequestInv(r)'
<1>1. TypeOK /\ Begun(r) /\ RowRead(r) /\ Written(r) /\ Judged(r)
  BY DEF IInv, RequestInv
<1>2. stage[r] = "idle" /\ a # None /\ a \in Ask
  BY AskType DEF Arrive
<1>3. ask[r] = None /\ on[r] = None /\ row[r] = None /\ verdict[r] = None
      /\ wrote[r] = {} /\ reply[r] = None
  BY <1>1, <1>2 DEF Begun, RowRead, Written, Judged, TypeOK
<1>4. ask'[r] = a /\ row'[r] = None /\ verdict'[r] = None /\ wrote'[r] = {}
  BY <1>1, <1>3 DEF Arrive, TypeOK, tables
<1>5. CASE Create(r, a)
  <2>1. a.kind = "create" /\ on'[r] = r
    BY <1>1, <1>5 DEF Create, TypeOK
  <2>2. \/ stage'[r] = "saving" /\ reply'[r] = None
        \/ stage'[r] = "answered"
    BY <1>1, <1>3, <1>5 DEF Create, Goto, Answer, TypeOK
  <2> QED BY <1>2, <1>4, <2>1, <2>2, RouteConstants
          DEF RequestInv, Begun, RowRead, Written, Judged
<1>6. ASSUME NEW c \in Known, About(r, a, c) PROVE RequestInv(r)'
  <2>1. on'[r] = c
    BY <1>1, <1>6 DEF About, TypeOK
  <2>2. c \in Connections /\ Created(c)'
    <3>1. CASE c = Legacy
      BY <3>1 DEF Created, Connections
    <3>2. CASE c # Legacy
      <4>1. c \in Requests /\ "row" \in wrote[c] /\ ask[c].kind = "create"
        BY <1>6, <3>2 DEF Known
      <4>2. stage[c] # "idle" /\ ask[c] # None
        BY <4>1 DEF IInv, RequestInv, Begun, Written
      <4>3. ask'[c] = ask[c] /\ wrote'[c] = wrote[c]
        BY <1>1, <1>2, <4>2 DEF Arrive, TypeOK
      <4> QED BY <4>1, <4>2, <4>3 DEF Created, Connections
    <3> QED BY <3>1, <3>2
  <2>3. Created(on[r])'
    BY <2>1, <2>2 DEF Created
  <2>4. /\ \/ a.kind \in { "patch", "delete" } /\ stage'[r] = "reading"
           \/ a.kind \in { "test", "sync" } /\ stage'[r] = "resolving"
        /\ reply'[r] = None
    BY <1>1, <1>3, <1>6 DEF About, Goto, TypeOK
  <2> QED BY <1>2, <1>4, <2>1, <2>2, <2>3, <2>4, RouteConstants
          DEF RequestInv, Begun, RowRead, Written, Judged
<1> QED BY <1>5, <1>6 DEF Arrive

\* A creation goes on with what it has written.
LEMMA Creates ==
    ASSUME IInv, NEW r \in Requests, Save(r) \/ Insert(r) \/ RollBack(r)
    PROVE  RequestInv(r)'
<1>0. RequestNext(r)
  BY DEF RequestNext
<1>1. TypeOK /\ Begun(r) /\ RowRead(r) /\ Written(r) /\ Judged(r)
  BY DEF IInv, RequestInv
<1>2. /\ stage[r] \in InFlight /\ ask[r].kind = "create"
      /\ row[r] = None /\ verdict[r] = None
  BY <1>1 DEF Save, Insert, RollBack, InFlight, Begun, RowRead, Judged
<1>3. /\ ask[r] # None /\ ask[r] \in Asks /\ reply[r] = None
      /\ ask'[r] = ask[r] /\ on'[r] = r
  BY <1>0, <1>2, Keeps
<1>4. row'[r] = None /\ verdict'[r] = None
  BY <1>2 DEF Save, Insert, RollBack
<1> USE DEF RequestInv, Begun, RowRead, Written, Judged
<1>5. CASE Save(r)
  <2>1. stage'[r] = "inserting" /\ reply'[r] = None /\ wrote'[r] = { "secret" }
    BY <1>1, <1>3, <1>5 DEF Save, Goto, Wrote, TypeOK
  <2>2. secrets'[r] # None
    BY <1>1, <1>2, <1>3, <1>5, RouteConstants DEF Save, TypeOK, Connections
  <2> QED BY <1>2, <1>3, <1>4, <2>1, <2>2, RouteConstants
<1>6. CASE Insert(r)
  <2>1. wrote[r] = { "secret" } /\ secrets'[r] # None
    BY <1>1, <1>6 DEF Insert
  <2>2. /\ \/ stage'[r] = "returning" /\ wrote'[r] = { "row", "secret" }
           \/ stage'[r] = "rolling_back" /\ wrote'[r] = { "secret" }
        /\ reply'[r] = None
    BY <1>1, <1>3, <1>6, <2>1 DEF Insert, Goto, Wrote, TypeOK
  <2> QED BY <1>2, <1>3, <1>4, <2>1, <2>2, RouteConstants
<1>7. CASE RollBack(r)
  <2>1. stage'[r] = "answered"
    BY <1>1, <1>7 DEF RollBack, Answer, TypeOK
  <2> QED BY <1>2, <1>3, <1>4, <2>1, RouteConstants
<1> QED BY <1>5, <1>6, <1>7

\* Where PATCH goes on after its UPDATE, and with what.
LEMMA Credits ==
    ASSUME TypeOK, NEW r \in Requests, NEW old, Credit(r, old), reply[r] = None
    PROVE  \/ stage'[r] = "answered"
           \/ stage'[r] = "returning" /\ reply'[r] = None /\ ask[r].creds = None
           \/ /\ stage'[r] = "storing" /\ reply'[r] = None
              /\ ask[r].creds # None /\ old.secret # None
BY DEF TypeOK, Credit, Goto, Answer

\* A request that reads a row reads one of its own tenant's.
LEMMA Reads ==
    ASSUME IInv, NEW r \in Requests, Read(r) \/ Resolve(r)
    PROVE  RequestInv(r)'
<1>0. RequestNext(r)
  BY DEF RequestNext
<1>1. TypeOK /\ Begun(r) /\ RowRead(r) /\ Written(r) /\ Judged(r)
  BY DEF IInv, RequestInv
<1>2. /\ stage[r] \in InFlight /\ ask[r].kind # "create"
      /\ wrote[r] = {} /\ verdict[r] = None
  BY <1>1 DEF Read, Resolve, InFlight, Begun, Written, Judged
<1>3. /\ ask[r] # None /\ ask[r] \in Asks /\ reply[r] = None
      /\ ask'[r] = ask[r] /\ on'[r] = on[r] /\ on[r] \in Connections
      /\ Created(on[r])' /\ Owner(on[r])' = Owner(on[r])
  BY <1>0, <1>2, Keeps
<1>4. wrote'[r] = {} /\ verdict'[r] = None
  BY <1>2 DEF Read, Resolve
<1>5. IF Visible(r, on[r])
      THEN row'[r] # None /\ row'[r].secret = KeyOf(on[r]) /\ Owner(on[r]) = ask[r].company
      ELSE row'[r] = row[r] /\ stage'[r] = "answered"
  BY <1>1, <1>3 DEF Read, Resolve, Visible, Answer, TypeOK, IInv, RowsInv
<1>6. rows[on[r]] # None => rows[on[r]].secret = KeyOf(on[r])
  BY <1>3 DEF IInv, RowsInv
<1>7. KeyOf(on[r])' = KeyOf(on[r]) /\ (KeyOf(on[r]) # None => on[r] # Legacy)
  BY <1>3 DEF KeyOf
<1> USE DEF RequestInv, Begun, RowRead, Written, Judged
<1>8. CASE stage'[r] = "answered"
  BY <1>1, <1>2, <1>3, <1>4, <1>5, <1>7, <1>8
<1>9. CASE Read(r) /\ stage'[r] # "answered"
  <2>1. Visible(r, on[r])
    BY <1>5, <1>9
  <2>2. /\ reply'[r] = None
        /\ \/ stage'[r] = "deleting" /\ ask[r].kind = "delete"
           \/ stage'[r] = "updating" /\ ask[r].kind = "patch" /\ ask[r].change # None
           \/ /\ stage'[r] \in { "returning", "storing" }
              /\ ask[r].kind = "patch" /\ ask[r].change = None
    BY <1>1, <1>3, <1>9, <2>1, Credits DEF Read, Goto, TypeOK
  <2>3. /\ stage'[r] = "returning" => ask[r].creds = None
        /\ stage'[r] = "storing" => ask[r].creds # None /\ on[r] # Legacy
    BY <1>1, <1>3, <1>6, <1>7, <1>9, <2>1, Credits DEF Read, Goto, TypeOK, Visible
  <2>4. stage'[r] = "returning" => Wanted(r)' = {}
    BY <1>3, <2>2, <2>3 DEF Wanted
  <2> QED BY <1>1, <1>2, <1>3, <1>4, <1>5, <1>7, <1>9, <2>1, <2>2, <2>3, <2>4
<1>10. CASE Resolve(r) /\ stage'[r] # "answered"
  <2>1. Visible(r, on[r])
    BY <1>5, <1>10
  <2>2. stage'[r] = "loading" /\ reply'[r] = None /\ on[r] # Legacy
    BY <1>1, <1>3, <1>6, <1>7, <1>10, <2>1 DEF Resolve, Goto, Answer, Visible, TypeOK
  <2>3. ask[r].kind \in { "test", "sync" }
    BY <1>1, <1>10 DEF Resolve
  <2> QED BY <1>1, <1>2, <1>3, <1>4, <1>5, <1>7, <1>10, <2>1, <2>2, <2>3
<1> QED BY <1>8, <1>9, <1>10

\* PATCH writes what it is asked to, unless a DELETE has overtaken it.
LEMMA Patches ==
    ASSUME IInv, NEW r \in Requests, Update(r) \/ Store(r) \/ Return(r)
    PROVE  RequestInv(r)'
<1>0. RequestNext(r)
  BY DEF RequestNext
<1>1. TypeOK /\ Begun(r) /\ RowRead(r) /\ Written(r) /\ Judged(r)
  BY DEF IInv, RequestInv
<1>2. stage[r] \in InFlight /\ verdict[r] = None
  BY <1>1 DEF Update, Store, Return, InFlight, Judged
<1>3. /\ ask[r] # None /\ ask[r] \in Asks /\ reply[r] = None
      /\ ask'[r] = ask[r] /\ on'[r] = on[r]
      /\ ask[r].kind = "create" => on[r] = r
      /\ ask[r].kind # "create" =>
            /\ on[r] \in Connections /\ Created(on[r])'
            /\ Owner(on[r])' = Owner(on[r])
            /\ rows'[on[r]] # None => rows[on[r]] # None
  BY <1>0, <1>2, Keeps
<1>4. row'[r] = row[r] /\ verdict'[r] = None /\ Wanted(r)' = Wanted(r)
      /\ KeyOf(on[r])' = KeyOf(on[r])
  BY <1>2, <1>3 DEF Update, Store, Return, Wanted, KeyOf
<1> USE DEF RequestInv, Begun, RowRead, Written, Judged
<1>5. CASE stage'[r] = "answered"
  BY <1>1, <1>2, <1>3, <1>4, <1>5
<1>6. CASE Update(r) /\ stage'[r] # "answered"
  <2>1. /\ ask[r].kind = "patch" /\ row[r] # None /\ ask[r].change # None
        /\ wrote[r] = {} /\ row[r].secret = KeyOf(on[r])
    BY <1>1, <1>6 DEF Update
  <2>2. /\ reply'[r] = None
        /\ \/ stage'[r] = "returning" /\ ask[r].creds = None
           \/ stage'[r] = "storing" /\ ask[r].creds # None /\ on[r] # Legacy
    BY <1>1, <1>3, <1>6, <2>1, Credits DEF Update, KeyOf
  <2>3. rows[on[r]] # None => wrote'[r] = { "row" }
    BY <1>1, <1>6, <2>1 DEF Update, Wrote, TypeOK
  <2>4. ask[r].creds = None => Wanted(r) = { "row" }
    BY <2>1 DEF Wanted
  <2> QED BY <1>1, <1>2, <1>3, <1>4, <1>6, <2>1, <2>2, <2>3, <2>4
<1>7. CASE Store(r)
  <2>1. /\ ask[r].kind = "patch" /\ row[r] # None /\ ask[r].creds # None
        /\ on[r] # Legacy /\ row[r].secret = on[r]
    BY <1>1, <1>3, <1>7 DEF Store, KeyOf
  <2>2. stage'[r] = "returning" /\ reply'[r] = None
    BY <1>1, <1>3, <1>7 DEF Store, Goto, TypeOK
  <2>3. ASSUME rows[on[r]] # None
        PROVE  wrote'[r] = Wanted(r)
    <3>1. secrets[on[r]] # None
      BY <1>3, <2>1, <2>3 DEF IInv, RowsInv
    <3>2. wrote'[r] = wrote[r] \cup { "secret" }
      BY <1>1, <1>7, <2>1, <3>1 DEF Store, Wrote, TypeOK
    <3>3. wrote[r] \subseteq { "row" } /\ ("row" \in wrote[r] <=> ask[r].change # None)
      BY <1>1, <1>7, <2>3 DEF Store, TypeOK
    <3> QED BY <2>1, <3>2, <3>3 DEF Wanted
  <2> QED BY <1>1, <1>2, <1>3, <1>4, <1>7, <2>1, <2>2, <2>3
<1>8. CASE Return(r)
  <2>1. stage'[r] = "answered"
    BY <1>1, <1>8 DEF Return, Answer, TypeOK
  <2> QED BY <1>5, <2>1
<1> QED BY <1>5, <1>6, <1>7, <1>8

\* DELETE purges the credentials of the connection it has deleted, and a test
\* or a sync judges the one it has read.
LEMMA DeletesAndTests ==
    ASSUME IInv, NEW r \in Requests,
           \/ Delete(r) \/ Purge(r)
           \/ Load(r) \/ Fetch(r) \/ TokenFails(r) \/ Stamp(r)
    PROVE  RequestInv(r)'
<1>0. RequestNext(r)
  BY DEF RequestNext
<1>1. TypeOK /\ Begun(r) /\ RowRead(r) /\ Written(r) /\ Judged(r)
  BY DEF IInv, RequestInv
<1>2. /\ stage[r] \in InFlight /\ ask[r].kind \in { "delete", "test", "sync" }
      /\ row[r] # None
  BY <1>1 DEF Delete, Purge, Load, Fetch, TokenFails, Stamp, InFlight, Begun, RowRead
<1>3. /\ ask[r] # None /\ ask[r] \in Asks /\ reply[r] = None
      /\ ask'[r] = ask[r] /\ on'[r] = on[r] /\ on[r] \in Connections
      /\ Created(on[r])' /\ Owner(on[r])' = Owner(on[r])
  BY <1>0, <1>2, Keeps
<1>4. row'[r] = row[r] /\ KeyOf(on[r])' = KeyOf(on[r])
  BY <1>3 DEF Delete, Purge, Load, Fetch, TokenFails, Stamp, KeyOf
<1>5. stage'[r] # "stamping" => verdict'[r] = verdict[r]
  BY <1>1 DEF Delete, Purge, Load, Fetch, TokenFails, Stamp, Goto, TypeOK
<1> USE DEF RequestInv, Begun, RowRead, Written, Judged
<1>6. CASE stage'[r] = "answered"
  BY <1>1, <1>2, <1>3, <1>4, <1>5, <1>6
<1>7. CASE Delete(r) /\ stage'[r] # "answered"
  <2>1. /\ stage'[r] = "purging" /\ reply'[r] = None /\ ask[r].kind = "delete"
        /\ row[r].secret # None /\ verdict[r] = None
    BY <1>1, <1>3, <1>7 DEF Delete, Goto, Answer, TypeOK
  <2>2. on[r] # Legacy
    BY <1>1, <1>2, <2>1 DEF KeyOf
  <2>3. rows'[on[r]] = None
    BY <1>1, <1>3, <1>7 DEF Delete, TypeOK
  <2> QED BY <1>1, <1>2, <1>3, <1>4, <1>5, <2>1, <2>2, <2>3
<1>8. CASE Load(r) /\ stage'[r] # "answered"
  <2>1. /\ stage'[r] = "fetching" /\ reply'[r] = None
        /\ ask[r].kind \in { "test", "sync" } /\ verdict[r] = None
    BY <1>1, <1>3, <1>8 DEF Load, Goto, Answer, TypeOK
  <2> QED BY <1>1, <1>2, <1>3, <1>4, <1>5, <2>1
<1>9. CASE Fetch(r) /\ stage'[r] # "answered"
  <2>1. /\ stage'[r] = "stamping" /\ reply'[r] = None /\ verdict'[r] \in { "ok", "error" }
        /\ verdict'[r] = "error" => ask[r].kind = "test"
        /\ ask[r].kind \in { "test", "sync" }
    BY <1>1, <1>3, <1>9 DEF Fetch, Goto, Answer, TypeOK
  <2> QED BY <1>1, <1>2, <1>3, <1>4, <2>1, RouteConstants
<1>10. CASE Purge(r) \/ TokenFails(r) \/ Stamp(r)
  <2>1. stage'[r] = "answered"
    BY <1>1, <1>10 DEF Purge, TokenFails, Stamp, Answer, TypeOK
  <2> QED BY <1>6, <2>1
<1> QED BY <1>6, <1>7, <1>8, <1>9, <1>10

LEMMA Cuts ==
    ASSUME IInv, NEW r \in Requests, Cut(r)
    PROVE  RequestInv(r)'
<1>1. TypeOK /\ Begun(r) /\ RowRead(r) /\ Written(r) /\ Judged(r)
  BY DEF IInv, RequestInv
<1>2. RequestNext(r) /\ stage[r] \in InFlight /\ stage'[r] = "cut"
  BY <1>1 DEF RequestNext, Cut, TypeOK
<1>3. /\ ask[r] # None /\ reply[r] = None /\ ask'[r] = ask[r] /\ on'[r] = on[r]
      /\ ask[r].kind = "create" => on[r] = r
      /\ ask[r].kind # "create" =>
            /\ on[r] \in Connections /\ Created(on[r])'
            /\ Owner(on[r])' = Owner(on[r])
  BY <1>2, Keeps
<1>4. row'[r] = row[r] /\ verdict'[r] = verdict[r] /\ reply'[r] = None
      /\ KeyOf(on[r])' = KeyOf(on[r])
  BY <1>3 DEF Cut, KeyOf
<1> QED BY <1>1, <1>2, <1>3, <1>4 DEF RequestInv, Begun, RowRead, Written, Judged

LEMMA RequestStep ==
    ASSUME IInv, NEW r \in Requests, RequestNext(r)
    PROVE  \A q \in Requests : RequestInv(q)'
<1>1. RequestInv(r)'
  BY Arrives, Creates, Reads, Patches, DeletesAndTests, Cuts DEF RequestNext
<1> QED BY <1>1, OtherRequests

-----------------------------------------------------------------------------
(* The tables.                                                             *)

LEMMA RowsStay ==
    ASSUME IInv, NEW r \in Requests, RequestNext(r)
    PROVE  RowsInv'
<1> SUFFICES ASSUME NEW c \in Connections, rows'[c] # None
             PROVE  /\ Created(c)'
                    /\ rows'[c].company = Owner(c)'
                    /\ rows'[c].secret = KeyOf(c)
                    /\ c # Legacy => secrets'[c] # None
  BY DEF RowsInv, KeyOf
<1>1. Begun(r) /\ RowRead(r) /\ Written(r) /\ RowsInv /\ TypeOK
  BY DEF IInv, RequestInv
<1>2. RowsStep(r) /\ SecretsStep(r) /\ Own(r)
  BY RowsChange, SecretsChange, OwnStep
<1>3. CASE rows[c] # None
  <2>1. /\ Created(c) /\ rows[c].company = Owner(c) /\ rows[c].secret = KeyOf(c)
        /\ c # Legacy => secrets[c] # None
    BY <1>1, <1>3 DEF RowsInv
  <2>2. Created(c)' /\ Owner(c)' = Owner(c) /\ ~(stage[r] = "rolling_back" /\ c = r)
    BY <2>1, Stays
  <2>3. ~(stage[r] = "purging" /\ c = on[r])
    BY <1>1, <1>3 DEF RowRead
  <2> QED BY <1>2, <1>3, <2>1, <2>2, <2>3 DEF RowsStep, SecretsStep
<1>4. CASE rows[c] = None
  <2>1. /\ c = r /\ stage[r] = "inserting"
        /\ rows'[c].company = ask[r].company /\ rows'[c].secret = r
        /\ "row" \in wrote'[r] /\ secrets' = secrets
    BY <1>2, <1>4 DEF RowsStep
  <2>2. ask[r] # None /\ ask[r].kind = "create" /\ ask'[r] = ask[r] /\ secrets[r] # None
    BY <1>1, <1>2, <2>1 DEF Begun, Written, Own
  <2> QED BY <2>1, <2>2, RouteConstants DEF Created, Owner, KeyOf
<1> QED BY <1>3, <1>4

LEMMA SecretsStay ==
    ASSUME IInv, NEW r \in Requests, RequestNext(r)
    PROVE  SecretsInv'
<1> SUFFICES ASSUME NEW c \in Connections, secrets'[c] # None
             PROVE  /\ c \in Requests /\ "secret" \in wrote'[c]
                    /\ ask'[c] # None /\ ask'[c].kind = "create"
  BY DEF SecretsInv
<1>1. Begun(r) /\ SecretsInv
  BY DEF IInv, RequestInv
<1>2. SecretsStep(r) /\ Own(r) /\ Others(r)
  BY SecretsChange, OwnStep, OthersStep
<1>3. CASE secrets[c] # None
  BY <1>1, <1>2, <1>3 DEF SecretsInv, Own, Others
<1>4. CASE secrets[c] = None
  BY <1>1, <1>2, <1>4 DEF SecretsStep, Own, Begun
<1> QED BY <1>3, <1>4

\* What a request holds it attaches, deletes, goes on holding or abandons.
LEMMA HoldsStep ==
    ASSUME IInv, NEW r \in Requests, RequestNext(r), NEW s \in Holds(r),
           s \in Connections
    PROVE  \/ s \in Holds(r)' \/ s \in abandoned' \/ secrets'[s] = None
           \/ rows'[s] # None /\ rows'[s].secret = s
<1>1. TypeOK /\ RequestInv(r)
  BY DEF IInv
<1>2. stage[r] \in { "inserting", "rolling_back", "purging" }
  BY DEF Holds
<1>3. Insert(r) \/ RollBack(r) \/ Purge(r) \/ Cut(r)
  BY <1>2 DEF RequestNext, Arrive, Save, Insert, RollBack, Read, Update, Store, Return,
       Delete, Purge, Resolve, Load, Fetch, TokenFails, Stamp
<1>4. CASE Insert(r)
  <2>1. s = r
    BY <1>4 DEF Insert, Holds
  <2>2. \/ rows'[r].secret = r /\ rows'[r] \in Row
        \/ stage'[r] = "rolling_back"
    <3>1. ask[r] \in Asks /\ ask[r].kind = "create"
      BY <1>1, <1>4 DEF Insert, RequestInv, Begun, TypeOK
    <3> QED BY <1>1, <1>4, <2>1, <3>1, AskType, RouteConstants
            DEF Insert, TypeOK, Goto, Row
  <2> QED BY <2>1, <2>2, RouteConstants DEF Holds
<1>5. CASE RollBack(r)
  <2>1. s = r
    BY <1>5 DEF RollBack, Holds
  <2> QED BY <1>1, <1>5, <2>1 DEF RollBack, Discard, TypeOK
<1>6. CASE Purge(r)
  <2>1. s = row[r].secret
    BY <1>6 DEF Purge, Holds
  <2> QED BY <1>1, <1>6, <2>1 DEF Purge, Discard, TypeOK
<1>7. CASE Cut(r)
  BY <1>7 DEF Cut
<1> QED BY <1>3, <1>4, <1>5, <1>6, <1>7

LEMMA AccountedStay ==
    ASSUME IInv, NEW r \in Requests, RequestNext(r)
    PROVE  SecretsAccounted'
<1> SUFFICES ASSUME NEW s \in Connections, secrets'[s] # None
             PROVE  \/ rows'[s] # None /\ rows'[s].secret = s
                    \/ \E q \in Requests : s \in Holds(q)'
                    \/ s \in abandoned'
  BY DEF SecretsAccounted
<1>1. TypeOK /\ RequestInv(r)
  BY DEF IInv
<1>2. RowsStep(r) /\ SecretsStep(r) /\ Others(r)
  BY RowsChange, SecretsChange, OthersStep
<1>3. CASE secrets[s] = None
  BY <1>2, <1>3 DEF SecretsStep, Holds
<1>4. CASE secrets[s] # None /\ s \in abandoned
  BY <1>2, <1>4 DEF SecretsStep
<1>5. ASSUME NEW q \in Requests, s \in Holds(q)
      PROVE  \/ rows'[s] # None /\ rows'[s].secret = s
             \/ s \in Holds(q)' \/ s \in abandoned'
  <2>1. CASE q = r
    BY <1>5, <2>1, HoldsStep
  <2>2. CASE q # r
    BY <1>2, <1>5, <2>2 DEF Others, Holds
  <2> QED BY <2>1, <2>2
<1>6. CASE secrets[s] # None /\ rows[s] # None /\ rows[s].secret = s
  <2>1. CASE rows'[s] # None
    BY <1>2, <1>6, <2>1 DEF RowsStep
  <2>2. CASE rows'[s] = None
    <3>1. stage[r] = "deleting" /\ s = on[r]
      BY <1>2, <1>6, <2>2 DEF RowsStep
    <3>2. row[r] # None /\ s # Legacy
      BY <1>1, <1>6, <3>1, RouteConstants DEF RequestInv, RowRead, IInv, SecretsInv
    <3>3. row[r].secret = s
      BY <3>1, <3>2, Target, Key
    <3>4. Delete(r) \/ Cut(r)
      BY <3>1 DEF RequestNext, Arrive, Save, Insert, RollBack, Read, Update, Store,
         Return, Delete, Purge, Resolve, Load, Fetch, TokenFails, Stamp
    <3>5. CASE Delete(r)
      <4>1. stage'[r] = "purging" /\ row'[r].secret = s
        BY <1>1, <3>3, <3>5, RouteConstants DEF Delete, Goto, TypeOK
      <4> QED BY <4>1 DEF Holds
    <3>6. CASE Cut(r)
      BY <1>6, <2>2, <3>6 DEF Cut
    <3> QED BY <3>4, <3>5, <3>6
  <2> QED BY <2>1, <2>2
<1>7. \/ rows[s] # None /\ rows[s].secret = s
      \/ \E q \in Requests : s \in Holds(q)
      \/ s \in abandoned
      \/ secrets[s] = None
  BY DEF IInv, SecretsAccounted
<1> QED BY <1>3, <1>4, <1>5, <1>6, <1>7

-----------------------------------------------------------------------------
(* The answers, the tenants and the health.                                *)

\* Only the last call of a request answers a success.
LEMMA Succeeds ==
    ASSUME IInv, NEW r \in Requests, RequestNext(r), reply'[r] \in { 200, 201, 204 }
    PROVE  Return(r) \/ Delete(r) \/ Purge(r) \/ Stamp(r)
<1>1. TypeOK /\ Begun(r)
  BY DEF IInv, RequestInv
<1>2. stage[r] \in InFlight \cup { "idle" }
  BY DEF RequestNext, Arrive, Save, Insert, RollBack, Read, Update, Store, Return,
     Delete, Purge, Resolve, Load, Fetch, TokenFails, Stamp, Cut, InFlight
<1>3. reply[r] = None
  BY <1>1, <1>2 DEF Begun, InFlight
<1>4. reply'[r] # None
  BY RouteConstants
<1> USE <1>1, <1>3, <1>4 DEF TypeOK, Goto, Answer
<1>5. ASSUME NEW a \in Asks, Arrive(r, a) PROVE FALSE
  BY <1>5 DEF Arrive, Create, About
<1>6. ~Save(r) /\ ~Insert(r) /\ ~RollBack(r)
  BY DEF Save, Insert, RollBack
<1>7. ~Read(r) /\ ~Update(r) /\ ~Store(r)
  BY DEF Read, Update, Store, Credit
<1>8. ~Resolve(r) /\ ~Load(r) /\ ~Fetch(r) /\ ~TokenFails(r) /\ ~Cut(r)
  BY DEF Resolve, Load, Fetch, TokenFails, Cut
<1> QED BY <1>5, <1>6, <1>7, <1>8 DEF RequestNext

LEMMA SuccessStays ==
    ASSUME IInv, NEW r \in Requests, RequestNext(r)
    PROVE  SuccessIsTrue'
<1> SUFFICES ASSUME NEW q \in Requests, reply'[q] \in { 200, 201, 204 }
             PROVE  /\ ask'[q].kind \in { "create", "patch" } => wrote'[q] = Wanted(q)'
                    /\ ask'[q].kind = "delete" =>
                          /\ rows'[on'[q]] = None
                          /\ secrets'[on'[q]] = None \/ on'[q] \in abandoned'
                    /\ ask'[q].kind \in { "test", "sync" } => verdict'[q] # None
  BY DEF SuccessIsTrue
<1>1. CASE q # r
  <2>1. /\ ask'[q] = ask[q] /\ on'[q] = on[q] /\ verdict'[q] = verdict[q]
        /\ wrote'[q] = wrote[q] /\ reply'[q] = reply[q] /\ Wanted(q)' = Wanted(q)
    BY <1>1, OthersStep DEF Others, Wanted
  <2>2. /\ ask[q].kind \in { "create", "patch" } => wrote[q] = Wanted(q)
        /\ ask[q].kind = "delete" =>
              rows[on[q]] = None /\ (secrets[on[q]] = None \/ on[q] \in abandoned)
        /\ ask[q].kind \in { "test", "sync" } => verdict[q] # None
    BY <2>1 DEF IInv, SuccessIsTrue
  <2>3. ASSUME ask[q].kind = "delete"
        PROVE  rows'[on[q]] = None /\ (secrets'[on[q]] = None \/ on[q] \in abandoned')
    <3>1. ask[q] # None
      BY <2>1, RouteConstants DEF IInv, RequestInv, Begun
    <3>2. on[q] \in Connections /\ Created(on[q])
      BY <2>3, <3>1 DEF IInv, RequestInv, Begun
    <3>3. /\ rows[on[q]] = None => rows'[on[q]] = None
          /\ on[q] = r => stage[r] # "saving"
      BY <3>2, Stays
    <3> QED BY <2>2, <2>3, <3>2, <3>3, SecretsChange DEF SecretsStep
  <2> QED BY <2>1, <2>2, <2>3
<1>2. CASE q = r
  <2>1. Begun(r) /\ RowRead(r) /\ Written(r) /\ Judged(r) /\ TypeOK
    BY DEF IInv, RequestInv
  <2>2. Return(r) \/ Delete(r) \/ Purge(r) \/ Stamp(r)
    BY <1>2, Succeeds
  <2>3. stage[r] \in InFlight
    BY <2>2 DEF Return, Delete, Purge, Stamp, InFlight
  <2>4. ask[r] \in Asks /\ ask'[r] = ask[r] /\ on'[r] = on[r]
        /\ verdict'[r] = verdict[r] /\ reply[r] = None
    BY <2>2, <2>3, Keeps DEF Return, Delete, Purge, Stamp
  <2>5. Wanted(r)' = Wanted(r)
    BY <2>4 DEF Wanted
  <2>6. CASE Return(r)
    <3>1. rows[on[r]] # None /\ wrote'[r] = wrote[r]
      BY <1>2, <2>1, <2>6 DEF Return, Answer, TypeOK
    <3>2. ask[r].kind = "create" => Wanted(r) = { "row", "secret" }
      BY <2>4, RouteConstants DEF Wanted
    <3>3. stage[r] = "returning" /\ ask[r].kind \in { "create", "patch" }
      BY <2>1, <2>6 DEF Return, Begun
    <3> QED BY <1>2, <2>1, <2>4, <2>5, <3>1, <3>2, <3>3, SMTT(40) DEF Written
  <2>7. CASE Delete(r)
    <3>1. row[r] # None /\ ask[r].kind = "delete"
      BY <2>1, <2>7 DEF Delete, RowRead, Begun
    <3>2. on[r] \in Connections /\ row[r].secret = KeyOf(on[r])
      BY <3>1, Target
    <3>3. row[r].secret = None
      <4>1. reply'[r] # reply[r]
        BY <1>2, <2>4, RouteConstants
      <4> QED BY <2>7, <4>1 DEF Delete, Goto
    <3>4. on[r] = Legacy
      BY <3>2, <3>3, RouteConstants DEF KeyOf
    <3>5. secrets[on[r]] = None
      BY <3>2, <3>4, RouteConstants DEF IInv, SecretsInv
    <3>6. rows'[on[r]] = None /\ secrets' = secrets
      BY <2>1, <2>7, <3>2 DEF Delete, TypeOK
    <3> QED BY <1>2, <2>4, <3>1, <3>5, <3>6
  <2>8. CASE Purge(r)
    <3>1. row[r] # None /\ ask[r].kind = "delete" /\ on[r] # Legacy /\ rows[on[r]] = None
      BY <2>1, <2>8 DEF Purge, RowRead, Begun
    <3>2. on[r] \in Connections /\ row[r].secret = on[r]
      BY <3>1, Target, Key
    <3> QED BY <1>2, <2>1, <2>4, <2>8, <3>1, <3>2 DEF Purge, Discard, TypeOK
  <2>9. CASE Stamp(r)
    BY <1>2, <2>1, <2>4, <2>9 DEF Stamp, Begun, Judged
  <2> QED BY <2>2, <2>6, <2>7, <2>8, <2>9
<1> QED BY <1>1, <1>2

LEMMA TenantsStay ==
    ASSUME IInv, NEW r \in Requests, RequestNext(r)
    PROVE  TenantsApart'
<1> SUFFICES ASSUME NEW q \in Requests, on'[q] # None, ask'[q].kind # "create",
                    Owner(on[q])' # ask'[q].company
             PROVE  wrote'[q] = {} /\ reply'[q] \in { None, 404 }
  BY DEF TenantsApart, Owner
<1>1. CASE q # r
  <2>1. /\ ask'[q] = ask[q] /\ on'[q] = on[q]
        /\ wrote'[q] = wrote[q] /\ reply'[q] = reply[q]
    BY <1>1, OthersStep DEF Others
  <2>2. ask[q] # None
    BY <2>1 DEF IInv, RequestInv, Begun
  <2>3. on[q] \in Connections /\ Created(on[q])
    BY <2>1, <2>2 DEF IInv, RequestInv, Begun
  <2>4. Owner(on[q])' = Owner(on[q])
    <3>1. \A c \in Connections : Created(c) => Owner(c)' = Owner(c)
      BY Stays
    <3> QED BY <2>1, <2>3, <3>1 DEF Owner
  <2> QED BY <2>1, <2>4 DEF IInv, TenantsApart, Owner
<1>2. CASE q = r
  <2>1. Begun(r) /\ RowRead(r) /\ Written(r) /\ TypeOK
    BY DEF IInv, RequestInv
  <2>2. row'[r] = None
    <3>1. RowRead(r)'
      BY RequestStep DEF RequestInv
    <3> QED BY <1>2, <3>1 DEF RowRead, Owner
  <2>3. ASSUME NEW a \in Asks, Arrive(r, a)
        PROVE  wrote'[r] = {} /\ reply'[r] \in { None, 404 }
    <3>1. a.kind # "create"
      BY <1>2, <2>1, <2>3 DEF Arrive, TypeOK
    <3>2. wrote[r] = {} /\ reply[r] = None
      BY <2>1, <2>3 DEF Arrive, Written, Begun
    <3> QED BY <2>3, <3>1, <3>2 DEF Arrive, Create, About, Goto
  <2>4. CASE stage[r] \in InFlight
    <3>1. /\ ask'[r] = ask[r] /\ reply[r] = None
          /\ ask[r].kind # "create" => on[r] \in Connections
      BY <2>4, Keeps
    <3>2. row[r] = None
      <4> SUFFICES ASSUME row[r] # None PROVE FALSE
        OBVIOUS
      <4>1. Owner(on[r])' = Owner(on[r]) /\ Owner(on[r]) = ask[r].company
        BY <1>2, <2>4, <3>1, Keeps, Target
      <4> QED BY <1>2, <3>1, <4>1 DEF Owner
    <3>3. Read(r) \/ Resolve(r) \/ Cut(r)
      BY <1>2, <2>1, <2>4, <3>1, <3>2 DEF RequestNext, Arrive, InFlight, Save, Insert,
         RollBack, Update, Store, Return, Delete, Purge, Load, Fetch, TokenFails, Stamp,
         Begun, RowRead
    <3>4. stage[r] \in { "reading", "resolving" }
      BY <1>2, <2>1, <2>4, <3>1, <3>2 DEF InFlight, Begun, RowRead
    <3>5. wrote'[r] = {}
      BY <2>1, <3>3, <3>4 DEF Read, Resolve, Cut, Written
    <3>6. CASE Cut(r)
      BY <1>2, <3>1, <3>5, <3>6 DEF Cut
    <3>7. CASE Read(r) \/ Resolve(r)
      <4>1. ~Visible(r, on[r])
        BY <2>1, <2>2, <3>7, RouteConstants DEF Read, Resolve, Visible, TypeOK
      <4> QED BY <1>2, <2>1, <3>5, <3>7, <4>1 DEF Read, Resolve, Answer, TypeOK
    <3> QED BY <3>3, <3>6, <3>7
  <2>5. stage[r] \in InFlight \/ \E a \in Asks : Arrive(r, a)
    BY DEF RequestNext, Save, Insert, RollBack, Read, Update, Store, Return, Delete,
       Purge, Resolve, Load, Fetch, TokenFails, Stamp, Cut, InFlight
  <2> QED BY <1>2, <2>3, <2>4, <2>5
<1> QED BY <1>1, <1>2

LEMMA HealthStays ==
    ASSUME IInv, NEW r \in Requests, RequestNext(r)
    PROVE  HealthEarned'
<1> SUFFICES ASSUME NEW c \in Connections, rows'[c] # None, rows'[c].health # None
             PROVE  \E q \in Requests :
                       /\ on'[q] = c /\ "row" \in wrote'[q]
                       /\ verdict'[q] = rows'[c].health
                       /\ verdict'[q] = "error" => ask'[q].kind = "test"
  BY DEF HealthEarned
<1>1. RowsStep(r) /\ Others(r) /\ Own(r)
  BY RowsChange, OthersStep, OwnStep
<1>2. rows[c] # None
  BY <1>1 DEF RowsStep
<1>3. CASE rows'[c].health = rows[c].health
  <2>1. PICK q \in Requests :
           /\ on[q] = c /\ "row" \in wrote[q] /\ verdict[q] = rows[c].health
           /\ verdict[q] = "error" => ask[q].kind = "test"
    BY <1>2, <1>3 DEF IInv, HealthEarned
  <2>2. verdict[q] # None
    BY <1>3, <2>1
  <2>3. ask[q] # None
    BY <2>2 DEF IInv, RequestInv, Begun, Judged
  <2>4. ask'[q] = ask[q] /\ on'[q] = on[q] /\ verdict'[q] = verdict[q]
        /\ wrote[q] \subseteq wrote'[q]
    BY <1>1, <2>2, <2>3 DEF Others, Own
  <2> QED BY <1>3, <2>1, <2>4
<1>4. CASE rows'[c].health # rows[c].health
  <2>1. c = on[r] /\ stage[r] = "stamping" /\ "row" \in wrote'[r]
        /\ rows'[c].health = verdict[r]
    BY <1>1, <1>2, <1>4 DEF RowsStep
  <2>2. verdict[r] # None /\ ask[r] # None /\ (verdict[r] = "error" => ask[r].kind = "test")
    BY <2>1 DEF IInv, RequestInv, Begun, Judged
  <2>3. ask'[r] = ask[r] /\ on'[r] = on[r] /\ verdict'[r] = verdict[r]
    BY <1>1, <2>2 DEF Own
  <2> QED BY <2>1, <2>2, <2>3
<1> QED BY <1>3, <1>4

-----------------------------------------------------------------------------
(* The theorems.                                                           *)

LEMMA Stutter ==
    ASSUME IInv, UNCHANGED vars
    PROVE  IInv'
<1>1. TypeOK'
  BY DEF IInv, TypeOK, vars, tables
<1>2. \A r \in Requests : RequestInv(r)'
  BY DEF IInv, RequestInv, Begun, RowRead, Written, Judged, Created, Owner, KeyOf,
     Wanted, vars, tables
<1>3. RowsInv' /\ SecretsInv'
  BY DEF IInv, RowsInv, SecretsInv, Created, Owner, KeyOf, vars, tables
<1>4. SecretsAccounted' /\ SuccessIsTrue'
  BY DEF IInv, SecretsAccounted, SuccessIsTrue, Holds, Wanted, vars, tables
<1>5. TenantsApart' /\ HealthEarned'
  BY DEF IInv, TenantsApart, HealthEarned, vars, tables
<1> QED BY <1>1, <1>2, <1>3, <1>4, <1>5 DEF IInv

\* However requests race and wherever they are cut short, the invariant holds.
THEOREM Invariant == Spec => []IInv
<1>1. ASSUME IInv, [Next]_vars PROVE IInv'
  <2>1. CASE UNCHANGED vars
    BY <1>1, <2>1, Stutter
  <2>2. ASSUME NEW r \in Requests, RequestNext(r) PROVE IInv'
    BY <1>1, <2>2, TypeStep, RequestStep, RowsStay, SecretsStay, AccountedStay,
       SuccessStays, TenantsStay, HealthStays DEF IInv
  <2> QED BY <1>1, <2>1, <2>2 DEF Next
<1> QED BY InitInv, <1>1, PTL DEF Spec

\* The rows, the credentials and the requests' locals keep their types: no
\* UPDATE puts a value into a column that cannot hold it.
THEOREM TypeCorrect == Spec => []TypeOK
BY Invariant, PTL DEF IInv

\* No orphaned secrets: credentials belong to a row, or to the request that is
\* about to insert their row or to delete them, or were abandoned.
THEOREM NoOrphans == Spec => []SecretsAccounted
BY Invariant, PTL DEF IInv

\* No row outlives its credentials, whatever POST, PATCH and DELETE are in
\* flight.
THEOREM RowsKeepSecrets == Spec => []RowsHaveSecrets
<1>1. IInv => RowsHaveSecrets
  <2> SUFFICES ASSUME IInv, NEW c \in Connections,
                      rows[c] # None, rows[c].secret # None
               PROVE  secrets[rows[c].secret] # None
    BY DEF RowsHaveSecrets
  <2>1. rows[c].secret = KeyOf(c) /\ (c # Legacy => secrets[c] # None)
    BY DEF IInv, RowsInv
  <2> QED BY <2>1 DEF KeyOf
<1> QED BY Invariant, <1>1, PTL

\* A 20x of POST, PATCH, DELETE, /test or /sync is the truth.
THEOREM SuccessesAreTrue == Spec => []SuccessIsTrue
BY Invariant, PTL DEF IInv

\* A request learns nothing of another tenant's connection and changes nothing
\* of it.
THEOREM TenantsOpaque == Spec => []TenantsApart
BY Invariant, PTL DEF IInv

\* Every health that is shown was found by a test or a sync of that connection.
THEOREM HealthIsEarned == Spec => []HealthEarned
BY Invariant, PTL DEF IInv

\* Neither a deleted row nor deleted credentials come back through a request
\* that was in flight when they were deleted.
THEOREM GoneStaysGone == Spec => NoResurrection
<1> DEFINE Stay == \A c \in Connections :
              /\ rows[c] = None /\ rows'[c] # None
                    => c \in Requests /\ "row" \notin wrote[c]
              /\ secrets[c] = None /\ secrets'[c] # None
                    => c \in Requests /\ "secret" \notin wrote[c]
<1>1. ASSUME IInv, NEW r \in Requests, RequestNext(r) PROVE Stay
  <2>1. Written(r)
    BY <1>1 DEF IInv, RequestInv
  <2> QED BY <1>1, <2>1, RowsChange, SecretsChange DEF RowsStep, SecretsStep, Written
<1>2. IInv /\ [Next]_vars => [Stay]_vars
  BY <1>1 DEF Next
<1> QED BY Invariant, <1>2, PTL DEF Spec, NoResurrection

=============================================================================
