------------------------- MODULE ToolExecutorProofs -------------------------
(***************************************************************************)
(* What holds of ToolExecutor for every set of calls, sessions, tenants    *)
(* and connections, every budget and every number of retries.              *)
(***************************************************************************)
EXTENDS ToolExecutor, FiniteSetTheorems, SequenceTheorems, TLAPS

-----------------------------------------------------------------------------
(* The inductive invariant: what is true of one call at each await, on top *)
(* of the properties of the trail and of the budget.                       *)

\* Which variables of a call are set when.
Shape(k) ==
    /\ charged[k] = None =>
          /\ stage[k] \in { "idle", "returned" }
          /\ conn[k] = None /\ gets[k] = 0 /\ last[k] = None
          /\ status[k] \in Refusals \cup {None}
    /\ charged[k] # None =>
          /\ stage[k] # "idle"
          /\ session[k] \in Sessions
          /\ charged[k] <= epoch
          /\ status[k] \notin Refusals
    /\ stage[k] \in { "idle", "resolving", "loading", "authenticating", "waiting" }
          => status[k] = None
    /\ stage[k] \in { "recording", "recorded" } => status[k] \in AuditStatuses
    /\ stage[k] \in { "loading", "authenticating", "waiting" } => conn[k] # None

\* The connection a call was resolved to.
Resolved(k) ==
    /\ conn[k] # None => /\ ConnCompany[conn[k]] = CompanyOf(k)
                         /\ pin[k] \in { None, conn[k] }
    /\ gets[k] > 0 => conn[k] # None

\* The retry loop, and what a status says of it.
Retried(k) ==
    /\ gets[k] <= MaxRetries + 1
    /\ stage[k] \in { "resolving", "loading" } => gets[k] = 0
    /\ stage[k] = "authenticating" => gets[k] <= MaxRetries
    /\ stage[k] = "authenticating" /\ gets[k] > 0 => last[k] \in Transient
    /\ stage[k] = "waiting" => gets[k] > 0
    /\ stage[k] = "waiting" /\ gets[k] > 1 => last[k] \in Transient
    /\ stage[k] # "waiting" /\ gets[k] = 0 => last[k] = None
    /\ status[k] \in AuditStatuses => Truthful(status[k], k)

CallInv == \A k \in Calls : Shape(k) /\ Resolved(k) /\ Retried(k)

IInv == TypeOK /\ CallInv /\ ChargedExactly /\ OneRowPerOutcome /\ ReferencesLive

-----------------------------------------------------------------------------
(* Type correctness.                                                       *)

LEMMA InitType == Init => TypeOK
  BY ToolConstants DEF Init, TypeOK, Stages, RowStates

\* SET NULL changes one column of a row.
LEMMA SetNullRow ==
    ASSUME NEW row \in AuditRow
    PROVE  /\ SetNull(row) \in AuditRow
           /\ SetNull(row).call = row.call
           /\ SetNull(row).company = row.company
           /\ SetNull(row).status = row.status
           /\ SetNull(row).conn = None
  BY DEF AuditRow, SetNull

\* The columns of a row of the trail.
LEMMA TrailRow ==
    ASSUME TypeOK, NEW i \in DOMAIN audit
    PROVE  /\ audit[i].call \in Calls
           /\ audit[i].conn \in Connections \cup {None}
           /\ audit[i].status \in AuditStatuses
<1>1. audit \in Seq(AuditRow)
  BY DEF TypeOK
<1>2. audit[i] \in AuditRow
  BY <1>1
<1> QED BY <1>2 DEF AuditRow

\* What the two actions that write the trail do to it.
LEMMA RecordAudit ==
    ASSUME NEW k \in Calls, Record(k), audit \in Seq(AuditRow),
           NEW row \in AuditRow,
           row = [ call |-> k, company |-> CompanyOf(k), conn |-> conn[k],
                   status |-> status[k] ]
    PROVE  /\ audit' \in Seq(AuditRow)
           /\ \/ audit' = audit /\ Move(k, "recording", "raised")
              \/ /\ Len(audit') = Len(audit) + 1
                 /\ \A i \in 1 .. Len(audit) : audit'[i] = audit[i]
                 /\ audit'[Len(audit) + 1] = row
                 /\ Move(k, "recording", "recorded")
                 /\ conn[k] \in Referenceable
<1>1. CASE audit' = Append(audit, row)
  BY <1>1, AppendProperties DEF Record
<1>2. CASE audit' # Append(audit, row)
  BY <1>2 DEF Record
<1> QED BY <1>1, <1>2

LEMMA DeleteAudit ==
    ASSUME NEW c \in Connections, DeleteConnection(c), audit \in Seq(AuditRow)
    PROVE  /\ audit' \in Seq(AuditRow)
           /\ Len(audit') = Len(audit)
           /\ \A i \in DOMAIN audit :
                 /\ audit[i] \in AuditRow
                 /\ audit'[i] = IF audit[i].conn = c THEN SetNull(audit[i]) ELSE audit[i]
<1>1. \A i \in DOMAIN audit : audit[i] \in AuditRow
  OBVIOUS
<1>2. \A i \in DOMAIN audit : audit'[i] \in AuditRow
  BY <1>1, SetNullRow DEF DeleteConnection
<1>3. DOMAIN audit' = 1 .. Len(audit) /\ Len(audit) \in Nat
  BY LenProperties DEF DeleteConnection
<1>4. audit' \in [ 1 .. Len(audit) -> AuditRow ]
  BY <1>2, <1>3 DEF DeleteConnection
<1>5. audit' \in Seq(AuditRow) /\ Len(audit') = Len(audit)
  BY <1>3, <1>4
<1> QED BY <1>1, <1>5 DEF DeleteConnection

\* The steps of a call keep the types.
LEMMA CallType ==
    ASSUME TypeOK, CallInv, NEW k \in Calls, CallNext(k)
    PROVE  TypeOK'
<1> USE DEF TypeOK, Move, Fail, Stages, InFlight, Over, AuditStatuses, Refusals,
            call, who, table, process
<1>1. CASE SessionUnknown(k)
  BY <1>1 DEF SessionUnknown
<1>2. ASSUME NEW s \in Sessions, CostLimitExceeded(k, s) PROVE TypeOK'
  BY <1>2 DEF CostLimitExceeded
<1>3. ASSUME NEW s \in Sessions, NEW scope \in Connections \cup {None}, Admit(k, s, scope)
      PROVE TypeOK'
  BY <1>3 DEF Admit
<1>4. CASE ResolveRow(k)
  <2>1. Resolvable(k) \subseteq Connections
    BY DEF Resolvable, Default, ActiveOf
  <2> QED BY <1>4, <2>1, ZenonT(60) DEF ResolveRow
<1>5. CASE LoadCredentials(k)
  BY <1>5 DEF LoadCredentials
<1>6. CASE SendGet(k)
  BY <1>6 DEF SendGet
<1>7. CASE TokenRefused(k)
  BY <1>7 DEF TokenRefused
<1>8. CASE TokenUnreachable(k)
  BY <1>8 DEF TokenUnreachable
<1>9. ASSUME NEW answer \in Answers, Answer(k, answer) PROVE TypeOK'
  <2>1. StatusOf(answer) \in AuditStatuses
    BY DEF StatusOf
  <2> QED BY <1>9, <2>1 DEF Answer
<1>10. CASE Record(k)
  <2>1. stage[k] = "recording"
    BY <1>10 DEF Record
  <2>2. status[k] \in AuditStatuses /\ session[k] \in Sessions
    BY <2>1 DEF CallInv, Shape
  <2>3. [ call |-> k, company |-> CompanyOf(k), conn |-> conn[k],
          status |-> status[k] ] \in AuditRow
    BY <2>2, ToolConstants DEF AuditRow, CompanyOf
  <2>4. audit' \in Seq(AuditRow)
    BY <1>10, <2>3, RecordAudit
  <2> QED BY <1>10, <2>4 DEF Record
<1>11. CASE Return(k)
  BY <1>11 DEF Return
<1> QED BY <1>1, <1>2, <1>3, <1>4, <1>5, <1>6, <1>7, <1>8, <1>9, <1>10, <1>11
        DEF CallNext, Progress

\* So do the routes and a restart.
LEMMA EnvironmentType ==
    ASSUME TypeOK, \/ \E c \in Connections : AdminNext(c)
                   \/ Restart
    PROVE  TypeOK'
<1> USE DEF TypeOK, RowStates, Live, call, who, process
<1>1. ASSUME NEW c \in Connections, Touch(c)
      PROVE  newer' \subseteq Connections \X Connections
  BY <1>1 DEF Touch
<1>2. ASSUME NEW c \in Connections, InsertConnection(c) PROVE TypeOK'
  BY <1>1, <1>2 DEF InsertConnection
<1>3. ASSUME NEW c \in Connections, NEW state \in Live, SetActive(c, state) PROVE TypeOK'
  BY <1>1, <1>3 DEF SetActive
<1>4. ASSUME NEW c \in Connections, SetConnectionHealth(c) PROVE TypeOK'
  BY <1>1, <1>4 DEF SetConnectionHealth
<1>5. ASSUME NEW c \in Connections, DeleteConnection(c) PROVE TypeOK'
  <2>1. audit' \in Seq(AuditRow)
    BY <1>5, DeleteAudit
  <2> QED BY <1>5, <2>1 DEF DeleteConnection
<1>6. ASSUME NEW c \in Connections, DeleteSecret(c) PROVE TypeOK'
  BY <1>6 DEF DeleteSecret
<1>7. CASE Restart
  BY <1>7 DEF Restart, Stages, InFlight, Over
<1> QED BY <1>2, <1>3, <1>4, <1>5, <1>6, <1>7 DEF AdminNext

-----------------------------------------------------------------------------
(* Each call keeps its own invariant.                                      *)

\* A call another one's step leaves alone.
LEMMA OtherCall ==
    ASSUME TypeOK, CallInv, NEW j \in Calls, epoch' \in Nat, epoch' >= epoch,
           stage'[j] = stage[j], session'[j] = session[j], charged'[j] = charged[j],
           pin'[j] = pin[j], conn'[j] = conn[j], gets'[j] = gets[j],
           last'[j] = last[j], status'[j] = status[j]
    PROVE  Shape(j)' /\ Resolved(j)' /\ Retried(j)'
<1>1. Shape(j)'
  BY DEF CallInv, Shape, TypeOK
<1>2. Resolved(j)'
  BY DEF CallInv, Resolved, CompanyOf
<1>3. Retried(j)'
  BY DEF CallInv, Retried, Truthful
<1> QED BY <1>1, <1>2, <1>3

LEMMA CallStep ==
    ASSUME TypeOK, CallInv, NEW k \in Calls, CallNext(k)
    PROVE  CallInv'
<1> SUFFICES Shape(k)' /\ Resolved(k)' /\ Retried(k)'
  <2>1. \A j \in Calls : j # k =>
           /\ stage'[j] = stage[j] /\ session'[j] = session[j]
           /\ charged'[j] = charged[j] /\ pin'[j] = pin[j]
           /\ conn'[j] = conn[j] /\ gets'[j] = gets[j]
           /\ last'[j] = last[j] /\ status'[j] = status[j]
    BY DEF CallNext, Progress, SessionUnknown, CostLimitExceeded, Admit,
           ResolveRow, LoadCredentials, SendGet, TokenRefused, TokenUnreachable,
           Answer, Record, Return, Move, Fail, who, TypeOK
  <2>2. epoch' = epoch
    BY DEF CallNext, Progress, SessionUnknown, CostLimitExceeded, Admit,
           ResolveRow, LoadCredentials, SendGet, TokenRefused, TokenUnreachable,
           Answer, Record, Return, process
  <2>3. epoch' \in Nat /\ epoch' >= epoch
    BY <2>2 DEF TypeOK
  <2>4. \A j \in Calls : j # k => Shape(j)' /\ Resolved(j)' /\ Retried(j)'
    BY <2>1, <2>3, OtherCall
  <2> QED BY <2>4 DEF CallInv
<1> USE DEF Move, Fail, who, process
<1>0. Shape(k) /\ Resolved(k) /\ Retried(k)
  BY DEF CallInv
<1>1. CASE SessionUnknown(k)
  BY <1>0, <1>1, ToolConstants
     DEF SessionUnknown, Shape, Resolved, Retried, Truthful, CompanyOf, TypeOK,
         AuditStatuses, Refusals
<1>2. ASSUME NEW s \in Sessions, CostLimitExceeded(k, s)
      PROVE  Shape(k)' /\ Resolved(k)' /\ Retried(k)'
  BY <1>0, <1>2, ToolConstants
     DEF CostLimitExceeded, Shape, Resolved, Retried, Truthful, CompanyOf, TypeOK,
         AuditStatuses, Refusals
<1>3. ASSUME NEW s \in Sessions, NEW scope \in Connections \cup {None}, Admit(k, s, scope)
      PROVE  Shape(k)' /\ Resolved(k)' /\ Retried(k)'
  <2>1. /\ charged[k] = None /\ conn[k] = None /\ gets[k] = 0 /\ last[k] = None
        /\ status[k] = None
    BY <1>0, <1>3 DEF Admit, Shape
  <2>2. /\ stage'[k] = "resolving" /\ session'[k] = s /\ charged'[k] = epoch
        /\ conn'[k] = None /\ gets'[k] = 0 /\ last'[k] = None
        /\ status'[k] = None /\ epoch' = epoch
    BY <2>1, <1>3 DEF Admit, TypeOK
  <2>3. Shape(k)'
    BY <2>2, ToolConstants DEF Shape, TypeOK
  <2>4. Resolved(k)' /\ Retried(k)'
    BY <2>2, ToolConstants DEF Resolved, Retried
  <2> QED BY <2>3, <2>4
<1>4. CASE ResolveRow(k)
  BY <1>0, <1>4, ToolConstants
     DEF ResolveRow, Resolvable, Default, ActiveOf, Shape, Resolved, Retried,
         Truthful, CompanyOf, TypeOK, AuditStatuses, Refusals
<1>5. CASE LoadCredentials(k)
  BY <1>0, <1>5, ToolConstants
     DEF LoadCredentials, Shape, Resolved, Retried,
         Truthful, CompanyOf, TypeOK, AuditStatuses, Refusals
<1>6. CASE SendGet(k)
  BY <1>0, <1>6, ToolConstants
     DEF SendGet, Shape, Resolved, Retried,
         Truthful, CompanyOf, TypeOK, AuditStatuses, Refusals
<1>7. CASE TokenRefused(k)
  BY <1>0, <1>7, ToolConstants
     DEF TokenRefused, Shape, Resolved, Retried,
         Truthful, CompanyOf, TypeOK, AuditStatuses, Refusals
<1>8. CASE TokenUnreachable(k)
  BY <1>0, <1>8, ToolConstants
     DEF TokenUnreachable, Shape, Resolved, Retried,
         Truthful, CompanyOf, TypeOK, AuditStatuses, Refusals
<1>9. ASSUME NEW answer \in Answers, Answer(k, answer)
      PROVE  Shape(k)' /\ Resolved(k)' /\ Retried(k)'
  BY <1>0, <1>9, ToolConstants
     DEF Answer, Shape, Resolved, Retried, StatusOf, Transient, Answers,
         DocumentedStatus, Misfiled, Truthful, CompanyOf, TypeOK, AuditStatuses, Refusals
<1>10. CASE Record(k)
  BY <1>0, <1>10, ToolConstants
     DEF Record, Shape, Resolved, Retried,
         Truthful, CompanyOf, TypeOK, AuditStatuses, Refusals
<1>11. CASE Return(k)
  BY <1>0, <1>11, ToolConstants
     DEF Return, Shape, Resolved, Retried,
         Truthful, CompanyOf, TypeOK, AuditStatuses, Refusals
<1> QED BY <1>1, <1>2, <1>3, <1>4, <1>5, <1>6, <1>7, <1>8, <1>9, <1>10, <1>11
        DEF CallNext, Progress

-----------------------------------------------------------------------------
(* The budget.                                                             *)

\* A step that admits nobody leaves the counter right.
LEMMA SameAdmitted ==
    ASSUME ChargedExactly, counts' = counts, epoch' = epoch,
           \A s \in Sessions : Admitted(s, epoch)' = Admitted(s, epoch)
    PROVE  ChargedExactly'
  BY DEF ChargedExactly

LEMMA ChargeStep ==
    ASSUME TypeOK, CallInv, ChargedExactly, NEW k \in Calls, CallNext(k)
    PROVE  ChargedExactly'
<1> USE DEF process, who, Move, Fail
<1>1. ASSUME UNCHANGED << counts, epoch, session, charged >>
      PROVE  ChargedExactly'
  BY <1>1, SameAdmitted DEF Admitted
<1>2. ASSUME NEW s \in Sessions, CostLimitExceeded(k, s)
      PROVE  ChargedExactly'
  <2>1. charged' = charged /\ charged[k] # epoch /\ counts' = counts /\ epoch' = epoch
    BY <1>2, ToolConstants DEF CostLimitExceeded, CallInv, Shape, TypeOK
  <2>2. \A j \in Calls : j # k => session'[j] = session[j]
    BY <1>2 DEF CostLimitExceeded, TypeOK
  <2>3. \A t \in Sessions : Admitted(t, epoch)' = Admitted(t, epoch)
    BY <2>1, <2>2 DEF Admitted
  <2> QED BY <2>1, <2>3, SameAdmitted
<1>3. ASSUME NEW s \in Sessions, NEW scope \in Connections \cup {None}, Admit(k, s, scope)
      PROVE  ChargedExactly'
  <2>1. charged[k] # epoch
    BY <1>3, ToolConstants DEF Admit, CallInv, Shape, TypeOK
  <2>2. Admitted(s, epoch)' = Admitted(s, epoch) \cup {k} /\ k \notin Admitted(s, epoch)
    BY <1>3, <2>1 DEF Admit, Admitted, TypeOK
  <2>3. \A t \in Sessions \ {s} : Admitted(t, epoch)' = Admitted(t, epoch)
    BY <1>3, <2>1 DEF Admit, Admitted, TypeOK
  <2>4. IsFiniteSet(Admitted(s, epoch))
    BY FS_Subset, ToolConstants DEF Admitted
  <2>5. Cardinality(Admitted(s, epoch)') = Cardinality(Admitted(s, epoch)) + 1
    BY <2>2, <2>4, FS_AddElement
  <2>6. counts'[s] = counts[s] + 1 /\ counts[s] < Budget
    BY <1>3 DEF Admit, TypeOK
  <2>7. \A t \in Sessions \ {s} : counts'[t] = counts[t]
    BY <1>3 DEF Admit, TypeOK
  <2>8. epoch' = epoch /\ counts \in [ Sessions -> Nat ] /\ Budget \in Nat
    BY <1>3, ToolConstants DEF Admit, TypeOK
  <2>9. ASSUME NEW t \in Sessions
        PROVE  counts'[t] = Cardinality(Admitted(t, epoch)') /\ counts'[t] <= Budget
    <3>1. CASE t = s
      BY <2>5, <2>6, <2>8, <3>1 DEF ChargedExactly
    <3>2. CASE t # s
      BY <2>3, <2>7, <2>8, <3>2 DEF ChargedExactly
    <3> QED BY <3>1, <3>2
  <2> QED BY <2>8, <2>9 DEF ChargedExactly
<1> QED BY <1>1, <1>2, <1>3
        DEF CallNext, Progress, SessionUnknown, ResolveRow, LoadCredentials, SendGet,
            TokenRefused, TokenUnreachable, Answer, Record, Return

\* Nobody has been admitted in a life of the process that is yet to come.
LEMMA ChargeRestart ==
    ASSUME TypeOK, CallInv, Restart
    PROVE  ChargedExactly'
<1>1. \A s \in Sessions : Admitted(s, epoch)' = {}
  <2>1. ASSUME NEW k \in Calls PROVE charged[k] # epoch + 1
    <3>1. CASE charged[k] = None
      BY <3>1, ToolConstants DEF TypeOK
    <3>2. CASE charged[k] # None
      <4>1. charged[k] \in Nat /\ charged[k] <= epoch /\ epoch \in Nat
        BY <3>2 DEF CallInv, Shape, TypeOK
      <4> QED BY <4>1
    <3> QED BY <3>1, <3>2
  <2>2. epoch' = epoch + 1 /\ charged' = charged
    BY DEF Restart, who
  <2> QED BY <2>1, <2>2 DEF Admitted
<1>2. Cardinality({}) = 0
  BY FS_EmptySet
<1>3. \A s \in Sessions : counts'[s] = 0
  BY DEF Restart
<1>4. \A s \in Sessions : Cardinality(Admitted(s, epoch)') = 0
  BY <1>1, <1>2
<1>5. 0 <= Budget
  BY ToolConstants
<1> QED BY <1>3, <1>4, <1>5 DEF ChargedExactly

-----------------------------------------------------------------------------
(* The trail.                                                              *)

\* A step that writes no row and leaves the calls with rows as they are.
LEMMA SameTrail ==
    ASSUME TypeOK, audit' = audit, OneRowPerOutcome,
           \A k \in Calls :
              /\ stage[k] \in { "recorded", "returned", "lost" } /\ charged[k] # None =>
                    /\ session'[k] = session[k] /\ status'[k] = status[k]
                    /\ stage'[k] \in { "recorded", "returned", "lost" }
              /\ stage'[k] \in { "recorded", "returned" } /\ charged'[k] # None =>
                    /\ stage[k] \in { "recorded", "returned" }
                    /\ charged[k] # None
              /\ charged[k] = None => RowsOf(k) = {}
    PROVE  OneRowPerOutcome'
<1>1. \A k : RowsOf(k)' = RowsOf(k)
  BY DEF RowsOf
<1> QED BY <1>1 DEF OneRowPerOutcome, CompanyOf

\* Only a charged call has a row.
LEMMA RowsCharged ==
    ASSUME TypeOK, CallInv, OneRowPerOutcome, NEW k \in Calls, charged[k] = None
    PROVE  RowsOf(k) = {}
<1>1. status[k] \notin AuditStatuses
  BY ToolConstants DEF CallInv, Shape, AuditStatuses, Refusals
<1>2. \A i \in RowsOf(k) : audit[i] \in AuditRow
  BY DEF RowsOf, TypeOK
<1>3. \A i \in RowsOf(k) : audit[i].status \in AuditStatuses
  BY <1>2 DEF AuditRow
<1> QED BY <1>1, <1>3 DEF OneRowPerOutcome

LEMMA TrailStep ==
    ASSUME TypeOK, CallInv, OneRowPerOutcome, NEW k \in Calls, CallNext(k)
    PROVE  OneRowPerOutcome'
<1> USE DEF Move, Fail, who
<1>1. ASSUME audit' = audit,
             \/ UNCHANGED << session, charged, status >>
             \/ stage[k] \notin { "recorded", "returned", "lost" },
             stage[k] \in { "recorded", "returned", "lost" }
                => stage'[k] \in { "recorded", "returned", "lost" },
             stage'[k] \in { "recorded", "returned" } /\ charged'[k] # None
                => stage[k] \in { "recorded", "returned" } /\ charged[k] # None,
             \A j \in Calls \ {k} :
                /\ stage'[j] = stage[j] /\ session'[j] = session[j]
                /\ charged'[j] = charged[j] /\ status'[j] = status[j]
      PROVE  OneRowPerOutcome'
  BY <1>1, RowsCharged, SameTrail
<1>2. CASE SessionUnknown(k) \/ \E s \in Sessions : CostLimitExceeded(k, s)
  BY <1>1, <1>2 DEF SessionUnknown, CostLimitExceeded, TypeOK, CallInv, Shape
<1>3. CASE \E s \in Sessions, scope \in Connections \cup {None} : Admit(k, s, scope)
  BY <1>1, <1>3 DEF Admit, TypeOK
<1>4. CASE ResolveRow(k) \/ LoadCredentials(k) \/ SendGet(k)
  BY <1>1, <1>4 DEF ResolveRow, LoadCredentials, SendGet, TypeOK
<1>5. CASE TokenRefused(k) \/ TokenUnreachable(k) \/ \E answer \in Answers : Answer(k, answer)
  BY <1>1, <1>5 DEF TokenRefused, TokenUnreachable, Answer, TypeOK
<1>6. CASE Return(k)
  BY <1>1, <1>6 DEF Return, TypeOK
<1>7. CASE Record(k)
  <2>1. /\ stage[k] = "recording" /\ status[k] \in AuditStatuses
        /\ session[k] \in Sessions /\ charged[k] # None
    BY <1>7 DEF Record, CallInv, Shape
  <2> DEFINE row == [ call |-> k, company |-> CompanyOf(k), conn |-> conn[k],
                      status |-> status[k] ]
  <2>2. row \in AuditRow
    BY <2>1, ToolConstants DEF AuditRow, CompanyOf, TypeOK
  <2>3. UNCHANGED << session, charged, conn, status >>
    BY <1>7 DEF Record
  <2>4. RowsOf(k) = {}
    BY <2>1 DEF OneRowPerOutcome
  <2>5. CASE audit' = audit /\ Move(k, "recording", "raised")
    BY <1>1, <2>1, <2>3, <2>5 DEF TypeOK
  <2>6. CASE /\ Len(audit') = Len(audit) + 1
             /\ \A i \in 1 .. Len(audit) : audit'[i] = audit[i]
             /\ audit'[Len(audit) + 1] = row
             /\ Move(k, "recording", "recorded")
             /\ audit' \in Seq(AuditRow)
    <3>1. /\ Len(audit) \in Nat /\ DOMAIN audit = 1 .. Len(audit)
          /\ DOMAIN audit' = DOMAIN audit \cup { Len(audit) + 1 }
      BY <2>6 DEF TypeOK
    <3>2. RowsOf(k)' = { Len(audit) + 1 }
      BY <2>4, <2>6, <3>1 DEF RowsOf
    <3>3. \A j \in Calls \ {k} : RowsOf(j)' = RowsOf(j)
      BY <2>6, <3>1 DEF RowsOf
    <3>4. ASSUME NEW j \in Calls \ {k}
          PROVE  /\ \A i, h \in RowsOf(j)' : i = h
                 /\ \A i \in RowsOf(j)' :
                       /\ stage'[j] \in { "recorded", "returned", "lost" }
                       /\ audit'[i].status = status'[j]
                       /\ audit'[i].company = CompanyOf(j)'
                 /\ stage'[j] \in { "recorded", "returned" } /\ charged'[j] # None
                       => RowsOf(j)' # {}
      <4>1. stage'[j] = stage[j]
        BY <2>6 DEF TypeOK
      <4>2. \A i \in RowsOf(j) : audit'[i] = audit[i]
        BY <2>6, <3>1 DEF RowsOf
      <4> QED BY <2>3, <3>3, <4>1, <4>2 DEF OneRowPerOutcome, CompanyOf
    <3>5. /\ \A i, h \in RowsOf(k)' : i = h
          /\ \A i \in RowsOf(k)' :
                /\ stage'[k] \in { "recorded", "returned", "lost" }
                /\ audit'[i].status = status'[k]
                /\ audit'[i].company = CompanyOf(k)'
          /\ RowsOf(k)' # {}
      <4>1. stage'[k] = "recorded"
        BY <2>6 DEF TypeOK
      <4>2. row.status = status'[k] /\ row.company = CompanyOf(k)'
        BY <2>3 DEF CompanyOf
      <4> QED BY <2>6, <3>2, <4>1, <4>2
    <3> QED BY <3>4, <3>5 DEF OneRowPerOutcome
  <2> QED BY <1>7, <2>2, <2>5, <2>6, RecordAudit DEF TypeOK
<1> QED BY <1>2, <1>3, <1>4, <1>5, <1>6, <1>7 DEF CallNext, Progress

\* The foreign key: a new row names a row of the table that is there, with
\* the tenant of the call.
LEMMA ReferenceStep ==
    ASSUME TypeOK, CallInv, ReferencesLive, NEW k \in Calls, CallNext(k)
    PROVE  ReferencesLive'
<1>1. rows' = rows
  BY DEF CallNext, Progress, SessionUnknown, CostLimitExceeded, Admit,
         ResolveRow, LoadCredentials, SendGet, TokenRefused, TokenUnreachable,
         Answer, Record, Return, table
<1>2. CASE audit' = audit
  BY <1>1, <1>2 DEF ReferencesLive
<1>3. CASE Record(k)
  <2>1. status[k] \in AuditStatuses /\ session[k] \in Sessions
    BY <1>3 DEF Record, Move, Fail, CallInv, Shape
  <2> DEFINE row == [ call |-> k, company |-> CompanyOf(k), conn |-> conn[k],
                      status |-> status[k] ]
  <2>2. row \in AuditRow
    BY <2>1, ToolConstants DEF AuditRow, CompanyOf, TypeOK
  <2>3. CASE /\ Len(audit') = Len(audit) + 1
             /\ \A i \in 1 .. Len(audit) : audit'[i] = audit[i]
             /\ audit'[Len(audit) + 1] = row
             /\ audit' \in Seq(AuditRow)
             /\ conn[k] \in Referenceable
    <3>1. /\ Len(audit) \in Nat /\ DOMAIN audit = 1 .. Len(audit)
          /\ DOMAIN audit' = DOMAIN audit \cup { Len(audit) + 1 }
      BY <2>3 DEF TypeOK
    <3>2. row.conn = conn[k] /\ row.company = CompanyOf(k)
      OBVIOUS
    <3>3. conn[k] # None => rows[conn[k]] \in Live /\ ConnCompany[conn[k]] = CompanyOf(k)
      BY <2>3 DEF Referenceable, CallInv, Resolved
    <3>4. ASSUME NEW i \in DOMAIN audit', audit'[i].conn # None
          PROVE  /\ rows[audit'[i].conn] \in Live
                 /\ ConnCompany[audit'[i].conn] = audit'[i].company
      <4>1. CASE i \in DOMAIN audit
        BY <2>3, <3>1, <3>4, <4>1 DEF ReferencesLive
      <4>2. CASE i = Len(audit) + 1
        BY <2>3, <3>2, <3>3, <3>4, <4>2
      <4> QED BY <3>1, <4>1, <4>2
    <3> QED BY <1>1, <3>4 DEF ReferencesLive
  <2> QED BY <1>2, <1>3, <2>2, <2>3, RecordAudit DEF TypeOK
<1> QED BY <1>2, <1>3
        DEF CallNext, Progress, SessionUnknown, CostLimitExceeded, Admit,
            ResolveRow, LoadCredentials, SendGet, TokenRefused, TokenUnreachable,
            Answer, Return

-----------------------------------------------------------------------------
(* The routes and a restart.                                               *)

\* The routes never touch a call or the counters.
LEMMA AdminFrame ==
    ASSUME NEW c \in Connections, AdminNext(c)
    PROVE  UNCHANGED << process, call >>
  BY DEF AdminNext, InsertConnection, SetActive, SetConnectionHealth,
         DeleteConnection, DeleteSecret

\* What they do to the trail: nothing, or clear the references to a row that
\* goes; rows that stay keep their reference alive.
LEMMA AdminAudit ==
    ASSUME TypeOK, NEW c \in Connections, AdminNext(c)
    PROVE  \/ /\ audit' = audit
              /\ \A d \in Connections : rows[d] \in Live => rows'[d] \in Live
           \/ DeleteConnection(c)
  BY DEF AdminNext, InsertConnection, SetActive, SetConnectionHealth, DeleteSecret,
         TypeOK, Live

LEMMA AdminStep ==
    ASSUME IInv, NEW c \in Connections, AdminNext(c)
    PROVE  IInv'
<1>1. UNCHANGED << process, call >>
  BY AdminFrame
<1>2. TypeOK'
  BY EnvironmentType DEF IInv
<1>3. CallInv'
  BY <1>1 DEF IInv, CallInv, Shape, Resolved, Retried, Truthful, CompanyOf,
              call, who, process
<1>4. ChargedExactly'
  BY <1>1 DEF IInv, ChargedExactly, Admitted, call, who, process
<1>5. CASE /\ audit' = audit
           /\ \A d \in Connections : rows[d] \in Live => rows'[d] \in Live
  <2>1. OneRowPerOutcome'
    BY <1>1, <1>5 DEF IInv, OneRowPerOutcome, RowsOf, CompanyOf, call, who
  <2>2. \A i \in DOMAIN audit : audit[i].conn \in Connections \cup {None}
    BY TrailRow DEF IInv
  <2>3. ReferencesLive'
    BY <1>5, <2>2 DEF IInv, ReferencesLive
  <2> QED BY <1>2, <1>3, <1>4, <2>1, <2>3 DEF IInv
<1>6. CASE DeleteConnection(c)
  <2>1. /\ Len(audit') = Len(audit) /\ DOMAIN audit' = DOMAIN audit
        /\ \A i \in DOMAIN audit :
              /\ audit[i] \in AuditRow
              /\ audit'[i] = IF audit[i].conn = c THEN SetNull(audit[i]) ELSE audit[i]
    BY <1>2, <1>6, DeleteAudit DEF IInv, TypeOK
  <2>2. \A i \in DOMAIN audit :
           /\ audit'[i].call = audit[i].call
           /\ audit'[i].company = audit[i].company
           /\ audit'[i].status = audit[i].status
           /\ audit'[i].conn # None => audit'[i].conn = audit[i].conn /\ audit[i].conn # c
    BY <2>1, SetNullRow
  <2>3. \A k : RowsOf(k)' = RowsOf(k)
    BY <2>1, <2>2 DEF RowsOf
  <2>4. OneRowPerOutcome'
    <3>1. UNCHANGED << stage, session, charged, status >>
      BY <1>1 DEF call, who
    <3>2. \A k : RowsOf(k) \subseteq DOMAIN audit
      BY DEF RowsOf
    <3>3. \A k \in Calls : \A i \in RowsOf(k) :
             audit'[i].company = audit[i].company /\ audit'[i].status = audit[i].status
      BY <2>2, <3>2
    <3> QED BY <2>3, <3>1, <3>3 DEF IInv, OneRowPerOutcome, CompanyOf
  <2>5. \A d \in Connections \ {c} : rows'[d] = rows[d]
    BY <1>6 DEF DeleteConnection, IInv, TypeOK
  <2>6. \A i \in DOMAIN audit : audit[i].conn \in Connections \cup {None}
    BY TrailRow DEF IInv
  <2>7. ReferencesLive'
    BY <2>1, <2>2, <2>5, <2>6 DEF IInv, ReferencesLive
  <2> QED BY <1>2, <1>3, <1>4, <2>4, <2>7 DEF IInv
<1> QED BY <1>5, <1>6, AdminAudit DEF IInv

LEMMA RestartStep ==
    ASSUME IInv, Restart
    PROVE  IInv'
<1> USE DEF who
<1>1. TypeOK'
  BY EnvironmentType DEF IInv
<1>2. /\ epoch' = epoch + 1 /\ audit' = audit /\ rows' = rows
      /\ UNCHANGED << session, charged, pin, conn, gets, last, status >>
  BY DEF Restart
<1>3. \A k \in Calls :
         /\ stage'[k] = IF stage[k] \in InFlight THEN "lost" ELSE stage[k]
         /\ stage[k] \in { "idle" } \cup InFlight \cup Over
  BY DEF Restart, IInv, TypeOK, Stages
<1>4. CallInv'
  <2> SUFFICES ASSUME NEW k \in Calls PROVE Shape(k)' /\ Resolved(k)' /\ Retried(k)'
    BY DEF CallInv
  <2>1. Shape(k) /\ Resolved(k) /\ Retried(k)
    BY DEF IInv, CallInv
  <2>2. charged[k] # None => charged[k] \in Nat /\ epoch \in Nat
    BY DEF IInv, TypeOK
  <2>3. Shape(k)'
    BY <1>2, <1>3, <2>1, <2>2 DEF Shape, InFlight, Over
  <2>4. Resolved(k)'
    BY <1>2, <2>1 DEF Resolved, CompanyOf
  <2>5. Retried(k)'
    BY <1>2, <1>3, <2>1 DEF Retried, Truthful, InFlight, Over
  <2> QED BY <2>3, <2>4, <2>5
<1>5. ChargedExactly'
  BY ChargeRestart DEF IInv
<1>6. OneRowPerOutcome'
  <2>1. \A k : RowsOf(k)' = RowsOf(k)
    BY <1>2 DEF RowsOf
  <2> QED BY <1>2, <1>3, <2>1 DEF IInv, OneRowPerOutcome, CompanyOf, InFlight, Over
<1>7. ReferencesLive'
  BY <1>2 DEF IInv, ReferencesLive
<1> QED BY <1>1, <1>4, <1>5, <1>6, <1>7 DEF IInv

-----------------------------------------------------------------------------
(* The invariant, and the properties it implies.                           *)

LEMMA InitInv == Init => IInv
<1> SUFFICES ASSUME Init PROVE IInv
  OBVIOUS
<1>1. TypeOK
  BY InitType
<1>2. CallInv
  BY ToolConstants DEF Init, CallInv, Shape, Resolved, Retried, AuditStatuses, Refusals
<1>3. ChargedExactly
  <2>1. \A s \in Sessions : Admitted(s, epoch) = {}
    BY ToolConstants DEF Init, Admitted
  <2>2. Cardinality({}) = 0
    BY FS_EmptySet
  <2>3. 0 <= Budget
    BY ToolConstants
  <2> QED BY <2>1, <2>2, <2>3 DEF Init, ChargedExactly
<1>4. \A k : RowsOf(k) = {}
  BY DEF Init, RowsOf
<1>5. OneRowPerOutcome
  BY <1>4 DEF Init, OneRowPerOutcome
<1>6. ReferencesLive
  BY DEF Init, ReferencesLive
<1> QED BY <1>1, <1>2, <1>3, <1>5, <1>6 DEF IInv

LEMMA NextInv == IInv /\ [Next]_vars => IInv'
<1> SUFFICES ASSUME IInv, [Next]_vars PROVE IInv'
  OBVIOUS
<1>1. ASSUME NEW k \in Calls, CallNext(k) PROVE IInv'
  BY <1>1, CallType, CallStep, ChargeStep, TrailStep, ReferenceStep DEF IInv
<1>2. ASSUME NEW c \in Connections, AdminNext(c) PROVE IInv'
  BY <1>2, AdminStep
<1>3. CASE Restart
  BY <1>3, RestartStep
<1>4. CASE UNCHANGED vars
  BY <1>4 DEF IInv, TypeOK, CallInv, Shape, Resolved, Retried, Truthful, CompanyOf,
              ChargedExactly, Admitted, OneRowPerOutcome, RowsOf, ReferencesLive,
              vars, process, table, call, who
<1> QED BY <1>1, <1>2, <1>3, <1>4 DEF Next

THEOREM Invariance == Spec => []IInv
  BY InitInv, NextInv, PTL DEF Spec

\* The types hold: every local variable of a call, every row of the trail.
THEOREM TypeCorrect == Spec => []TypeOK
  BY Invariance, PTL DEF IInv

\* The counter of cost_guard.py is exact and within the budget, for any
\* number of concurrent calls and restarts.
THEOREM BudgetExact == Spec => []ChargedExactly
  BY Invariance, PTL DEF IInv

\* Every call that returns the outcome of a charged execution has left exactly
\* one row of audit_log that says so.
THEOREM TrailComplete == Spec => []OneRowPerOutcome
  BY Invariance, PTL DEF IInv

\* The foreign key of audit_log holds, with the right tenant.
THEOREM TrailReferences == Spec => []ReferencesLive
  BY Invariance, PTL DEF IInv

\* A call reaches SAP charged, and through its own tenant's connection.
THEOREM TenantIsolation == Spec => []RightConnection
<1>1. IInv => RightConnection
  BY ToolConstants DEF IInv, TypeOK, CallInv, Shape, Resolved, RightConnection
<1> QED BY <1>1, Invariance, PTL

\* At most MaxRetries + 1 GETs per call, and only after transient answers.
THEOREM RetryBound == Spec => []OnlyTransientRetried
<1>1. IInv => OnlyTransientRetried
  BY DEF IInv, CallInv, Retried, OnlyTransientRetried
<1> QED BY <1>1, Invariance, PTL

\* What the trail says of SAP's answers is what the taxonomy of audit.py has for
\* what SAP answered, but for the two Misfiled answers.
THEOREM TrailTruthful == Spec => []AuditTruthful
<1>1. IInv => AuditTruthful
  <2> SUFFICES ASSUME IInv, NEW i \in DOMAIN audit
               PROVE  Truthful(audit[i].status, audit[i].call)
    BY DEF AuditTruthful
  <2>1. audit[i].call \in Calls /\ audit[i].status \in AuditStatuses
    BY TrailRow DEF IInv
  <2>2. audit[i].status = status[audit[i].call]
    BY <2>1 DEF IInv, OneRowPerOutcome, RowsOf
  <2> QED BY <2>1, <2>2 DEF IInv, CallInv, Retried
<1> QED BY <1>1, Invariance, PTL

-----------------------------------------------------------------------------
(* What a step may do to the trail and to a call that is over.             *)

\* A call's step appends a row of its own, from "recording", or none.
LEMMA TrailGrows ==
    ASSUME IInv, NEW k \in Calls, CallNext(k)
    PROVE  /\ rows' = rows
           /\ \/ audit' = audit
              \/ /\ stage[k] = "recording"
                 /\ audit' \in Seq(AuditRow)
                 /\ Len(audit') = Len(audit) + 1
                 /\ \A i \in 1 .. Len(audit) : audit'[i] = audit[i]
                 /\ audit'[Len(audit) + 1].call = k
<1>1. CASE Record(k)
  <2>1. /\ stage[k] = "recording" /\ status[k] \in AuditStatuses
        /\ session[k] \in Sessions
    BY <1>1 DEF Record, Move, IInv, CallInv, Shape
  <2> DEFINE row == [ call |-> k, company |-> CompanyOf(k), conn |-> conn[k],
                      status |-> status[k] ]
  <2>2. row \in AuditRow /\ row.call = k
    BY <2>1, ToolConstants DEF AuditRow, CompanyOf, IInv, TypeOK
  <2>3. rows' = rows
    BY <1>1 DEF Record, table
  <2> HIDE DEF row
  <2>4. row = [ call |-> k, company |-> CompanyOf(k), conn |-> conn[k],
                status |-> status[k] ]
    BY DEF row
  <2> QED BY <1>1, <2>1, <2>2, <2>3, <2>4, RecordAudit DEF IInv, TypeOK
<1>2. CASE ~Record(k)
  BY <1>2 DEF CallNext, Progress, SessionUnknown, CostLimitExceeded, Admit,
              ResolveRow, LoadCredentials, SendGet, TokenRefused, TokenUnreachable,
              Answer, Return, table
<1> QED BY <1>1, <1>2

\* No row of the audit trail is lost or rewritten, except that deleting a
\* connection clears the references to it.
THEOREM TrailAppendOnly == Spec => AppendOnly
<1>1. ASSUME IInv, [Next]_vars
      PROVE  /\ Len(audit) <= Len(audit')
             /\ \A i \in DOMAIN audit : RowKept(i)
  <2>1. Len(audit) \in Nat /\ DOMAIN audit = 1 .. Len(audit)
    BY <1>1 DEF IInv, TypeOK
  <2>2. CASE audit' = audit
    BY <2>1, <2>2 DEF RowKept
  <2>3. ASSUME NEW k \in Calls, CallNext(k)
        PROVE  Len(audit) <= Len(audit') /\ \A i \in DOMAIN audit : RowKept(i)
    BY <1>1, <2>1, <2>2, <2>3, TrailGrows DEF RowKept
  <2>4. ASSUME NEW c \in Connections, DeleteConnection(c)
        PROVE  Len(audit) <= Len(audit') /\ \A i \in DOMAIN audit : RowKept(i)
    <3>1. rows'[c] = "deleted"
      BY <1>1, <2>4 DEF DeleteConnection, IInv, TypeOK
    <3>2. /\ Len(audit') = Len(audit)
          /\ \A i \in DOMAIN audit :
                audit'[i] = IF audit[i].conn = c THEN SetNull(audit[i]) ELSE audit[i]
      BY <1>1, <2>4, DeleteAudit DEF IInv, TypeOK
    <3> QED BY <2>1, <3>1, <3>2 DEF RowKept
  <2>5. CASE Restart \/ UNCHANGED vars
    BY <2>2, <2>5 DEF Restart, vars
  <2> QED BY <1>1, <2>2, <2>3, <2>4, <2>5, AdminAudit DEF IInv, Next
<1>2. IInv /\ [Next]_vars =>
        [ /\ Len(audit) <= Len(audit')
          /\ \A i \in DOMAIN audit : RowKept(i) ]_vars
  BY <1>1
<1> QED BY <1>2, Invariance, PTL DEF Spec, AppendOnly

\* Nothing reopens a call that has returned, raised or been lost.
THEOREM NothingAfterTheEnd == Spec => OverIsOver
<1> DEFINE Kept(k) == /\ UNCHANGED << stage[k], status[k], conn[k], gets[k], last[k] >>
                      /\ RowsOf(k)' = RowsOf(k)
<1>1. ASSUME IInv, [Next]_vars, NEW k \in Calls, stage[k] \in Over
      PROVE  Kept(k)
  <2>1. CASE audit' = audit /\ UNCHANGED << stage[k], status[k], conn[k], gets[k], last[k] >>
    BY <2>1 DEF RowsOf
  <2>2. ASSUME NEW j \in Calls, CallNext(j) PROVE Kept(k)
    <3>1. stage[j] \notin Over
      BY <2>2 DEF CallNext, Progress, SessionUnknown, CostLimitExceeded, Admit,
         ResolveRow, LoadCredentials, SendGet, TokenRefused, TokenUnreachable,
         Answer, Record, Return, Move, Fail, Over
    <3>2. UNCHANGED << stage[k], status[k], conn[k], gets[k], last[k] >>
      BY <1>1, <2>2, <3>1
         DEF CallNext, Progress, SessionUnknown, CostLimitExceeded, Admit,
         ResolveRow, LoadCredentials, SendGet, TokenRefused, TokenUnreachable,
         Answer, Record, Return, Move, Fail, who, IInv, TypeOK
    <3>3. CASE audit' = audit
      BY <2>1, <3>2, <3>3
    <3>4. CASE audit' # audit
      <4>0. /\ audit' \in Seq(AuditRow)
            /\ Len(audit') = Len(audit) + 1
            /\ \A i \in 1 .. Len(audit) : audit'[i] = audit[i]
            /\ audit'[Len(audit) + 1].call = j
        BY <1>1, <2>2, <3>4, TrailGrows
      <4>1. /\ DOMAIN audit = 1 .. Len(audit) /\ Len(audit) \in Nat
            /\ DOMAIN audit' = DOMAIN audit \cup { Len(audit) + 1 }
            /\ \A i \in DOMAIN audit : audit'[i] = audit[i]
            /\ audit'[Len(audit) + 1].call # k
        <5>1. audit \in Seq(AuditRow)
          BY <1>1 DEF IInv, TypeOK
        <5>2. j # k
          BY <1>1, <3>1
        <5> QED BY <4>0, <5>1, <5>2
      <4>2. RowsOf(k)' = RowsOf(k)
        BY <4>1 DEF RowsOf
      <4> QED BY <3>2, <4>2
    <3> QED BY <3>3, <3>4
  <2>3. ASSUME NEW c \in Connections, AdminNext(c) PROVE Kept(k)
    <3>1. UNCHANGED << stage[k], status[k], conn[k], gets[k], last[k] >>
      BY <2>3, AdminFrame DEF call
    <3>2. CASE DeleteConnection(c)
      <4>1. /\ Len(audit') = Len(audit) /\ DOMAIN audit' = DOMAIN audit
            /\ \A i \in DOMAIN audit :
                  /\ audit[i] \in AuditRow
                  /\ audit'[i] = IF audit[i].conn = c THEN SetNull(audit[i])
                                                     ELSE audit[i]
        BY <1>1, <3>2, DeleteAudit DEF IInv, TypeOK
      <4>2. \A i \in DOMAIN audit : audit'[i].call = audit[i].call
        BY <4>1, SetNullRow
      <4>3. RowsOf(k)' = RowsOf(k)
        BY <4>1, <4>2 DEF RowsOf
      <4> QED BY <3>1, <4>3
    <3> QED BY <1>1, <2>1, <2>3, <3>1, <3>2, AdminAudit DEF IInv
  <2>4. CASE Restart
    BY <1>1, <2>1, <2>4 DEF Restart, IInv, TypeOK, InFlight, Over, who
  <2>5. CASE UNCHANGED vars
    BY <2>1, <2>5 DEF vars, call
  <2> QED BY <1>1, <2>2, <2>3, <2>4, <2>5 DEF Next
<1>2. IInv /\ [Next]_vars =>
        [ \A k \in Calls : stage[k] \in Over =>
            /\ UNCHANGED << stage[k], status[k], conn[k], gets[k], last[k] >>
            /\ RowsOf(k)' = RowsOf(k) ]_vars
  BY <1>1
<1> QED BY <1>2, Invariance, PTL DEF Spec, OverIsOver

=============================================================================
