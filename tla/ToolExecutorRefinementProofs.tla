--------------------- MODULE ToolExecutorRefinementProofs ---------------------
(***************************************************************************)
(* ToolExecutor implements MeteredCalls for every value of the constants:  *)
(* each action is one step of the promise, or a stutter of it.             *)
(***************************************************************************)
EXTENDS ToolExecutorRefinement, ToolExecutorProofs

\* What the promise sees of one call.
SameView(k) == PhaseOf(k)' = PhaseOf(k) /\ ToldTo(k)' = ToldTo(k)

-----------------------------------------------------------------------------
(* What a step does to the view of the calls and of the trail.             *)

\* A call's step is seen by no other call.
LEMMA OthersView ==
    ASSUME IInv, NEW k \in Calls, CallNext(k), NEW j \in Calls \ {k}
    PROVE  SameView(j)
<1>1. stage'[j] = stage[j] /\ charged'[j] = charged[j] /\ status'[j] = status[j]
  BY DEF CallNext, Progress, SessionUnknown, CostLimitExceeded, Admit,
         ResolveRow, LoadCredentials, SendGet, TokenRefused, TokenUnreachable,
         Answer, Record, Return, Move, Fail, who, IInv, TypeOK
<1> QED BY <1>1 DEF SameView, PhaseOf, ToldTo

\* So the view as a whole changes in one place.
LEMMA ViewUpdate ==
    ASSUME NEW k \in Calls, \A j \in Calls \ {k} : SameView(j)
    PROVE  /\ [ j \in Calls |-> PhaseOf(j) ]'
                  = [ [ j \in Calls |-> PhaseOf(j) ] EXCEPT ![k] = PhaseOf(k)' ]
           /\ [ j \in Calls |-> ToldTo(j) ]'
                  = [ [ j \in Calls |-> ToldTo(j) ] EXCEPT ![k] = ToldTo(k)' ]
  BY DEF SameView

LEMMA SameTrailView == audit' = audit => Recorded' = Recorded
  BY DEF Recorded

\* A DELETE rewrites rows of the trail, and the promise does not see it.
LEMMA DeleteView ==
    ASSUME IInv, NEW c \in Connections, DeleteConnection(c)
    PROVE  Recorded' = Recorded
<1>1. /\ Len(audit') = Len(audit)
      /\ \A i \in DOMAIN audit :
            /\ audit[i] \in AuditRow
            /\ audit'[i] = IF audit[i].conn = c THEN SetNull(audit[i]) ELSE audit[i]
  BY DeleteAudit DEF IInv, TypeOK
<1>2. \A i \in DOMAIN audit :
         audit'[i].call = audit[i].call /\ audit'[i].status = audit[i].status
  BY <1>1, SetNullRow
<1>3. DOMAIN audit' = DOMAIN audit
  BY DeleteAudit DEF IInv, TypeOK
<1> QED BY <1>2, <1>3 DEF Recorded

\* The INSERT adds the outcome of its call, or raises.
LEMMA RecordView ==
    ASSUME IInv, NEW k \in Calls, Record(k)
    PROVE  \/ /\ Move(k, "recording", "recorded")
              /\ Recorded' = Recorded \cup { << k, status[k] >> }
           \/ /\ Move(k, "recording", "raised")
              /\ Recorded' = Recorded
<1>1. /\ stage[k] = "recording" /\ status[k] \in AuditStatuses
      /\ session[k] \in Sessions
  BY DEF Record, Move, IInv, CallInv, Shape
<1> DEFINE row == [ call |-> k, company |-> CompanyOf(k), conn |-> conn[k],
                    status |-> status[k] ]
<1>2. row \in AuditRow /\ row.call = k /\ row.status = status[k]
  BY <1>1, ToolConstants DEF AuditRow, CompanyOf, IInv, TypeOK
<1>3. row = [ call |-> k, company |-> CompanyOf(k), conn |-> conn[k],
              status |-> status[k] ]
  OBVIOUS
<1> HIDE DEF row
<1>4. audit \in Seq(AuditRow)
  BY DEF IInv, TypeOK
<1>5. CASE audit' = audit /\ Move(k, "recording", "raised")
  BY <1>5, SameTrailView
<1>6. CASE /\ audit' \in Seq(AuditRow)
           /\ Len(audit') = Len(audit) + 1
           /\ \A i \in 1 .. Len(audit) : audit'[i] = audit[i]
           /\ audit'[Len(audit) + 1] = row
           /\ Move(k, "recording", "recorded")
  <2>1. /\ DOMAIN audit = 1 .. Len(audit) /\ Len(audit) \in Nat
        /\ DOMAIN audit' = DOMAIN audit \cup { Len(audit) + 1 }
    BY <1>4, <1>6
  <2>2. Recorded' = Recorded \cup { << k, status[k] >> }
    BY <1>2, <1>6, <2>1 DEF Recorded
  <2> QED BY <1>6, <2>2
<1> QED BY <1>2, <1>3, <1>4, <1>5, <1>6, RecordAudit

-----------------------------------------------------------------------------
(* The steps.                                                              *)

LEMMA PromiseInit == Init => Promise!Init
<1> SUFFICES ASSUME Init PROVE Promise!Init
  OBVIOUS
<1>1. \A k \in Calls : PhaseOf(k) = "new" /\ ToldTo(k) = None
  BY DEF Init, PhaseOf, ToldTo, InFlight
<1>2. Recorded = {}
  BY DEF Init, Recorded
<1> QED BY <1>1, <1>2 DEF Init, Promise!Init

\* The awaits before the INSERT are stutters.
LEMMA AwaitView ==
    ASSUME IInv, NEW k \in Calls,
           \/ ResolveRow(k)
           \/ LoadCredentials(k)
           \/ SendGet(k)
           \/ TokenRefused(k)
           \/ \E answer \in Answers : Answer(k, answer)
    PROVE  SameView(k) /\ counts' = counts /\ Recorded' = Recorded
<1>1. /\ stage[k] \in { "resolving", "loading", "authenticating", "waiting" }
      /\ stage'[k] \in { "loading", "authenticating", "waiting", "recording" }
      /\ audit' = audit /\ counts' = counts
  BY DEF ResolveRow, LoadCredentials, SendGet, TokenRefused, Answer, Move, Fail,
         process, IInv, TypeOK
<1>2. PhaseOf(k) = "charged" /\ ToldTo(k) = None
  BY <1>1 DEF PhaseOf, ToldTo, InFlight
<1>3. PhaseOf(k)' = "charged" /\ ToldTo(k)' = None
  BY <1>1 DEF PhaseOf, ToldTo, InFlight
<1> QED BY <1>1, <1>2, <1>3, SameTrailView DEF SameView

LEMMA CallPromise ==
    ASSUME IInv, NEW k \in Calls, CallNext(k)
    PROVE  [Promise!Next]_(Promise!vars)
<1> DEFINE phases == [ j \in Calls |-> PhaseOf(j) ]
           tolds == [ j \in Calls |-> ToldTo(j) ]
<1>1. /\ phases' = [ phases EXCEPT ![k] = PhaseOf(k)' ]
      /\ tolds' = [ tolds EXCEPT ![k] = ToldTo(k)' ]
  BY OthersView, ViewUpdate
<1>2. phases[k] = PhaseOf(k) /\ tolds[k] = ToldTo(k)
  OBVIOUS
<1>3. /\ phases = [ j \in Calls |-> phases[j] ]
      /\ tolds = [ j \in Calls |-> tolds[j] ]
  OBVIOUS
<1> HIDE DEF phases, tolds
<1>4. ASSUME SameView(k), counts' = counts, Recorded' = Recorded
      PROVE  UNCHANGED Promise!vars
  <2>1. phases' = phases /\ tolds' = tolds
    BY <1>1, <1>2, <1>3, <1>4 DEF SameView
  <2> QED BY <1>4, <2>1 DEF Promise!vars, phases, tolds
<1>5. charged[k] = None => stage[k] \in { "idle", "returned" }
  BY DEF IInv, CallInv, Shape
<1>6. stage[k] = "idle" => charged[k] = None /\ status[k] = None
  BY DEF IInv, CallInv, Shape
<1>7. CASE SessionUnknown(k) \/ \E s \in Sessions : CostLimitExceeded(k, s)
  <2>1. /\ stage[k] = "idle" /\ stage'[k] = "returned" /\ charged' = charged
        /\ status'[k] \in Refusals /\ counts' = counts /\ audit' = audit
    BY <1>7 DEF SessionUnknown, CostLimitExceeded, Move, who, process, Refusals,
                IInv, TypeOK
  <2>2. PhaseOf(k) = "new" /\ ToldTo(k) = None
    BY <2>1 DEF PhaseOf, ToldTo, InFlight
  <2>3. PhaseOf(k)' = "refused" /\ ToldTo(k)' \in Refusals
    BY <1>6, <2>1 DEF PhaseOf, ToldTo, InFlight
  <2>4. Promise!Refuse(k)
    BY <1>1, <1>2, <2>1, <2>2, <2>3, SameTrailView
       DEF Promise!Refuse, Promise!Enter, phases, tolds
  <2> QED BY <2>4 DEF Promise!Next
<1>8. ASSUME NEW s \in Sessions, NEW scope \in Connections \cup {None}, Admit(k, s, scope)
      PROVE  [Promise!Next]_(Promise!vars)
  <2>1. /\ stage[k] = "idle" /\ stage'[k] = "resolving" /\ audit' = audit
        /\ counts[s] < Budget /\ counts' = [ counts EXCEPT ![s] = @ + 1 ]
    BY <1>8 DEF Admit, Move, IInv, TypeOK
  <2>2. PhaseOf(k) = "new" /\ ToldTo(k) = None
    BY <2>1 DEF PhaseOf, ToldTo, InFlight
  <2>3. PhaseOf(k)' = "charged" /\ ToldTo(k)' = None
    BY <2>1 DEF PhaseOf, ToldTo, InFlight
  <2>4. tolds' = tolds
    BY <1>1, <1>2, <1>3, <2>2, <2>3
  <2>5. Promise!Charge(k, s)
    BY <1>1, <1>2, <2>1, <2>2, <2>3, <2>4, SameTrailView
       DEF Promise!Charge, Promise!Enter, phases, tolds
  <2> QED BY <2>5 DEF Promise!Next
<1>9. CASE \/ ResolveRow(k) \/ LoadCredentials(k) \/ SendGet(k) \/ TokenRefused(k)
           \/ \E answer \in Answers : Answer(k, answer)
  BY <1>4, <1>9, AwaitView
<1>10. ASSUME stage[k] \in { "authenticating", "recording" }, stage'[k] = "raised",
              counts' = counts, Recorded' = Recorded
       PROVE  [Promise!Next]_(Promise!vars)
  <2>1. PhaseOf(k) = "charged" /\ ToldTo(k) = None
    BY <1>10 DEF PhaseOf, ToldTo, InFlight
  <2>2. PhaseOf(k)' = "dead" /\ ToldTo(k)' = None
    BY <1>10 DEF PhaseOf, ToldTo, InFlight
  <2>3. tolds' = tolds
    BY <1>1, <1>2, <1>3, <2>1, <2>2
  <2>4. Promise!Die(k)
    BY <1>1, <1>2, <1>10, <2>1, <2>2, <2>3
       DEF Promise!Die, Promise!Enter, phases, tolds
  <2> QED BY <2>4 DEF Promise!Next
<1>11. CASE TokenUnreachable(k)
  <2>1. /\ stage[k] = "authenticating" /\ stage'[k] = "raised"
        /\ counts' = counts /\ audit' = audit
    BY <1>11 DEF TokenUnreachable, Move, process, IInv, TypeOK
  <2> QED BY <1>10, <2>1, SameTrailView
<1>12. CASE Record(k)
  <2>1. counts' = counts /\ stage[k] = "recording" /\ status[k] \in AuditStatuses
    BY <1>12 DEF Record, Move, process, IInv, CallInv, Shape
  <2>2. CASE Move(k, "recording", "raised") /\ Recorded' = Recorded
    BY <1>10, <2>1, <2>2 DEF Move, IInv, TypeOK
  <2>3. CASE /\ Move(k, "recording", "recorded")
             /\ Recorded' = Recorded \cup { << k, status[k] >> }
    <3>1. stage'[k] = "recorded"
      BY <2>3 DEF Move, IInv, TypeOK
    <3>2. PhaseOf(k) = "charged" /\ ToldTo(k) = None
      BY <2>1 DEF PhaseOf, ToldTo, InFlight
    <3>3. PhaseOf(k)' = "logged" /\ ToldTo(k)' = None
      BY <3>1 DEF PhaseOf, ToldTo, InFlight
    <3>4. tolds' = tolds
      BY <1>1, <1>2, <1>3, <3>2, <3>3
    <3>5. Promise!Log(k, status[k])
      BY <1>1, <1>2, <2>1, <2>3, <3>2, <3>3, <3>4
         DEF Promise!Log, Promise!Enter, phases, tolds
    <3> QED BY <2>1, <3>5 DEF Promise!Next
  <2> QED BY <1>12, <2>2, <2>3, RecordView
<1>13. CASE Return(k)
  <2>1. /\ stage[k] = "recorded" /\ stage'[k] = "returned" /\ charged' = charged
        /\ status' = status /\ counts' = counts /\ audit' = audit
        /\ status[k] \in AuditStatuses
    BY <1>13 DEF Return, Move, who, process, IInv, TypeOK, CallInv, Shape
  <2>2. PhaseOf(k) = "logged" /\ ToldTo(k) = None
    BY <2>1 DEF PhaseOf, ToldTo, InFlight
  <2>3. PhaseOf(k)' = "answered" /\ ToldTo(k)' = status[k]
    BY <1>5, <2>1 DEF PhaseOf, ToldTo, InFlight
  <2>4. << k, status[k] >> \in Recorded
    BY <1>5, <2>1 DEF IInv, OneRowPerOutcome, RowsOf, Recorded
  <2>5. Promise!Tell(k, status[k])
    BY <1>1, <1>2, <2>1, <2>2, <2>3, <2>4, SameTrailView
       DEF Promise!Tell, Promise!Enter, phases, tolds
  <2> QED BY <2>1, <2>5 DEF Promise!Next
<1> QED BY <1>7, <1>8, <1>9, <1>11, <1>12, <1>13 DEF CallNext, Progress

\* Nothing an administrator does is seen.
LEMMA AdminPromise ==
    ASSUME IInv, NEW c \in Connections, AdminNext(c)
    PROVE  UNCHANGED Promise!vars
<1>1. UNCHANGED << process, call >>
  BY AdminFrame
<1>2. Recorded' = Recorded
  BY AdminAudit, DeleteView, SameTrailView DEF IInv
<1>3. \A k \in Calls : SameView(k)
  BY <1>1 DEF SameView, PhaseOf, ToldTo, call, who
<1> QED BY <1>1, <1>2, <1>3 DEF Promise!vars, SameView, process

LEMMA RestartPromise ==
    ASSUME IInv, Restart
    PROVE  Promise!Crash
<1>1. \A k \in Calls :
         /\ stage'[k] = IF stage[k] \in InFlight THEN "lost" ELSE stage[k]
         /\ stage[k] \in Stages
  BY DEF Restart, IInv, TypeOK
<1>2. audit' = audit /\ charged' = charged /\ status' = status
      /\ counts' = [ s \in Sessions |-> 0 ]
  BY DEF Restart, who
<1>3. \A k \in Calls :
         /\ PhaseOf(k)' = IF PhaseOf(k) \in { "charged", "logged" } THEN "dead"
                                                                   ELSE PhaseOf(k)
         /\ ToldTo(k)' = ToldTo(k)
  BY <1>1, <1>2 DEF PhaseOf, ToldTo, Stages, InFlight, Over
<1> QED BY <1>2, <1>3, SameTrailView DEF Promise!Crash

\* The pipeline implements the promise: whatever fails, a call is told exactly
\* what is on record for it, was charged first, and is never told twice.
THEOREM PipelineKeepsPromise == Spec => Implemented
<1>1. IInv /\ [Next]_vars => [Promise!Next]_(Promise!vars)
  <2> SUFFICES ASSUME IInv, [Next]_vars PROVE [Promise!Next]_(Promise!vars)
    OBVIOUS
  <2>1. CASE Restart
    BY <2>1, RestartPromise DEF Promise!Next
  <2>2. CASE UNCHANGED vars
    <3>1. UNCHANGED << counts, audit, stage, charged, status >>
      BY <2>2 DEF vars, process, call, who
    <3> QED BY <3>1, SameTrailView DEF Promise!vars, PhaseOf, ToldTo
  <2> QED BY <2>1, <2>2, CallPromise, AdminPromise DEF Next
<1> QED BY <1>1, PromiseInit, Invariance, PTL DEF Spec, Implemented, Promise!Spec

=============================================================================
