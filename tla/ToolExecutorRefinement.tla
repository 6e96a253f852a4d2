------------------------ MODULE ToolExecutorRefinement ------------------------
(***************************************************************************)
(* The pipeline of ToolExecutor keeps the promise of MeteredCalls: its     *)
(* awaits on the database, the token endpoint and SAP, its retries and     *)
(* everything the administrators do to the connections table are stutters  *)
(* of the promise, or the death of one call.                               *)
(***************************************************************************)
EXTENDS ToolExecutor

\* The phase of the promise a call is in. A call that returned without ever
\* having been charged was refused.
PhaseOf(k) ==
    CASE stage[k] = "idle"                           -> "new"
      [] stage[k] \in InFlight \ {"recorded"}        -> "charged"
      [] stage[k] = "recorded"                       -> "logged"
      [] stage[k] = "returned" /\ charged[k] = None  -> "refused"
      [] stage[k] = "returned" /\ charged[k] # None  -> "answered"
      [] OTHER                                       -> "dead"

ToldTo(k) == IF stage[k] = "returned" THEN status[k] ELSE None

\* What the trail says, apart from the reference a DELETE may clear.
Recorded == { << audit[i].call, audit[i].status >> : i \in DOMAIN audit }

Promise == INSTANCE MeteredCalls WITH
    Outcomes <- AuditStatuses,
    phase <- [ k \in Calls |-> PhaseOf(k) ],
    spent <- counts,
    trail <- Recorded,
    told  <- [ k \in Calls |-> ToldTo(k) ]

\* Every behaviour of the pipeline is one of the promise: in particular the
\* agent is never told an outcome other than the one on record, and no step
\* of an administrator, not even a DELETE, changes what the trail says.
Implemented == Promise!Spec

=============================================================================
