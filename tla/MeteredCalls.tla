----------------------------- MODULE MeteredCalls -----------------------------
(***************************************************************************)
(* What the tool pipeline promises its caller, whatever SAP, the network,  *)
(* the administrators and the process do: a call is either refused, for    *)
(* free, or charged to its session before anything else happens; a charged *)
(* call is told exactly the outcome that the audit trail holds for it, and *)
(* only once the trail holds it; a call that dies leaves at most that row. *)
(***************************************************************************)
EXTENDS Integers

CONSTANTS
    Calls,      \* tool calls, each made at most once
    Sessions,   \* agent sessions
    Outcomes,   \* what the trail may say of a call
    Refusals,   \* what a call that is not charged is told
    None,       \* nothing yet
    Budget      \* charged calls a session has between two crashes

VARIABLES
    phase,      \* where each call stands
    spent,      \* charged calls of each session since the last crash
    trail,      \* << call, outcome >> pairs, on disk
    told        \* what each call returned

vars == << phase, spent, trail, told >>

Phases == { "new", "refused", "charged", "logged", "answered", "dead" }

Init ==
    /\ phase = [ k \in Calls |-> "new" ]
    /\ spent = [ s \in Sessions |-> 0 ]
    /\ trail = {}
    /\ told = [ k \in Calls |-> None ]

Enter(k, from, to) ==
    /\ phase[k] = from
    /\ phase' = [ phase EXCEPT ![k] = to ]

Refuse(k) ==
    /\ Enter(k, "new", "refused")
    /\ \E refusal \in Refusals : told' = [ told EXCEPT ![k] = refusal ]
    /\ UNCHANGED << spent, trail >>

Charge(k, s) ==
    /\ Enter(k, "new", "charged")
    /\ spent[s] < Budget
    /\ spent' = [ spent EXCEPT ![s] = @ + 1 ]
    /\ UNCHANGED << trail, told >>

Log(k, outcome) ==
    /\ Enter(k, "charged", "logged")
    /\ trail' = trail \cup { << k, outcome >> }
    /\ UNCHANGED << spent, told >>

Tell(k, outcome) ==
    /\ Enter(k, "logged", "answered")
    /\ << k, outcome >> \in trail
    /\ told' = [ told EXCEPT ![k] = outcome ]
    /\ UNCHANGED << spent, trail >>

\* An exception no handler expects: the call is charged and leaves no row.
Die(k) ==
    /\ Enter(k, "charged", "dead")
    /\ UNCHANGED << spent, trail, told >>

\* The process dies: the counters and the calls in flight go, the trail stays.
Crash ==
    /\ phase' = [ k \in Calls |->
                    IF phase[k] \in { "charged", "logged" } THEN "dead" ELSE phase[k] ]
    /\ spent' = [ s \in Sessions |-> 0 ]
    /\ UNCHANGED << trail, told >>

Next ==
    \/ \E k \in Calls :
          \/ Refuse(k)
          \/ \E s \in Sessions : Charge(k, s)
          \/ \E outcome \in Outcomes : Log(k, outcome) \/ Tell(k, outcome)
          \/ Die(k)
    \/ Crash

Spec == Init /\ [][Next]_vars

=============================================================================
