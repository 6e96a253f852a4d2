---------------------------- MODULE RateLimiter -----------------------------
(***************************************************************************)
(* The sliding-window limiter in front of every HTTP route (rate_limit.py).*)
(* One worker process: each has buckets of its own, so a deployment is as  *)
(* many independent copies of this module.  check() does not suspend: its  *)
(* asyncio.Lock is never held across an await, so it is always free; one   *)
(* request is one step.                                                    *)
(*                                                                         *)
(* The clock is monotonic(), in ticks finer than a second: the rounding of *)
(* Retry-After to whole seconds is part of what is checked.                *)
(***************************************************************************)
EXTENDS Integers, Sequences, FiniteSets

CONSTANTS
    Companies,        \* tenants
    Buckets,          \* "read", "write", "heavy"
    Limit,            \* [Buckets -> Nat], the Limits dataclass
    WindowSeconds,    \* Limits.window_seconds
    TicksPerSecond,   \* resolution of the clock
    None,             \* no Retry-After outstanding
    MaxClock          \* bound: ticks

Keys == Companies \X Buckets
Window == WindowSeconds * TicksPerSecond
LimitFor(key) == Limit[key[2]]

ASSUME LimiterConstants ==
    /\ Limit \in [ Buckets -> Nat \ {0} ]
    /\ WindowSeconds \in Nat \ {0}
    /\ TicksPerSecond \in Nat \ {0}
    /\ None \notin Int
    /\ MaxClock \in Nat

VARIABLES
    clock,      \* monotonic()
    admitted,   \* when each request of a key was let through (history)
    kept,       \* the list _buckets[key], by position in admitted[key]
    hint        \* when the last refused client was told to come back, if
                \* nobody of its key has been let through since (history)

vars == << clock, admitted, kept, hint >>

Init ==
    /\ clock = 0
    /\ admitted = [ key \in Keys |-> << >> ]
    /\ kept = [ key \in Keys |-> {} ]
    /\ hint = [ key \in Keys |-> None ]

-----------------------------------------------------------------------------

\* A bug the runs must catch: a timestamp on the cutoff is kept.
FreshWithCutoff(key) == { i \in kept[key] : admitted[key][i] >= clock - Window }

\* timestamps[:] = [t for t in timestamps if t > cutoff]
Fresh(key) == { i \in kept[key] : admitted[key][i] > clock - Window }

\* A bug the runs must catch: timestamps[-1].
OldestIsNewest(key) ==
    CHOOSE i \in Fresh(key) : \A j \in Fresh(key) : j <= i

\* timestamps[0]
Oldest(key) ==
    CHOOSE i \in Fresh(key) : \A j \in Fresh(key) : i <= j

AtLeastOne(n) == IF n < 1 THEN 1 ELSE n

\* A bug the runs must catch: the wait is rounded down.
RetryAfterRoundedDown(key) ==
    AtLeastOne((admitted[key][Oldest(key)] + Window - clock) \div TicksPerSecond)

\* The Retry-After header, in seconds.  int() truncates a positive float.
RetryAfter(key) ==
    AtLeastOne((admitted[key][Oldest(key)] + Window - clock) \div TicksPerSecond + 1)

\* Two bugs the runs must catch: one request too many, and a position that is
\* off by one.
AdmitOneMore(key) ==
    /\ Cardinality(Fresh(key)) <= LimitFor(key)
    /\ admitted' = [ admitted EXCEPT ![key] = Append(@, clock) ]
    /\ kept' = [ kept EXCEPT ![key] = Fresh(key) \cup { Len(admitted[key]) + 1 } ]
    /\ hint' = [ hint EXCEPT ![key] = None ]
    /\ UNCHANGED clock
AdmitFromZero(key) ==
    /\ Cardinality(Fresh(key)) < LimitFor(key)
    /\ admitted' = [ admitted EXCEPT ![key] = Append(@, clock) ]
    /\ kept' = [ kept EXCEPT ![key] = Fresh(key) \cup { Len(admitted[key]) } ]
    /\ hint' = [ hint EXCEPT ![key] = None ]
    /\ UNCHANGED clock

Admit(key) ==
    /\ Cardinality(Fresh(key)) < LimitFor(key)
    /\ admitted' = [ admitted EXCEPT ![key] = Append(@, clock) ]
    /\ kept' = [ kept EXCEPT ![key] = Fresh(key) \cup { Len(admitted[key]) + 1 } ]
    /\ hint' = [ hint EXCEPT ![key] = None ]
    /\ UNCHANGED clock

\* HTTP 429; a refused request leaves no timestamp.
Refuse(key) ==
    /\ Cardinality(Fresh(key)) >= LimitFor(key)
    /\ kept' = [ kept EXCEPT ![key] = Fresh(key) ]
    /\ hint' = [ hint EXCEPT ![key] = clock + RetryAfter(key) * TicksPerSecond ]
    /\ UNCHANGED << clock, admitted >>

Request(key) == Admit(key) \/ Refuse(key)

\* reset(), or a plugin reload: the buckets live in memory.
Reset ==
    /\ admitted' = [ key \in Keys |-> << >> ]
    /\ kept' = [ key \in Keys |-> {} ]
    /\ hint' = [ key \in Keys |-> None ]
    /\ UNCHANGED clock

Tick ==
    /\ clock < MaxClock
    /\ clock' = clock + 1
    /\ UNCHANGED << admitted, kept, hint >>

Next ==
    \/ \E key \in Keys : Request(key)
    \/ Reset
    \/ Tick

Spec == Init /\ [][Next]_vars

-----------------------------------------------------------------------------
(* Properties.                                                             *)

\* The type invariant.
TypeOK ==
    /\ clock \in Nat
    /\ admitted \in [ Keys -> Seq(Nat) ]
    /\ kept \in [ Keys -> SUBSET (Nat \ {0}) ]
    /\ hint \in [ Keys -> Nat \cup {None} ]

\* A hard cap: however the requests fall, no stretch of time shorter than the
\* window sees more than the limit of one company and bucket let through.
HardCap ==
    \A key \in Keys : \A i \in DOMAIN admitted[key] :
        i + LimitFor(key) \in DOMAIN admitted[key]
            => admitted[key][i + LimitFor(key)] - admitted[key][i] >= Window

\* Never over-counts: a request is refused only when its own company has had
\* the whole limit of that bucket let through within the window.
NoFalseRefusal ==
    [][ \A key \in Keys : Refuse(key) =>
            Cardinality({ i \in DOMAIN admitted[key] :
                            admitted[key][i] > clock - Window }) = LimitFor(key) ]_vars

\* Retry-After is honest: a client that comes back when it was told to, with
\* nobody of its key let through in between, is let through.
RetryAfterHonoured ==
    [][ \A key \in Keys :
            /\ Request(key)
            /\ hint[key] # None
            /\ clock >= hint[key]
            => Admit(key) ]_vars

\* ... and it is not told to wait more than a second beyond the moment the
\* oldest request that counts against it leaves the window.
RetryAfterTight ==
    \A key \in Keys : hint[key] # None =>
        \A i \in kept[key] : hint[key] <= admitted[key][i] + Window + TicksPerSecond

=============================================================================
