----------------------------- MODULE OAuthToken -----------------------------
(***************************************************************************)
(* The bearer token of one OAuthClientCredentials (auth.py): coroutines    *)
(* that all want it, the asyncio.Lock in front of the cache, the POST for  *)
(* a new one while others wait, and time passing under all of it.          *)
(*                                                                         *)
(* asyncio.Lock is first come, first served, and a coroutine that acquires *)
(* it reads the clock and the cache without suspending: only the POST is   *)
(* awaited with the lock held, so the lock has a holder exactly while one  *)
(* is out.                                                                 *)
(***************************************************************************)
EXTENDS Integers, Sequences

CONSTANTS
    Coroutines,      \* callers of apply() on one client
    Buffer,          \* _expiry_buffer
    DefaultLife,     \* 3600, where expires_in is missing or not positive
    Lives,           \* the expires_in the token endpoint may declare
    NoToken,         \* _access_token is None
    None,
    MaxClock,        \* bound: ticks
    MaxApplies       \* bound: apply() calls

VARIABLES
    clock,        \* time.monotonic()
    accessToken,  \* _access_token: which of the tokens stored, or NoToken
    expiresAt,    \* _expires_at
    stored,       \* the tokens stored so far: when each was asked for and
                  \* minted, and how long it was said to live (history)
    holder,       \* the coroutine that holds the lock
    waiters,      \* those queued for it
    applies,      \* apply() calls begun
    \* and for each coroutine:
    pc,           \* idle, waiting, posting
    now,          \* the clock as _get_token read it
    minted,       \* when the endpoint made the token it is about to answer
    outcome       \* of its last apply()

cache == << accessToken, expiresAt, stored >>
lock == << holder, waiters, applies >>
local == << pc, now, minted, outcome >>
vars == << clock, cache, lock, local >>

ASSUME TokenConstants ==
    /\ Buffer \in Nat
    /\ DefaultLife \in Nat \ {0}
    /\ Lives \subseteq Int
    /\ NoToken \notin Nat
    /\ None \notin Nat \cup Coroutines
    /\ MaxClock \in Nat
    /\ MaxApplies \in Nat

Init ==
    /\ clock = 0
    /\ accessToken = NoToken
    /\ expiresAt = 0
    /\ stored = << >>
    /\ holder = None
    /\ waiters = << >>
    /\ pc = [ c \in Coroutines |-> "idle" ]
    /\ now = [ c \in Coroutines |-> 0 ]
    /\ minted = [ c \in Coroutines |-> None ]
    /\ outcome = [ c \in Coroutines |-> None ]
    /\ applies = 0

-----------------------------------------------------------------------------

\* apply(): the coroutine queues for the lock.
Apply(c) ==
    /\ pc[c] = "idle"
    /\ applies < MaxApplies
    /\ pc' = [ pc EXCEPT ![c] = "waiting" ]
    /\ applies' = applies + 1
    /\ outcome' = [ outcome EXCEPT ![c] = None ]
    /\ waiters' = Append(waiters, c)
    /\ UNCHANGED << clock, cache, holder, now, minted >>

\* The lock is free and it is this coroutine's turn.
Acquires(c) ==
    /\ holder = None
    /\ waiters # << >>
    /\ Head(waiters) = c
    /\ waiters' = Tail(waiters)

\* self._access_token and now < self._expires_at - self._expiry_buffer
Usable == accessToken # NoToken /\ clock < expiresAt - Buffer

\* The header is set to the token.
Hand(c) ==
    /\ pc' = [ pc EXCEPT ![c] = "idle" ]
    /\ outcome' = [ outcome EXCEPT ![c] = "token" ]

Reuse(c) ==
    /\ Acquires(c)
    /\ Usable
    /\ Hand(c)
    /\ UNCHANGED << clock, cache, holder, now, minted, applies >>

\* A bug the runs must catch: what another coroutine stored while this one
\* queued is not looked at.
RefreshUnchecked(c) ==
    /\ Acquires(c)
    /\ holder' = c
    /\ pc' = [ pc EXCEPT ![c] = "posting" ]
    /\ now' = [ now EXCEPT ![c] = clock ]
    /\ UNCHANGED << clock, cache, minted, outcome, applies >>

\* The POST goes out with the lock held.
Refresh(c) ==
    /\ Acquires(c)
    /\ ~Usable
    /\ holder' = c
    /\ pc' = [ pc EXCEPT ![c] = "posting" ]
    /\ now' = [ now EXCEPT ![c] = clock ]
    /\ UNCHANGED << clock, cache, minted, outcome, applies >>

\* The token endpoint makes a token: its life starts here.
Mint(c) ==
    /\ pc[c] = "posting"
    /\ minted[c] = None
    /\ minted' = [ minted EXCEPT ![c] = clock ]
    /\ UNCHANGED << clock, cache, lock, pc, now, outcome >>

Life(expiresIn) == IF expiresIn <= 0 THEN DefaultLife ELSE expiresIn

\* A bug the runs must catch: the life is counted from when the answer came.
ExpiryFromAnswer(c, expiresIn) == clock + Life(expiresIn)

\* now + float(expires_in)
Expiry(c, expiresIn) == now[c] + Life(expiresIn)

\* The block of the lock is left.
Released(c) ==
    /\ holder' = None
    /\ now' = [ now EXCEPT ![c] = 0 ]
    /\ minted' = [ minted EXCEPT ![c] = None ]

\* The answer arrives, usable: token and expiry are stored, the lock let go.
Fetched(c, expiresIn) ==
    /\ pc[c] = "posting"
    /\ minted[c] # None
    /\ stored' = Append(stored, [ asked |-> now[c], minted |-> minted[c],
                                  life |-> Life(expiresIn) ])
    /\ accessToken' = Len(stored) + 1
    /\ expiresAt' = Expiry(c, expiresIn)
    /\ Hand(c)
    /\ Released(c)
    /\ UNCHANGED << clock, waiters, applies >>

\* Two bugs the runs must catch: the lock stays with the coroutine that failed,
\* and the cache is emptied by a failure.
FailedWithLock(c) ==
    /\ pc[c] = "posting"
    /\ outcome' = [ outcome EXCEPT ![c] = "raised" ]
    /\ pc' = [ pc EXCEPT ![c] = "idle" ]
    /\ now' = [ now EXCEPT ![c] = 0 ]
    /\ minted' = [ minted EXCEPT ![c] = None ]
    /\ UNCHANGED << clock, cache, lock >>

FailedForgetting(c) ==
    /\ pc[c] = "posting"
    /\ outcome' = [ outcome EXCEPT ![c] = "raised" ]
    /\ pc' = [ pc EXCEPT ![c] = "idle" ]
    /\ accessToken' = NoToken
    /\ Released(c)
    /\ UNCHANGED << clock, expiresAt, stored, waiters, applies >>

\* The POST is refused, its answer is unusable or never comes, or the task is
\* cancelled: the exception leaves the lock's block, the cache is as it was.
Failed(c) ==
    /\ pc[c] = "posting"
    /\ outcome' = [ outcome EXCEPT ![c] = "raised" ]
    /\ pc' = [ pc EXCEPT ![c] = "idle" ]
    /\ Released(c)
    /\ UNCHANGED << clock, cache, waiters, applies >>

\* The queue without its i-th.
Without(i) ==
    [ j \in 1 .. Len(waiters) - 1 |-> IF j < i THEN waiters[j] ELSE waiters[j + 1] ]

\* A task cancelled while it queues leaves the queue.
Cancelled(c) ==
    /\ pc[c] = "waiting"
    /\ \E i \in 1 .. Len(waiters) : waiters[i] = c /\ waiters' = Without(i)
    /\ pc' = [ pc EXCEPT ![c] = "idle" ]
    /\ outcome' = [ outcome EXCEPT ![c] = "raised" ]
    /\ UNCHANGED << clock, cache, holder, now, minted, applies >>

Tick ==
    /\ clock < MaxClock
    /\ clock' = clock + 1
    /\ UNCHANGED << cache, lock, local >>

Step(c) ==
    \/ Apply(c) \/ Reuse(c) \/ Refresh(c) \/ Mint(c)
    \/ \E expiresIn \in Lives : Fetched(c, expiresIn)
    \/ Failed(c) \/ Cancelled(c)

Next == Tick \/ \E c \in Coroutines : Step(c)

Spec == Init /\ [][Next]_vars

\* The lock is handed on, and a POST is answered or times out: its client has
\* a timeout of 30 s.  Nobody has to call apply() or cancel.
Advance(c) ==
    \/ Reuse(c) \/ Refresh(c) \/ Failed(c)
    \/ \E expiresIn \in Lives : Fetched(c, expiresIn)

FairSpec == Spec /\ \A c \in Coroutines : WF_vars(Advance(c))

-----------------------------------------------------------------------------
(* Properties.                                                             *)

Token == [ asked : Nat, minted : Nat, life : Nat \ {0} ]

\* Every variable keeps its type, and the cache holds the last token stored,
\* whatever failed since.
TypeOK ==
    /\ clock \in Nat
    /\ stored \in Seq(Token)
    /\ accessToken = IF stored = << >> THEN NoToken ELSE Len(stored)
    /\ expiresAt \in Nat
    /\ holder \in Coroutines \cup {None}
    /\ waiters \in Seq(Coroutines)
    /\ pc \in [ Coroutines -> { "idle", "waiting", "posting" } ]
    /\ now \in [ Coroutines -> Nat ]
    /\ minted \in [ Coroutines -> Nat \cup {None} ]
    /\ outcome \in [ Coroutines -> { "token", "raised", None } ]
    /\ applies \in Nat

\* A token is handed over either fresh from its own POST or with more than the
\* buffer left of the life the endpoint gave it, counted from when it was made:
\* however long the POST took, the expiry kept never runs behind ("to avoid
\* races at the boundary", auth.py).
MarginKept ==
    [][ \A c \in Coroutines : Reuse(c) =>
            stored[accessToken].minted + stored[accessToken].life - clock > Buffer ]_vars

\* Coroutines share a refresh: while one token has more than the buffer left,
\* by the clock its own request read, no other is fetched, whoever asks and
\* however many were queueing when it came.
RefreshesSpaced ==
    \A i \in 1..Len(stored) : i + 1 <= Len(stored) =>
        stored[i + 1].asked >= stored[i].asked + stored[i].life - Buffer

\* No failure, refusal or cancellation leaves the lock taken: every apply()
\* ends.
AppliesEnd == \A c \in Coroutines : pc[c] # "idle" ~> pc[c] = "idle"

=============================================================================
