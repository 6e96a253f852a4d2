-------------------------- MODULE OAuthTokenProofs --------------------------
(***************************************************************************)
(* The margin of a token that is handed over again, and the spacing of the *)
(* refreshes, for any coroutines, buffer, lives and clock.                 *)
(***************************************************************************)
EXTENDS OAuthToken, TLAPS

-----------------------------------------------------------------------------
(* The inductive invariant.                                                *)

\* The lock has a holder exactly while a POST is out.
LockInv == \A c \in Coroutines :
    /\ pc[c] = "posting" <=> holder = c
    /\ minted[c] # None => pc[c] = "posting"

\* A POST went out when the token stored then was no longer usable, and its own
\* token is made after that.
PostInv == \A c \in Coroutines :
    /\ now[c] <= clock
    /\ minted[c] # None => now[c] <= minted[c]
    /\ pc[c] = "posting" /\ stored # << >> => now[c] >= expiresAt - Buffer

\* The expiry kept is that of the last token stored, counted from its request.
StoredInv ==
    /\ \A i \in 1..Len(stored) : stored[i].asked <= stored[i].minted
    /\ stored # << >> =>
          expiresAt = stored[Len(stored)].asked + stored[Len(stored)].life

IInv == TypeOK /\ LockInv /\ PostInv /\ StoredInv /\ RefreshesSpaced

LEMMA InitInv == Init => IInv
<1> SUFFICES ASSUME Init PROVE IInv
  OBVIOUS
<1> USE TokenConstants DEF Init
<1>1. TypeOK
  BY DEF TypeOK
<1>2. LockInv /\ PostInv
  BY DEF LockInv, PostInv
<1>3. StoredInv /\ RefreshesSpaced
  BY DEF StoredInv, RefreshesSpaced
<1> QED BY <1>1, <1>2, <1>3 DEF IInv

-----------------------------------------------------------------------------
(* What the actions do to the queue and to the history.                    *)

\* Leaving the queue leaves a queue.
LEMMA WithoutType ==
    ASSUME waiters \in Seq(Coroutines), NEW i \in 1 .. Len(waiters)
    PROVE  Without(i) \in Seq(Coroutines)
<1>1. Len(waiters) - 1 \in Nat
  OBVIOUS
<1>2. \A j \in 1 .. Len(waiters) - 1 :
         (IF j < i THEN waiters[j] ELSE waiters[j + 1]) \in Coroutines
  OBVIOUS
<1> QED BY <1>1, <1>2 DEF Without

\* Whoever acquires the lock, the queue that is left is one.
LEMMA AcquiresType ==
    ASSUME TypeOK, NEW c \in Coroutines, Acquires(c)
    PROVE  waiters' \in Seq(Coroutines) /\ holder = None
BY DEF TypeOK, Acquires

\* The numbers in a token.
LEMMA TokenType ==
    ASSUME NEW token \in Token
    PROVE  token.asked \in Nat /\ token.minted \in Nat /\ token.life \in Nat
BY DEF Token

\* A life is a positive number.
LEMMA LifeType ==
    ASSUME NEW expiresIn \in Lives
    PROVE  Life(expiresIn) \in Nat \ {0}
BY TokenConstants DEF Life

-----------------------------------------------------------------------------
(* One lemma per action.                                                   *)

LEMMA ApplyInv == ASSUME IInv, NEW c \in Coroutines, Apply(c) PROVE IInv'
<1> USE TokenConstants DEF IInv, Apply, cache
<1>1. TypeOK'
  BY DEF TypeOK
<1>2. LockInv'
  BY DEF LockInv, TypeOK
<1>3. PostInv'
  BY DEF PostInv, TypeOK
<1>4. StoredInv' /\ RefreshesSpaced'
  BY DEF StoredInv, RefreshesSpaced
<1> QED BY <1>1, <1>2, <1>3, <1>4

LEMMA ReuseInv == ASSUME IInv, NEW c \in Coroutines, Reuse(c) PROVE IInv'
<1> USE TokenConstants, AcquiresType DEF IInv, Reuse, Hand, cache
<1>1. TypeOK'
  BY DEF TypeOK
<1>2. LockInv'
  BY DEF LockInv, TypeOK
<1>3. PostInv'
  BY DEF PostInv, TypeOK
<1>4. StoredInv' /\ RefreshesSpaced'
  BY DEF StoredInv, RefreshesSpaced
<1> QED BY <1>1, <1>2, <1>3, <1>4

LEMMA RefreshInv == ASSUME IInv, NEW c \in Coroutines, Refresh(c) PROVE IInv'
<1> USE TokenConstants, AcquiresType DEF IInv, Refresh, cache
<1>1. TypeOK'
  BY DEF TypeOK
<1>2. LockInv'
  BY DEF LockInv, TypeOK
<1>3. stored # << >> => clock >= expiresAt - Buffer
  BY DEF Usable, TypeOK
<1>4. PostInv'
  BY <1>3 DEF PostInv, LockInv, TypeOK
<1>5. StoredInv' /\ RefreshesSpaced'
  BY DEF StoredInv, RefreshesSpaced
<1> QED BY <1>1, <1>2, <1>4, <1>5

LEMMA MintInv == ASSUME IInv, NEW c \in Coroutines, Mint(c) PROVE IInv'
<1> USE TokenConstants DEF IInv, Mint, cache, lock
<1>1. TypeOK'
  BY DEF TypeOK
<1>2. LockInv'
  BY DEF LockInv, TypeOK
<1>3. PostInv'
  BY DEF PostInv, TypeOK
<1>4. StoredInv' /\ RefreshesSpaced'
  BY DEF StoredInv, RefreshesSpaced
<1> QED BY <1>1, <1>2, <1>3, <1>4

\* The new token was asked for when the last one was no longer usable.
LEMMA FetchedInv ==
    ASSUME IInv, NEW c \in Coroutines, NEW expiresIn \in Lives, Fetched(c, expiresIn)
    PROVE  IInv'
<1> USE TokenConstants DEF IInv, Fetched, Hand, Released
<1> DEFINE token == [ asked |-> now[c], minted |-> minted[c], life |-> Life(expiresIn) ]
<1>1. token \in Token /\ token.asked <= token.minted
  BY LifeType DEF Token, TypeOK, PostInv
<1>2. /\ stored' = Append(stored, token)
      /\ stored' \in Seq(Token)
      /\ Len(stored) \in Nat
      /\ Len(stored') = Len(stored) + 1
      /\ \A i \in 1..Len(stored) : stored'[i] = stored[i]
      /\ stored'[Len(stored')] = token
  BY <1>1 DEF TypeOK
<1>3. TypeOK'
  <2>1. stored' # << >> /\ accessToken' = Len(stored')
    BY <1>2
  <2>2. expiresAt' \in Nat
    BY LifeType DEF Expiry, TypeOK
  <2> QED BY <1>2, <2>1, <2>2 DEF TypeOK
<1>4. LockInv'
  BY DEF LockInv, TypeOK
<1>5. PostInv'
  <2>1. \A d \in Coroutines : pc'[d] # "posting"
    BY DEF LockInv, TypeOK
  <2> QED BY <2>1 DEF PostInv, LockInv, TypeOK
<1>6. StoredInv'
  <2>1. expiresAt' = token.asked + token.life
    BY DEF Expiry
  <2>2. \A i \in 1..Len(stored') : stored'[i].asked <= stored'[i].minted
    BY <1>1, <1>2 DEF StoredInv
  <2> QED BY <1>2, <2>1, <2>2 DEF StoredInv
<1>7. RefreshesSpaced'
  <2> SUFFICES ASSUME NEW i \in 1..Len(stored'), i + 1 <= Len(stored')
               PROVE  stored'[i + 1].asked >= stored'[i].asked + stored'[i].life - Buffer
    BY DEF RefreshesSpaced
  <2>1. CASE i + 1 <= Len(stored)
    BY <2>1, <1>2 DEF RefreshesSpaced
  <2>2. CASE i = Len(stored)
    <3>1. stored # << >> /\ stored'[i] = stored[Len(stored)] /\ stored'[i + 1] = token
      BY <2>2, <1>2
    <3>2. token.asked >= expiresAt - Buffer
      BY <3>1 DEF PostInv
    <3>3. token \in Token /\ stored[i] \in Token /\ expiresAt \in Nat
      BY <2>2, <1>1, <1>2 DEF TypeOK
    <3>4. expiresAt = stored[i].asked + stored[i].life
      BY <3>1, <2>2 DEF StoredInv
    <3> HIDE DEF token
    <3>5. /\ token.asked \in Nat /\ stored[i].asked \in Nat /\ stored[i].life \in Nat
          /\ Buffer \in Nat
      BY <3>3, TokenType
    <3>6. token.asked >= stored[i].asked + stored[i].life - Buffer
      BY <3>2, <3>4, <3>5, SMTT(40)
    <3>7. stored'[i] = stored[i]
      BY <2>2, <3>1
    <3> QED BY <3>1, <3>6, <3>7, Zenon
  <2> QED BY <2>1, <2>2, <1>2
<1> QED BY <1>3, <1>4, <1>5, <1>6, <1>7

LEMMA FailedInv == ASSUME IInv, NEW c \in Coroutines, Failed(c) PROVE IInv'
<1> USE TokenConstants DEF IInv, Failed, Released, cache
<1>1. TypeOK'
  BY DEF TypeOK
<1>2. LockInv'
  BY DEF LockInv, TypeOK
<1>3. PostInv'
  BY DEF PostInv, LockInv, TypeOK
<1>4. StoredInv' /\ RefreshesSpaced'
  BY DEF StoredInv, RefreshesSpaced
<1> QED BY <1>1, <1>2, <1>3, <1>4

LEMMA CancelledInv == ASSUME IInv, NEW c \in Coroutines, Cancelled(c) PROVE IInv'
<1> USE TokenConstants DEF IInv, Cancelled, cache
<1>1. TypeOK'
  BY WithoutType DEF TypeOK
<1>2. LockInv'
  BY DEF LockInv, TypeOK
<1>3. PostInv'
  BY DEF PostInv, TypeOK
<1>4. StoredInv' /\ RefreshesSpaced'
  BY DEF StoredInv, RefreshesSpaced
<1> QED BY <1>1, <1>2, <1>3, <1>4

LEMMA TickInv == ASSUME IInv, Tick PROVE IInv'
<1> USE TokenConstants DEF IInv, Tick, cache, lock, local
<1>1. TypeOK'
  BY DEF TypeOK
<1>2. LockInv'
  BY DEF LockInv
<1>3. PostInv'
  BY DEF PostInv, TypeOK
<1>4. StoredInv' /\ RefreshesSpaced'
  BY DEF StoredInv, RefreshesSpaced
<1> QED BY <1>1, <1>2, <1>3, <1>4

LEMMA NextInv == IInv /\ [Next]_vars => IInv'
<1> SUFFICES ASSUME IInv, [Next]_vars PROVE IInv'
  OBVIOUS
<1>1. CASE Tick
  BY <1>1, TickInv
<1>2. ASSUME NEW c \in Coroutines, Step(c) PROVE IInv'
  <2>1. CASE Apply(c)
    BY <2>1, ApplyInv
  <2>2. CASE Reuse(c)
    BY <2>2, ReuseInv
  <2>3. CASE Refresh(c)
    BY <2>3, RefreshInv
  <2>4. CASE Mint(c)
    BY <2>4, MintInv
  <2>5. CASE \E expiresIn \in Lives : Fetched(c, expiresIn)
    BY <2>5, FetchedInv
  <2>6. CASE Failed(c)
    BY <2>6, FailedInv
  <2>7. CASE Cancelled(c)
    BY <2>7, CancelledInv
  <2> QED BY <1>2, <2>1, <2>2, <2>3, <2>4, <2>5, <2>6, <2>7 DEF Step
<1>3. CASE UNCHANGED vars
  BY <1>3 DEF vars, cache, lock, local, IInv, TypeOK, LockInv, PostInv, StoredInv,
              RefreshesSpaced
<1> QED BY <1>1, <1>2, <1>3 DEF Next

-----------------------------------------------------------------------------
(* The theorems.                                                           *)

\* The invariant holds in every reachable state.
THEOREM Invariant == Spec => []IInv
BY InitInv, NextInv, PTL DEF Spec

\* Every variable keeps its type, and the cache holds the last token stored,
\* whatever failed or was cancelled since.
THEOREM TypeCorrect == Spec => []TypeOK
<1>1. IInv => TypeOK
  BY DEF IInv
<1> QED BY <1>1, Invariant, PTL

\* However many coroutines queue for the lock, one POST serves them: no token is
\* asked for while the last one has more than the buffer left.
THEOREM OneRefreshAtATime == Spec => []RefreshesSpaced
<1>1. IInv => RefreshesSpaced
  BY DEF IInv
<1> QED BY <1>1, Invariant, PTL

\* A token handed over again has more than the buffer left of its true life,
\* however long the POST for it took.
THEOREM MarginAlwaysKept == Spec => MarginKept
<1>1. ASSUME IInv, NEW c \in Coroutines, Reuse(c)
      PROVE  stored[accessToken].minted + stored[accessToken].life - clock > Buffer
  <2>1. accessToken # NoToken /\ clock < expiresAt - Buffer
    BY <1>1 DEF Reuse, Usable
  <2>2. stored # << >> /\ accessToken = Len(stored) /\ accessToken \in 1..Len(stored)
    BY <1>1, <2>1 DEF IInv, TypeOK
  <2>3. /\ stored[accessToken] \in Token
        /\ stored[accessToken].asked <= stored[accessToken].minted
        /\ expiresAt = stored[accessToken].asked + stored[accessToken].life
    BY <1>1, <2>2 DEF IInv, TypeOK, StoredInv
  <2> DEFINE token == stored[accessToken]
  <2>4. token.asked \in Nat /\ token.minted \in Nat /\ token.life \in Nat
    BY <2>3, TokenType
  <2>5. Buffer \in Nat /\ clock \in Nat /\ expiresAt \in Nat
    BY <1>1, TokenConstants DEF IInv, TypeOK
  <2>6. token.asked <= token.minted /\ clock < token.asked + token.life - Buffer
    BY <2>1, <2>3, <2>4, <2>5
  <2> HIDE DEF token
  <2>7. token.minted + token.life - clock > Buffer
    BY <2>4, <2>5, <2>6
  <2> QED BY <2>7 DEF token
<1>2. IInv => [ \A c \in Coroutines : Reuse(c) =>
                  stored[accessToken].minted + stored[accessToken].life - clock > Buffer ]_vars
  BY <1>1
<1> QED BY <1>2, Invariant, PTL DEF MarginKept
=============================================================================
