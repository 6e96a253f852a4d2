------------------------- MODULE RateLimiterProofs --------------------------
(***************************************************************************)
(* The cap, the absence of false refusals and the honesty of Retry-After,  *)
(* for any limits, any window and any resolution of the clock.             *)
(***************************************************************************)
EXTENDS RateLimiter, FiniteSetTheorems, WellFoundedInduction, SequenceTheorems, TLAPS

-----------------------------------------------------------------------------
(* The inductive invariant: the list of a key holds exactly the timestamps *)
(* that can still matter, in the order they were taken.                    *)

InWindow(key) == { i \in DOMAIN admitted[key] : admitted[key][i] > clock - Window }

KeyInv(key) ==
    /\ kept[key] \subseteq DOMAIN admitted[key]
    /\ \A i \in DOMAIN admitted[key] \ kept[key] : admitted[key][i] <= clock - Window
    /\ \A i \in DOMAIN admitted[key] : admitted[key][i] <= clock
    /\ \A i, j \in DOMAIN admitted[key] : i <= j => admitted[key][i] <= admitted[key][j]
    /\ Cardinality(kept[key]) <= LimitFor(key)

\* A standing Retry-After outlasts the timestamp whose departure makes room.
HintInv(key) ==
    LET room == Len(admitted[key]) - LimitFor(key) + 1
    IN  hint[key] # None =>
            /\ room \in DOMAIN admitted[key]
            /\ admitted[key][room] + Window <= hint[key]

KeysInv == \A key \in Keys : KeyInv(key) /\ HintInv(key)

IInv == TypeOK /\ KeysInv /\ HardCap /\ RetryAfterTight

-----------------------------------------------------------------------------
(* The arithmetic and the sets one check works on.                         *)

LEMMA WindowType == Window \in Nat \ {0} /\ \A key \in Keys : LimitFor(key) \in Nat \ {0}
<1>1. \A a, b \in Nat \ {0} : a * b \in Nat \ {0}
  OBVIOUS
<1>2. Window \in Nat \ {0}
  BY <1>1, LimiterConstants DEF Window
<1> QED BY <1>2, LimiterConstants DEF LimitFor, Keys

\* The filter keeps every timestamp of the window, and nothing else.
LEMMA FreshIsWindow ==
    ASSUME NEW key \in Keys, TypeOK, KeyInv(key)
    PROVE  /\ Fresh(key) = InWindow(key)
           /\ Fresh(key) \subseteq DOMAIN admitted[key]
           /\ IsFiniteSet(Fresh(key))
           /\ Cardinality(Fresh(key)) \in Nat
           /\ Cardinality(Fresh(key)) <= LimitFor(key)
<1>1. /\ admitted[key] \in Seq(Nat) /\ Len(admitted[key]) \in Nat
      /\ DOMAIN admitted[key] = 1 .. Len(admitted[key])
      /\ clock \in Nat
  BY DEF TypeOK
<1>2. Fresh(key) = InWindow(key)
  BY <1>1, WindowType DEF KeyInv, Fresh, InWindow
<1>3. IsFiniteSet(DOMAIN admitted[key])
  BY <1>1, FS_Interval
<1>4. Fresh(key) \subseteq kept[key] /\ kept[key] \subseteq DOMAIN admitted[key]
  BY DEF KeyInv, Fresh
<1>5. IsFiniteSet(kept[key]) /\ IsFiniteSet(Fresh(key))
  BY <1>3, <1>4, FS_Subset
<1>6. Cardinality(Fresh(key)) <= Cardinality(kept[key])
  BY <1>4, <1>5, FS_Subset
<1>7. Cardinality(Fresh(key)) \in Nat /\ Cardinality(kept[key]) \in Nat
  BY <1>5, FS_CardinalityType
<1> QED BY <1>2, <1>4, <1>5, <1>6, <1>7, WindowType DEF KeyInv

LEMMA InitInv == Init => IInv
<1> SUFFICES ASSUME Init PROVE IInv
  OBVIOUS
<1>1. TypeOK
  BY DEF Init, TypeOK
<1>2. KeysInv
  BY FS_EmptySet, WindowType DEF Init, KeysInv, KeyInv, HintInv
<1>3. HardCap /\ RetryAfterTight
  BY DEF Init, HardCap, RetryAfterTight
<1> QED BY <1>1, <1>2, <1>3 DEF IInv

\* A key whose bucket a step does not touch, or only filters.
LEMMA KeyKept ==
    ASSUME TypeOK, NEW key \in Keys, KeyInv(key), clock' \in Nat, clock' >= clock,
           admitted'[key] = admitted[key],
           \/ kept'[key] = kept[key]
           \/ kept'[key] = Fresh(key)
    PROVE  KeyInv(key)'
<1>1. /\ admitted[key] \in Seq(Nat) /\ clock \in Nat
      /\ \A i \in DOMAIN admitted[key] : admitted[key][i] \in Nat
  BY DEF TypeOK
<1>2. /\ kept'[key] \subseteq DOMAIN admitted[key]
      /\ \A i \in DOMAIN admitted[key] \ kept'[key] : admitted[key][i] <= clock - Window
  <2>1. CASE kept'[key] = kept[key]
    BY <2>1 DEF KeyInv
  <2>2. CASE kept'[key] = Fresh(key)
    BY <1>1, <2>2, FreshIsWindow, WindowType DEF InWindow
  <2> QED BY <2>1, <2>2
<1>3. Cardinality(kept'[key]) <= LimitFor(key)
  BY FreshIsWindow DEF KeyInv
<1>4. \A i \in DOMAIN admitted[key] :
         /\ admitted[key][i] <= clock'
         /\ admitted[key][i] <= clock - Window => admitted[key][i] <= clock' - Window
  BY <1>1, WindowType DEF KeyInv
<1> QED BY <1>2, <1>3, <1>4 DEF KeyInv, LimitFor

\* A non-empty set of numbers has a least element.
LEMMA LeastNumber ==
    ASSUME NEW S \in SUBSET Nat, S # {}
    PROVE  \E m \in S : \A i \in S : m <= i
<1> DEFINE before == OpToRel(<, Nat)
<1>1. before = { pair \in Nat \X Nat : pair[1] < pair[2] }
  BY DEF OpToRel
<1>2. IsWellFoundedOn(before, Nat)
  BY NatLessThanWellFounded
<1> HIDE DEF before
<1>3. \E m \in S : \A i \in S : ~ (<< i, m >> \in before)
  BY <1>2, WFMin
<1>4. \A i, m \in S : ~ (<< i, m >> \in before) => m <= i
  BY <1>1
<1> QED BY <1>3, <1>4

\* Rounding up to whole seconds: beyond the delay, by at most a second.
LEMMA RoundUp ==
    ASSUME NEW d \in Nat, NEW t \in Nat \ {0}
    PROVE  LET n == AtLeastOne(d \div t + 1)
           IN  n * t \in Nat /\ d < n * t /\ n * t <= d + t
<1> DEFINE q == d \div t
<1>1. q \in Nat /\ d = (t * q) + (d % t) /\ d % t \in 0 .. (t - 1)
  OBVIOUS
<1>2. AtLeastOne(q + 1) = q + 1
  BY <1>1 DEF AtLeastOne
<1> HIDE DEF q
<1>3. (q + 1) * t = t * q + t
  BY <1>1
<1>4. t * q \in Nat
  BY <1>1
<1>5. (q + 1) * t \in Nat /\ d < (q + 1) * t /\ (q + 1) * t <= d + t
  BY <1>1, <1>3, <1>4
<1> QED BY <1>2, <1>5 DEF q

-----------------------------------------------------------------------------
(* The two answers to a request.                                           *)

\* Where a refused key stands: the window holds the last LimitFor(key)
\* positions, and Oldest is the first of them.
LEMMA RefusedWindow ==
    ASSUME TypeOK, NEW key \in Keys, KeyInv(key), Refuse(key)
    PROVE  LET room == Len(admitted[key]) - LimitFor(key) + 1
           IN  /\ room \in Fresh(key)
               /\ clock < admitted[key][room] + Window
               /\ admitted[key][room] + Window <= hint'[key]
               /\ hint'[key] <= admitted[key][room] + Window + TicksPerSecond
               /\ hint'[key] \in Nat
               /\ \A i \in Fresh(key) : admitted[key][room] <= admitted[key][i]
<1> DEFINE n == Len(admitted[key])
<1>1. /\ n \in Nat /\ DOMAIN admitted[key] = 1 .. n /\ clock \in Nat
      /\ \A i \in 1 .. n : admitted[key][i] \in Nat
  BY DEF TypeOK
<1>2. /\ LimitFor(key) \in Nat \ {0} /\ Window \in Nat \ {0}
      /\ TicksPerSecond \in Nat \ {0}
  BY WindowType, LimiterConstants
<1> HIDE DEF n
<1>3. /\ Fresh(key) = InWindow(key) /\ Fresh(key) \subseteq 1 .. n
      /\ Cardinality(Fresh(key)) = LimitFor(key)
  BY <1>1, <1>2, FreshIsWindow DEF Refuse
<1>4. PICK m \in Fresh(key) : \A i \in Fresh(key) : m <= i
  <2>1. Fresh(key) # {}
    BY <1>2, <1>3, FS_EmptySet
  <2>2. Fresh(key) \in SUBSET Nat
    BY <1>3
  <2> QED BY <2>1, <2>2, LeastNumber
<1>5. m \in 1 .. n
  BY <1>3, <1>4
<1>6. Oldest(key) = m
  <2>1. Oldest(key) \in Fresh(key) /\ \A i \in Fresh(key) : Oldest(key) <= i
    BY <1>4 DEF Oldest
  <2> QED BY <1>3, <1>4, <1>5, <2>1
<1>7. Fresh(key) = m .. n
  <2>1. ASSUME NEW i \in m .. n PROVE i \in Fresh(key)
    <3>1. i \in 1 .. n /\ m <= i
      BY <1>1, <1>5
    <3>2. admitted[key][m] <= admitted[key][i]
      BY <1>1, <1>5, <3>1 DEF KeyInv
    <3>3. admitted[key][m] > clock - Window
      BY <1>3, <1>4 DEF InWindow
    <3> QED BY <1>1, <1>2, <1>3, <1>5, <3>1, <3>2, <3>3 DEF InWindow
  <2>2. ASSUME NEW i \in Fresh(key) PROVE i \in m .. n
    BY <1>1, <1>3, <1>4, <1>5
  <2> QED BY <2>1, <2>2
<1>8. m = n - LimitFor(key) + 1
  BY <1>1, <1>2, <1>3, <1>5, <1>7, FS_Interval
<1>9. clock < admitted[key][m] + Window
  BY <1>1, <1>2, <1>3, <1>4, <1>5 DEF InWindow
<1> DEFINE d == admitted[key][m] + Window - clock
           wait == RetryAfter(key) * TicksPerSecond
<1>10. wait \in Nat /\ d < wait /\ wait <= d + TicksPerSecond
  <2>1. d \in Nat
    BY <1>1, <1>2, <1>5, <1>9
  <2>2. wait = AtLeastOne(d \div TicksPerSecond + 1) * TicksPerSecond
    BY <1>6 DEF RetryAfter
  <2> QED BY <1>2, <2>1, <2>2, RoundUp
<1>11. hint'[key] = clock + wait
  BY DEF Refuse, TypeOK
<1> HIDE DEF wait
<1>12. /\ admitted[key][m] + Window <= hint'[key]
       /\ hint'[key] <= admitted[key][m] + Window + TicksPerSecond
       /\ hint'[key] \in Nat
  BY <1>1, <1>2, <1>5, <1>10, <1>11
<1>13. \A i \in Fresh(key) : admitted[key][m] <= admitted[key][i]
  BY <1>1, <1>3, <1>4, <1>5 DEF KeyInv
<1> QED BY <1>4, <1>8, <1>9, <1>12, <1>13 DEF n

\* Admitting a request: the key's own invariant, and the cap up to the new
\* position.
LEMMA AdmittedKey ==
    ASSUME TypeOK, NEW key \in Keys, KeyInv(key), Admit(key)
    PROVE  LET n == Len(admitted[key])
           IN  /\ admitted'[key] = Append(admitted[key], clock)
               /\ KeyInv(key)'
               /\ \A i \in 1 .. n : i + LimitFor(key) = n + 1
                     => clock - admitted[key][i] >= Window
<1> DEFINE n == Len(admitted[key])
<1>1. /\ n \in Nat /\ DOMAIN admitted[key] = 1 .. n /\ clock \in Nat
      /\ admitted[key] \in Seq(Nat)
      /\ \A i \in 1 .. n : admitted[key][i] \in Nat
  BY DEF TypeOK
<1>2. LimitFor(key) \in Nat \ {0} /\ Window \in Nat \ {0}
  BY WindowType
<1>3. /\ Fresh(key) = InWindow(key) /\ Fresh(key) \subseteq 1 .. n
      /\ Cardinality(Fresh(key)) < LimitFor(key)
      /\ IsFiniteSet(Fresh(key)) /\ Cardinality(Fresh(key)) \in Nat
  BY <1>1, FreshIsWindow DEF Admit
<1>4. /\ admitted'[key] = Append(admitted[key], clock)
      /\ kept'[key] = Fresh(key) \cup { n + 1 }
      /\ clock' = clock
  BY DEF Admit, TypeOK
<1> HIDE DEF n
<1>5. /\ DOMAIN admitted'[key] = 1 .. n + 1
      /\ \A i \in 1 .. n : admitted'[key][i] = admitted[key][i]
      /\ admitted'[key][n + 1] = clock
  BY <1>1, <1>4 DEF n
<1>6. Cardinality(kept'[key]) <= LimitFor(key)
  <2>1. n + 1 \notin Fresh(key)
    BY <1>1, <1>3
  <2>2. Cardinality(kept'[key]) = Cardinality(Fresh(key)) + 1
    BY <1>3, <1>4, <2>1, FS_AddElement
  <2> QED BY <1>2, <1>3, <2>2
<1>7. \A i \in 1 .. n + 1 : i \notin kept'[key] => admitted'[key][i] <= clock - Window
  BY <1>1, <1>2, <1>3, <1>4, <1>5 DEF InWindow
<1>8. \A i, j \in 1 .. n + 1 : i <= j => admitted'[key][i] <= admitted'[key][j]
  <2>1. \A i, j \in 1 .. n : i <= j => admitted[key][i] <= admitted[key][j]
    BY <1>1 DEF KeyInv
  <2>2. \A i \in 1 .. n : admitted[key][i] <= clock
    BY <1>1 DEF KeyInv
  <2>3. \A j \in 1 .. n + 1 : j \in 1 .. n \/ j = n + 1
    BY <1>1
  <2> QED BY <1>1, <1>5, <2>1, <2>2, <2>3
<1>9. \A i \in 1 .. n + 1 : admitted'[key][i] <= clock
  BY <1>1, <1>5 DEF KeyInv
<1>10. KeyInv(key)'
  BY <1>1, <1>3, <1>4, <1>5, <1>6, <1>7, <1>8, <1>9 DEF KeyInv, LimitFor
<1>11. ASSUME NEW i \in 1 .. n, i + LimitFor(key) = n + 1
       PROVE  clock - admitted[key][i] >= Window
  <2>1. CASE i \notin Fresh(key)
    BY <1>1, <1>2, <1>3, <2>1 DEF InWindow
  <2>2. CASE i \in Fresh(key)
    <3>1. i .. n \subseteq Fresh(key)
      <4> SUFFICES ASSUME NEW j \in i .. n PROVE j \in Fresh(key)
        OBVIOUS
      <4>1. j \in 1 .. n /\ i <= j
        BY <1>1
      <4>2. admitted[key][i] <= admitted[key][j]
        BY <1>1, <4>1 DEF KeyInv
      <4>3. admitted[key][i] > clock - Window
        BY <1>3, <2>2 DEF InWindow
      <4> QED BY <1>1, <1>2, <1>3, <4>1, <4>2, <4>3, SMTT(40) DEF InWindow
    <3>2. Cardinality(i .. n) <= Cardinality(Fresh(key))
      BY <1>3, <3>1, FS_Subset
    <3>3. Cardinality(i .. n) = n - i + 1
      BY <1>1, FS_Interval
    <3> QED BY <1>1, <1>2, <1>3, <1>11, <3>2, <3>3
  <2> QED BY <2>1, <2>2
<1> QED BY <1>4, <1>10, <1>11 DEF n

LEMMA AdmitStep ==
    ASSUME IInv, NEW key \in Keys, Admit(key)
    PROVE  IInv'
<1>1. TypeOK /\ KeyInv(key) /\ HardCap
  BY DEF IInv, KeysInv
<1> DEFINE n == Len(admitted[key])
<1>2. /\ n \in Nat /\ DOMAIN admitted[key] = 1 .. n
      /\ admitted[key] \in Seq(Nat) /\ clock \in Nat
  BY <1>1 DEF TypeOK
<1>3. /\ admitted'[key] = Append(admitted[key], clock)
      /\ KeyInv(key)'
      /\ \A i \in 1 .. n : i + LimitFor(key) = n + 1
            => clock - admitted[key][i] >= Window
  BY <1>1, AdmittedKey
<1>4. /\ clock' = clock /\ hint'[key] = None
      /\ kept'[key] = Fresh(key) \cup { n + 1 }
      /\ \A other \in Keys \ {key} :
            /\ admitted'[other] = admitted[other]
            /\ kept'[other] = kept[other]
            /\ hint'[other] = hint[other]
  BY <1>1 DEF Admit, TypeOK
<1>5. TypeOK'
  <2>1. Fresh(key) \subseteq DOMAIN admitted[key]
    BY <1>1, FreshIsWindow
  <2>2. Fresh(key) \cup { n + 1 } \subseteq Nat \ {0}
    BY <1>2, <2>1
  <2>3. Append(admitted[key], clock) \in Seq(Nat)
    BY <1>2
  <2> HIDE DEF n
  <2>4. kept'[key] \subseteq Nat \ {0}
    BY <1>4, <2>2
  <2>5. kept' \in [ Keys -> SUBSET (Nat \ {0}) ]
    BY <1>1, <1>4, <2>4 DEF TypeOK, Admit
  <2>6. admitted' \in [ Keys -> Seq(Nat) ]
    BY <1>1, <2>3 DEF TypeOK, Admit
  <2> QED BY <1>1, <1>4, <2>5, <2>6 DEF TypeOK, Admit
<1>6. KeysInv'
  <2>1. ASSUME NEW other \in Keys \ {key} PROVE KeyInv(other)' /\ HintInv(other)'
    <3>1. KeyInv(other) /\ HintInv(other)
      BY DEF IInv, KeysInv
    <3>2. KeyInv(other)'
      BY <1>1, <1>2, <1>4, <3>1, KeyKept
    <3> QED BY <1>4, <3>1, <3>2 DEF HintInv, LimitFor
  <2>2. HintInv(key)'
    BY <1>4 DEF HintInv
  <2> QED BY <1>3, <2>1, <2>2 DEF KeysInv
<1>7. HardCap'
  <2> SUFFICES ASSUME NEW k \in Keys, NEW i \in DOMAIN admitted'[k],
                      i + LimitFor(k) \in DOMAIN admitted'[k]
               PROVE  admitted'[k][i + LimitFor(k)] - admitted'[k][i] >= Window
    BY DEF HardCap, LimitFor
  <2>1. CASE k # key
    BY <1>1, <1>4, <2>1 DEF HardCap
  <2>2. CASE k = key
    <3> HIDE DEF n
    <3>0. LimitFor(key) \in Nat \ {0}
      BY WindowType
    <3>1. /\ DOMAIN admitted'[key] = 1 .. n + 1
          /\ \A j \in 1 .. n : admitted'[key][j] = admitted[key][j]
          /\ admitted'[key][n + 1] = clock
      BY <1>2, <1>3 DEF n
    <3>2. i \in 1 .. n /\ i + LimitFor(key) \in 1 .. n + 1
      BY <1>2, <2>2, <3>0, <3>1
    <3>3. CASE i + LimitFor(key) \in 1 .. n
      BY <1>1, <1>2, <2>2, <3>1, <3>2, <3>3 DEF HardCap
    <3>4. CASE i + LimitFor(key) = n + 1
      BY <1>3, <2>2, <3>1, <3>2, <3>4
    <3> QED BY <1>2, <3>2, <3>3, <3>4
  <2> QED BY <2>1, <2>2
<1>8. RetryAfterTight'
  BY <1>4 DEF IInv, RetryAfterTight
<1> QED BY <1>5, <1>6, <1>7, <1>8 DEF IInv

LEMMA RefuseStep ==
    ASSUME IInv, NEW key \in Keys, Refuse(key)
    PROVE  IInv'
<1>1. TypeOK /\ KeyInv(key) /\ HardCap
  BY DEF IInv, KeysInv
<1>2. /\ clock' = clock /\ admitted' = admitted /\ clock \in Nat
      /\ kept'[key] = Fresh(key)
      /\ \A other \in Keys \ {key} :
            kept'[other] = kept[other] /\ hint'[other] = hint[other]
  BY <1>1 DEF Refuse, TypeOK
<1> DEFINE room == Len(admitted[key]) - LimitFor(key) + 1
<1>3. /\ room \in Fresh(key)
      /\ admitted[key][room] + Window <= hint'[key]
      /\ hint'[key] <= admitted[key][room] + Window + TicksPerSecond
      /\ hint'[key] \in Nat
      /\ \A i \in Fresh(key) : admitted[key][room] <= admitted[key][i]
  BY <1>1, RefusedWindow
<1>4. Fresh(key) \subseteq DOMAIN admitted[key]
  BY <1>1, FreshIsWindow
<1>5. TypeOK'
  <2>1. Fresh(key) \subseteq Nat \ {0}
    BY <1>1 DEF Fresh, TypeOK
  <2> QED BY <1>1, <1>2, <1>3, <2>1 DEF TypeOK, Refuse
<1>6. KeysInv'
  <2>1. ASSUME NEW k \in Keys PROVE KeyInv(k)'
    BY <1>1, <1>2, KeyKept DEF IInv, KeysInv
  <2>2. ASSUME NEW other \in Keys \ {key} PROVE HintInv(other)'
    BY <1>2 DEF IInv, KeysInv, HintInv, LimitFor
  <2>3. HintInv(key)'
    BY <1>2, <1>3, <1>4 DEF HintInv, LimitFor
  <2> QED BY <2>1, <2>2, <2>3 DEF KeysInv
<1>7. HardCap'
  BY <1>1, <1>2 DEF HardCap, LimitFor
<1>8. RetryAfterTight'
  <2>1. \A other \in Keys \ {key} : hint'[other] # None =>
           \A i \in kept'[other] :
              hint'[other] <= admitted'[other][i] + Window + TicksPerSecond
    BY <1>2 DEF IInv, RetryAfterTight
  <2>2. ASSUME NEW i \in Fresh(key)
        PROVE  hint'[key] <= admitted[key][i] + Window + TicksPerSecond
    <3>1. /\ admitted[key][i] \in Nat /\ admitted[key][room] \in Nat
          /\ Window \in Nat /\ TicksPerSecond \in Nat
      BY <1>1, <1>3, <1>4, WindowType, LimiterConstants, SMTT(40) DEF TypeOK
    <3>2. admitted[key][room] <= admitted[key][i]
      BY <1>3
    <3> HIDE DEF room
    <3> QED BY <1>3, <3>1, <3>2
  <2> QED BY <1>2, <2>1, <2>2 DEF RetryAfterTight
<1> QED BY <1>5, <1>6, <1>7, <1>8 DEF IInv

LEMMA NextInv == IInv /\ [Next]_vars => IInv'
<1> SUFFICES ASSUME IInv, [Next]_vars PROVE IInv'
  OBVIOUS
<1>1. ASSUME NEW key \in Keys, Request(key) PROVE IInv'
  BY <1>1, AdmitStep, RefuseStep DEF Request
<1>2. CASE Reset
  <2>1. TypeOK'
    BY <1>2 DEF Reset, IInv, TypeOK
  <2>2. KeysInv'
    BY <1>2, FS_EmptySet, WindowType
       DEF Reset, KeysInv, KeyInv, HintInv, LimitFor
  <2>3. HardCap' /\ RetryAfterTight'
    BY <1>2 DEF Reset, HardCap, RetryAfterTight
  <2> QED BY <2>1, <2>2, <2>3 DEF IInv
<1>3. CASE Tick \/ UNCHANGED vars
  <2>1. /\ clock' \in Nat /\ clock' >= clock
        /\ UNCHANGED << admitted, kept, hint >>
    BY <1>3 DEF Tick, vars, IInv, TypeOK
  <2>2. TypeOK'
    BY <2>1 DEF IInv, TypeOK
  <2>3. \A key \in Keys : KeyInv(key)'
    BY <2>1, KeyKept DEF IInv, KeysInv
  <2>4. \A key \in Keys : HintInv(key)'
    BY <2>1 DEF IInv, KeysInv, HintInv, LimitFor
  <2>5. HardCap' /\ RetryAfterTight'
    BY <2>1 DEF IInv, HardCap, RetryAfterTight, LimitFor
  <2> QED BY <2>2, <2>3, <2>4, <2>5 DEF IInv, KeysInv
<1> QED BY <1>1, <1>2, <1>3 DEF Next

THEOREM Invariance == Spec => []IInv
  BY InitInv, NextInv, PTL DEF Spec

\* The list of a bucket refers to answers it has given, in the clock's time.
THEOREM TypeCorrect == Spec => []TypeOK
  BY Invariance, PTL DEF IInv

\* Any LimitFor(key) + 1 requests of one company and bucket that are let
\* through span at least the window.
THEOREM Cap == Spec => []HardCap
  BY Invariance, PTL DEF IInv

\* Retry-After exceeds what is needed by at most a second.
THEOREM Tight == Spec => []RetryAfterTight
  BY Invariance, PTL DEF IInv

\* A 429 means that the limit was really used up within the window.
THEOREM Accurate == Spec => NoFalseRefusal
<1>1. ASSUME IInv, NEW key \in Keys, Refuse(key)
      PROVE  Cardinality(InWindow(key)) = LimitFor(key)
  <2>1. /\ Cardinality(Fresh(key)) \in Nat
        /\ Cardinality(Fresh(key)) <= LimitFor(key)
        /\ Fresh(key) = InWindow(key)
    BY <1>1, FreshIsWindow DEF IInv, KeysInv
  <2>2. Cardinality(Fresh(key)) >= LimitFor(key)
    BY <1>1 DEF Refuse
  <2> QED BY <2>1, <2>2, WindowType
<1>2. IInv => [ \A key \in Keys : Refuse(key) =>
                  Cardinality({ i \in DOMAIN admitted[key] :
                     admitted[key][i] > clock - Window }) = LimitFor(key) ]_vars
  BY <1>1 DEF InWindow
<1> QED BY <1>2, Invariance, PTL DEF NoFalseRefusal

\* Coming back at the time Retry-After named is enough.
THEOREM Honoured == Spec => RetryAfterHonoured
<1>1. ASSUME IInv, NEW key \in Keys, hint[key] # None, clock >= hint[key], Refuse(key)
      PROVE  FALSE
  <2>1. TypeOK /\ KeyInv(key) /\ HintInv(key)
    BY <1>1 DEF IInv, KeysInv
  <2> DEFINE room == Len(admitted[key]) - LimitFor(key) + 1
  <2>2. clock < admitted[key][room] + Window
    BY <1>1, <2>1, RefusedWindow
  <2>3. room \in DOMAIN admitted[key] /\ admitted[key][room] + Window <= hint[key]
    BY <1>1, <2>1 DEF HintInv
  <2>4. clock \in Nat /\ hint[key] \in Nat /\ admitted[key][room] \in Nat
    BY <1>1, <2>1, <2>3 DEF TypeOK
  <2> QED BY <1>1, <2>2, <2>3, <2>4, WindowType
<1>2. IInv => [ \A key \in Keys :
                  /\ Request(key)
                  /\ hint[key] # None
                  /\ clock >= hint[key]
                  => Admit(key) ]_vars
  BY <1>1 DEF Request
<1> QED BY <1>2, Invariance, PTL DEF RetryAfterHonoured

=============================================================================
