------------------------- MODULE ToolQueriesProofs --------------------------
(***************************************************************************)
(* What the eight tools let through and what they send.  ParserExact says  *)
(* that the recursive descent of odata_validator.py accepts exactly the    *)
(* sentences of the filter grammar; VerdictIsExact, that the two layers of *)
(* checks together are the whitelist; SentIsAsAsked, that a URL, read back *)
(* the way a server reads it, is the caller's request.                     *)
(*                                                                         *)
(* The model writes the recursion of the code as recursive functions.      *)
(* Before anything is said of one, it is shown to be the function its      *)
(* definition says: a function that fits is built up one argument at a     *)
(* time, and any two agree.  Inductions are over a set of numbers, by its  *)
(* least element (LeastNumber) or upwards from 0 (Climbs).                 *)
(***************************************************************************)
EXTENDS ToolQueries, SequenceTheorems, WellFoundedInduction, TLAPS

-----------------------------------------------------------------------------
(* Sets of numbers.                                                        *)

\* A non-empty set of numbers has a least element, one below a bound a greatest.
LEMMA LeastNumber ==
    ASSUME NEW S \in SUBSET Nat, S # {}
    PROVE  \E m \in S : \A i \in S : m <= i
<1> DEFINE before == OpToRel(<, Nat)
<1>1. before = { pair \in Nat \X Nat : pair[1] < pair[2] }
  BY DEF OpToRel
<1>2. IsWellFoundedOn(before, Nat)
  BY NatLessThanWellFounded
<1> HIDE DEF before
<1>3. \E m \in S : \A i \in S : ~ (<< i, m >> \in before)
  BY <1>2, WFMin
<1>4. \A i, m \in S : ~ (<< i, m >> \in before) => m <= i
  BY <1>1
<1> QED BY <1>3, <1>4

\* The same, read downwards from a bound.
LEMMA GreatestNumber ==
    ASSUME NEW n \in Nat, NEW S \in SUBSET (1 .. n), S # {}
    PROVE  \E m \in S : \A i \in S : i <= m
<1> DEFINE mirror == { d \in Nat : n - d \in S }
<1>1. mirror \in SUBSET Nat /\ mirror # {}
  <2>1. PICK i \in S : TRUE
    OBVIOUS
  <2>2. n - i \in Nat /\ n - (n - i) = i
    OBVIOUS
  <2> QED BY <2>1, <2>2
<1>2. PICK d \in mirror : \A e \in mirror : d <= e
  <2> HIDE DEF mirror
  <2> QED BY <1>1, LeastNumber
<1>3. ASSUME NEW i \in S PROVE i <= n - d
  <2>1. n - i \in Nat /\ n - (n - i) = i /\ i \in Nat
    OBVIOUS
  <2>2. d \in Nat /\ d <= n - i
    BY <1>2, <2>1
  <2> QED BY <2>1, <2>2
<1> QED BY <1>2, <1>3

\* s is a phrase of category a, the connective, and one of category b.
Joined(s, g, a, mark, b, n) ==
    \E i \in 1..n - 2 :
       \E l \in g[i][a], r \in g[n - 1 - i][b] : s = l \o << mark >> \o r

\* Infix, without its order of enumeration.
LEMMA InfixIs ==
    ASSUME NEW n, NEW g, NEW a, NEW mark, NEW b, NEW s, NEW Left, NEW Right,
           \A i \in 1..n - 2 : Left[i] = g[i][a] /\ Right[n - 1 - i] = g[n - 1 - i][b]
    PROVE  s \in Infix(Left, mark, Right, n) <=> Joined(s, g, a, mark, b, n)
  <1>1. ASSUME Joined(s, g, a, mark, b, n)
        PROVE  s \in Infix(Left, mark, Right, n)
    <2>1. PICK i \in 1..n - 2 :
             \E l \in g[i][a], r \in g[n - 1 - i][b] : s = l \o << mark >> \o r
      BY <1>1, Zenon DEF Joined
    <2>2. PICK l \in g[i][a], r \in g[n - 1 - i][b] : s = l \o << mark >> \o r
      BY <2>1
    <2>3. << l, r >> \in Left[i] \X Right[n - 1 - i] /\ << l, r >>[1] = l /\ << l, r >>[2] = r
      OBVIOUS
    <2>4. s \in { pair[1] \o << mark >> \o pair[2] : pair \in Left[i] \X Right[n - 1 - i] }
      BY <2>2, <2>3, Zenon
    <2> QED BY <2>4, Zenon DEF Infix
  <1>2. ASSUME s \in Infix(Left, mark, Right, n)
        PROVE  Joined(s, g, a, mark, b, n)
    <2>1. PICK i \in 1..n - 2 :
             s \in { pair[1] \o << mark >> \o pair[2] : pair \in Left[i] \X Right[n - 1 - i] }
      BY <1>2, Zenon DEF Infix
    <2>2. PICK pair \in Left[i] \X Right[n - 1 - i] : s = pair[1] \o << mark >> \o pair[2]
      BY <2>1, Zenon
    <2>3. pair[1] \in g[i][a] /\ pair[2] \in g[n - 1 - i][b]
      OBVIOUS
    <2> QED BY <2>2, <2>3, Zenon DEF Joined
  <1> QED BY <1>1, <1>2

Enclosed(s, g, v, n) ==
    \/ n = 1 /\ \E o \in Operands(v) : s = << o >>
    \/ n > 2 /\ \E d \in g[n - 2].disj : s = << "(" >> \o d \o << ")" >>
Negated(s, g, n) == n > 1 /\ \E d \in g[n - 1].neg : s = << "not" >> \o d

NextIs(p, g, v, n) ==
    \A s : /\ s \in p.prim <=> Enclosed(s, g, v, n)
           /\ s \in p.comp <=> s \in p.prim \/ Joined(s, g, "prim", "eq", "prim", n)
           /\ s \in p.neg  <=> s \in p.comp \/ Negated(s, g, n)
           /\ s \in p.conj <=> s \in p.neg \/ Joined(s, g, "neg", "and", "conj", n)
           /\ s \in p.disj <=> s \in p.conj \/ Joined(s, g, "conj", "or", "disj", n)

\* What NextPhrases puts together is what NextIs says.
LEMMA NextPhrasesIs ==
    ASSUME NEW v, NEW n \in Nat \ {0}, NEW g
    PROVE  NextIs(NextPhrases(v, n, g), g, v, n)
  <1> DEFINE Cat(c) == [ i \in 1..n - 1 |-> g[i][c] ]
  <1>p. PICK p, prim, neg, conj, disj :
           /\ p = NextPhrases(v, n, g)
           /\ prim = Cat("prim") /\ neg = Cat("neg") /\ conj = Cat("conj") /\ disj = Cat("disj")
    OBVIOUS
  <1>1. \A i \in 1..n - 2 : i \in 1..n - 1 /\ n - 1 - i \in 1..n - 1
    OBVIOUS
  <1>2. /\ p.prim = IF n = 1 THEN { << o >> : o \in Operands(v) }
                    ELSE IF n = 2 THEN {}
                    ELSE { << "(" >> \o d \o << ")" >> : d \in g[n - 2].disj }
        /\ p.comp = p.prim \cup Infix(prim, "eq", prim, n)
        /\ p.neg = p.comp \cup (IF n = 1 THEN {} ELSE { << "not" >> \o t : t \in g[n - 1].neg })
        /\ p.conj = p.neg \cup Infix(neg, "and", conj, n)
        /\ p.disj = p.conj \cup Infix(conj, "or", disj, n)
    BY <1>p DEF NextPhrases
  <1>3. \A i \in 1..n - 2 :
           /\ prim[i] = g[i]["prim"] /\ prim[n - 1 - i] = g[n - 1 - i]["prim"]
           /\ neg[i] = g[i]["neg"] /\ conj[n - 1 - i] = g[n - 1 - i]["conj"]
           /\ conj[i] = g[i]["conj"] /\ disj[n - 1 - i] = g[n - 1 - i]["disj"]
    BY <1>p, <1>1
  <1> HIDE DEF Cat
  <1> SUFFICES ASSUME NEW s
               PROVE  /\ s \in p.prim <=> Enclosed(s, g, v, n)
                      /\ s \in p.comp <=> s \in p.prim \/ Joined(s, g, "prim", "eq", "prim", n)
                      /\ s \in p.neg  <=> s \in p.comp \/ Negated(s, g, n)
                      /\ s \in p.conj <=> s \in p.neg \/ Joined(s, g, "neg", "and", "conj", n)
                      /\ s \in p.disj <=> s \in p.conj \/ Joined(s, g, "conj", "or", "disj", n)
    BY <1>p DEF NextIs
  <1>4. s \in p.prim <=> Enclosed(s, g, v, n)
    <2>1. CASE n = 1
      <3>1. p.prim = { << o >> : o \in Operands(v) } /\ ~ (n > 2)
        BY <1>2, <2>1
      <3>2. s \in { << o >> : o \in Operands(v) } <=> \E o \in Operands(v) : s = << o >>
        BY Zenon
      <3> QED BY <2>1, <3>1, <3>2 DEF Enclosed
    <2>2. CASE n = 2
      BY <1>2, <2>2 DEF Enclosed
    <2>3. CASE n > 2
      <3>1. n # 1 /\ n # 2
        BY <2>3
      <3>2. p.prim = { << "(" >> \o d \o << ")" >> : d \in g[n - 2].disj }
        BY <1>2, <3>1, Zenon
      <3>3. s \in { << "(" >> \o d \o << ")" >> : d \in g[n - 2].disj }
              <=> \E d \in g[n - 2].disj : s = << "(" >> \o d \o << ")" >>
        BY Zenon
      <3> QED BY <2>3, <3>1, <3>2, <3>3 DEF Enclosed
    <2> QED BY <2>1, <2>2, <2>3
  <1>5. s \in p.neg <=> s \in p.comp \/ Negated(s, g, n)
    <2>1. CASE n = 1
      BY <1>2, <2>1 DEF Negated
    <2>2. CASE n > 1
      <3>1. n # 1
        BY <2>2
      <3>2. p.neg = p.comp \cup { << "not" >> \o t : t \in g[n - 1].neg }
        BY <1>2, <3>1, Zenon
      <3>3. s \in { << "not" >> \o t : t \in g[n - 1].neg }
              <=> \E d \in g[n - 1].neg : s = << "not" >> \o d
        BY Zenon
      <3> QED BY <2>2, <3>2, <3>3 DEF Negated
    <2> QED BY <2>1, <2>2
  <1>6. s \in Infix(prim, "eq", prim, n) <=> Joined(s, g, "prim", "eq", "prim", n)
    BY <1>3, InfixIs, Zenon
  <1>7. s \in Infix(neg, "and", conj, n) <=> Joined(s, g, "neg", "and", "conj", n)
    BY <1>3, InfixIs, Zenon
  <1>8. s \in Infix(conj, "or", disj, n) <=> Joined(s, g, "conj", "or", "disj", n)
    BY <1>3, InfixIs, Zenon
  <1> QED BY <1>2, <1>4, <1>5, <1>6, <1>7, <1>8

\* The phrases of n tokens depend on the shorter ones only.
LEMMA NextIsLocal ==
    ASSUME NEW v, NEW n \in Nat \ {0}, NEW p, NEW f, NEW g, NextIs(p, f, v, n),
           \A i \in 1..n - 1 : f[i] = g[i]
    PROVE  NextIs(p, g, v, n)
  <1>1. \A i \in 1..n - 2 : i \in 1..n - 1 /\ n - 1 - i \in 1..n - 1
    OBVIOUS
  <1>2. /\ n > 2 => n - 2 \in 1..n - 1
        /\ n > 1 => n - 1 \in 1..n - 1
    OBVIOUS
  <1>3. ASSUME NEW s, NEW a, NEW mark, NEW b
        PROVE  Joined(s, f, a, mark, b, n) <=> Joined(s, g, a, mark, b, n)
    <2>1. \A i \in 1..n - 2 : f[i] = g[i] /\ f[n - 1 - i] = g[n - 1 - i]
      BY <1>1
    <2> QED BY <2>1, Zenon DEF Joined
  <1>4. ASSUME NEW s
        PROVE  /\ Enclosed(s, f, v, n) <=> Enclosed(s, g, v, n)
               /\ Negated(s, f, n) <=> Negated(s, g, n)
    BY <1>2, Zenon DEF Enclosed, Negated
  <1> QED BY <1>3, <1>4, Zenon DEF NextIs

\* Phrases is the recursive definition it is written as, which has to be shown:
\* a function that fits exists and CHOOSE finds no other.
LEMMA GrammarIs ==
    ASSUME NEW v, NEW N \in Nat
    PROVE  \A n \in 1..N : NextIs(Phrases(v, N)[n], Phrases(v, N), v, n)
  <1> DEFINE Adds(n, x) == Append(x, NextPhrases(v, n, x))
             Builds(f, k) == f = [ n \in 0..k |-> IF n = 0 THEN << >> ELSE Adds(n, f[n - 1]) ]
             F == CHOOSE f : Builds(f, N)
             bad == { k \in Nat : ~ \E f : Builds(f, k) }
  <1>1. Phrases(v, N) = F[N]
    BY DEF Phrases
  <1> HIDE DEF Adds
  <1>2. bad = {}
    <2> SUFFICES ASSUME bad # {} PROVE FALSE
      OBVIOUS
    <2>1. PICK k \in bad : \A n \in bad : k <= n
      <3>1. bad \in SUBSET Nat
        OBVIOUS
      <3> HIDE DEF bad
      <3> QED BY <3>1, LeastNumber
    <2>2. k \in Nat /\ ~ \E f : Builds(f, k)
      BY <2>1
    <2>3. k # 0
      <3>1. Builds([ n \in 0..0 |-> << >> ], 0)
        OBVIOUS
      <3> QED BY <2>2, <3>1
    <2>4. k - 1 \in Nat /\ ~ (k <= k - 1)
      BY <2>2, <2>3
    <2>5. k - 1 \notin bad
      <3> HIDE DEF bad
      <3> QED BY <2>1, <2>4
    <2>6. PICK f : Builds(f, k - 1)
      BY <2>4, <2>5
    <2> DEFINE g == [ n \in 0..k |-> IF n = k THEN Adds(k, f[k - 1]) ELSE f[n] ]
    <2>7. ASSUME NEW n \in 0..k
          PROVE  g[n] = IF n = 0 THEN << >> ELSE Adds(n, g[n - 1])
      <3>1. CASE n = k
        <4>1. n # 0 /\ n - 1 \in 0..k /\ n - 1 # k /\ g[n - 1] = f[k - 1]
          BY <2>2, <2>3, <3>1
        <4> QED BY <3>1, <4>1
      <3>2. CASE n # k
        <4>1. n \in 0..k - 1 /\ g[n] = f[n]
          BY <2>2, <3>2
        <4>2. n # 0 => n - 1 \in 0..k /\ n - 1 # k /\ g[n - 1] = f[n - 1]
          BY <2>2, <4>1
        <4>3. f[n] = IF n = 0 THEN << >> ELSE Adds(n, f[n - 1])
          BY <2>6, <4>1
        <4> QED BY <4>1, <4>2, <4>3
      <3> QED BY <3>1, <3>2
    <2>8. Builds(g, k)
      <3>1. g = [ n \in 0..k |-> g[n] ]
        OBVIOUS
      <3> HIDE DEF g
      <3> QED BY <2>7, <3>1
    <2> QED BY <2>2, <2>8
  <1>3. \E f : Builds(f, N)
    BY <1>2
  <1>4. Builds(F, N)
    <2> HIDE DEF Builds
    <2> QED BY <1>3
  <1> HIDE DEF F, bad
  <1>5. /\ F[0] = << >>
        /\ \A n \in 1..N : F[n] = Append(F[n - 1], NextPhrases(v, n, F[n - 1]))
    <2>1. \A n \in 0..N : F[n] = IF n = 0 THEN << >> ELSE Adds(n, F[n - 1])
      BY <1>4
    <2>2. F[0] = << >> /\ \A n \in 1..N : F[n] = Adds(n, F[n - 1])
      <3>1. 0 \in 0..N /\ \A n \in 1..N : n \in 0..N /\ n # 0
        OBVIOUS
      <3> HIDE DEF Builds
      <3> QED BY <2>1, <3>1
    <2> HIDE DEF Builds
    <2> QED BY <2>2 DEF Adds
  <1> HIDE DEF Builds
  <1> DEFINE Kind(i) == NextPhrases(v, i, F[i - 1])
             S == { Kind(i) : i \in 1..N }
             Grown(n) == /\ F[n] \in Seq(S) /\ Len(F[n]) = n
                         /\ \A i \in 1..n : F[n][i] = Kind(i)
             wrong == { n \in 0..N : ~ Grown(n) }
  <1>6. wrong = {}
    <2> SUFFICES ASSUME wrong # {} PROVE FALSE
      OBVIOUS
    <2>1. wrong \in SUBSET Nat
      OBVIOUS
    <2>2. PICK n \in wrong : \A k \in wrong : n <= k
      <3> HIDE DEF wrong
      <3> QED BY <2>1, LeastNumber
    <2>3. n \in 0..N /\ ~ Grown(n)
      BY <2>2
    <2>4. n # 0
      <3>1. F[0] \in Seq(S) /\ Len(F[0]) = 0
        <4> HIDE DEF S
        <4> QED BY <1>5
      <3> QED BY <2>3, <3>1
    <2>5. n \in 1..N /\ n - 1 \in 0..N /\ ~ (n <= n - 1)
      BY <2>3, <2>4
    <2>6. Grown(n - 1)
      <3>1. n - 1 \notin wrong
        <4> HIDE DEF wrong
        <4> QED BY <2>2, <2>5
      <3> HIDE DEF Grown
      <3> QED BY <2>5, <3>1
    <2>7. Kind(n) \in S /\ F[n] = Append(F[n - 1], Kind(n))
      BY <1>5, <2>5
    <2> HIDE DEF Kind, S
    <2>8. /\ F[n] \in Seq(S) /\ Len(F[n]) = n /\ F[n][n] = Kind(n)
          /\ \A i \in 1..n - 1 : F[n][i] = F[n - 1][i]
      BY <2>5, <2>6, <2>7
    <2>9. ASSUME NEW i \in 1..n PROVE F[n][i] = Kind(i)
      <3>1. CASE i = n
        BY <2>8, <3>1
      <3>2. CASE i # n
        <4>1. i \in 1..n - 1
          BY <2>5, <3>2
        <4>2. F[n - 1][i] = Kind(i)
          BY <2>6, <4>1
        <4> QED BY <2>8, <4>1, <4>2
      <3> QED BY <3>1, <3>2
    <2> QED BY <2>3, <2>8, <2>9
  <1>7. ASSUME NEW n \in 1..N
        PROVE  NextIs(Phrases(v, N)[n], Phrases(v, N), v, n)
    <2>1. Grown(N) /\ Grown(n - 1)
      <3>1. N \in 0..N /\ n - 1 \in 0..N
        OBVIOUS
      <3> HIDE DEF Grown
      <3> QED BY <1>6, <3>1
    <2>2. F[N][n] = Kind(n)
      BY <2>1
    <2>3. \A i \in 1..n - 1 : F[n - 1][i] = F[N][i]
      <3>1. \A i \in 1..n - 1 : i \in 1..N
        OBVIOUS
      <3> HIDE DEF Kind
      <3> QED BY <2>1, <3>1
    <2>4. NextIs(F[N][n], F[n - 1], v, n)
      <3>1. n \in Nat \ {0}
        OBVIOUS
      <3>2. NextIs(NextPhrases(v, n, F[n - 1]), F[n - 1], v, n)
        BY <3>1, NextPhrasesIs, Zenon
      <3> QED BY <2>2, <3>2
    <2>5. NextIs(F[N][n], F[N], v, n)
      <3>1. n \in Nat \ {0}
        OBVIOUS
      <3> QED BY <2>3, <2>4, <3>1, NextIsLocal
    <2> QED BY <1>1, <2>5
  <1> QED BY <1>7

-----------------------------------------------------------------------------
(* The parser.                                                             *)

\* What a rule returns whose first operand ends at q: the connective and the
\* operand after it, where they are there.
After(f, tokens, q, mark, next) ==
    IF q # Rejected /\ TokenAt(tokens, q) = mark THEN f[<< next, q + 1 >>] ELSE q

InBrackets(f, tokens, p) ==
    IF f[<< "or_expr", p + 1 >>] # Rejected /\ TokenAt(tokens, f[<< "or_expr", p + 1 >>]) = ")"
    THEN f[<< "or_expr", p + 1 >>] + 1 ELSE Rejected

Plainly(tokens, v, p) ==
    IF TokenAt(tokens, p) \in Operands(v) /\ TokenAt(tokens, p + 1) # "("
    THEN p + 1 ELSE Rejected

Primary(f, tokens, v, p) ==
    IF TokenAt(tokens, p) = "(" THEN InBrackets(f, tokens, p) ELSE Plainly(tokens, v, p)

Negation(f, tokens, q, p) ==
    IF TokenAt(tokens, p) = "not" THEN f[<< "not_expr", p + 1 >>] ELSE q

\* f is at p what the five methods return.
ParsesAt(f, tokens, v, p) ==
    /\ f[<< "primary", p >>] = Primary(f, tokens, v, p)
    /\ f[<< "comparison", p >>] = After(f, tokens, f[<< "primary", p >>], "eq", "primary")
    /\ f[<< "not_expr", p >>] = Negation(f, tokens, f[<< "comparison", p >>], p)
    /\ f[<< "and_expr", p >>] = After(f, tokens, f[<< "not_expr", p >>], "and", "and_expr")
    /\ f[<< "or_expr", p >>] = After(f, tokens, f[<< "and_expr", p >>], "or", "or_expr")

\* The body of Parser's function.
Method(Reach, tokens, v, at) ==
    LET At(p) == TokenAt(tokens, p)
        rule == at[1]
        p == at[2]
    IN  CASE rule \in DOMAIN InfixRules ->
               LET q == Reach[<< InfixRules[rule][1], p >>]
               IN  IF q # Rejected /\ At(q) = InfixRules[rule][2]
                   THEN Reach[<< InfixRules[rule][3], q + 1 >>] ELSE q
          [] rule = "not_expr" ->
               IF At(p) = "not" THEN Reach[<< "not_expr", p + 1 >>]
               ELSE Reach[<< "comparison", p >>]
          [] rule = "primary" /\ At(p) = "(" ->
               LET q == Reach[<< "or_expr", p + 1 >>]
               IN  IF q # Rejected /\ At(q) = ")" THEN q + 1 ELSE Rejected
          [] rule = "primary" /\ At(p) \in Operands(v) ->
               IF At(p + 1) = "(" THEN Rejected ELSE p + 1
          [] OTHER -> Rejected

\* The body of the function, method by method.
LEMMA MethodsAre ==
    ASSUME NEW f, NEW tokens, NEW v, NEW p
    PROVE  /\ Method(f, tokens, v, << "primary", p >>) = Primary(f, tokens, v, p)
           /\ Method(f, tokens, v, << "comparison", p >>) =
                After(f, tokens, f[<< "primary", p >>], "eq", "primary")
           /\ Method(f, tokens, v, << "not_expr", p >>) =
                Negation(f, tokens, f[<< "comparison", p >>], p)
           /\ Method(f, tokens, v, << "and_expr", p >>) =
                After(f, tokens, f[<< "not_expr", p >>], "and", "and_expr")
           /\ Method(f, tokens, v, << "or_expr", p >>) =
                After(f, tokens, f[<< "and_expr", p >>], "or", "or_expr")
  <1>1. /\ DOMAIN InfixRules = { "or_expr", "and_expr", "comparison" }
        /\ InfixRules["or_expr"] = << "and_expr", "or", "or_expr" >>
        /\ InfixRules["and_expr"] = << "not_expr", "and", "and_expr" >>
        /\ InfixRules["comparison"] = << "primary", "eq", "primary" >>
    BY DEF InfixRules
  <1>2. "(" \notin Operands(v)
    BY DEF Operands
  <1>3. \A rule : << rule, p >>[1] = rule /\ << rule, p >>[2] = p
    OBVIOUS
  <1>4. \A a, b, c : << a, b, c >>[1] = a /\ << a, b, c >>[2] = b /\ << a, b, c >>[3] = c
    OBVIOUS
  <1>5. Method(f, tokens, v, << "or_expr", p >>) =
          After(f, tokens, f[<< "and_expr", p >>], "or", "or_expr")
    BY <1>1, <1>3, <1>4 DEF Method, After
  <1>6. Method(f, tokens, v, << "and_expr", p >>) =
          After(f, tokens, f[<< "not_expr", p >>], "and", "and_expr")
    BY <1>1, <1>3, <1>4 DEF Method, After
  <1>7. Method(f, tokens, v, << "comparison", p >>) =
          After(f, tokens, f[<< "primary", p >>], "eq", "primary")
    BY <1>1, <1>3, <1>4 DEF Method, After
  <1>8. Method(f, tokens, v, << "not_expr", p >>) =
          Negation(f, tokens, f[<< "comparison", p >>], p)
    BY <1>1, <1>3 DEF Method, Negation
  <1>9. Method(f, tokens, v, << "primary", p >>) = Primary(f, tokens, v, p)
    <2>1. CASE TokenAt(tokens, p) = "("
      BY <1>1, <1>2, <1>3, <2>1 DEF Method, InBrackets, Primary
    <2>2. CASE TokenAt(tokens, p) # "(" /\ TokenAt(tokens, p) \in Operands(v)
      BY <1>1, <1>3, <2>2 DEF Method, Plainly, Primary
    <2>3. CASE TokenAt(tokens, p) # "(" /\ TokenAt(tokens, p) \notin Operands(v)
      BY <1>1, <1>3, <2>3 DEF Method, Plainly, Primary
    <2> QED BY <2>1, <2>2, <2>3
  <1> QED BY <1>5, <1>6, <1>7, <1>8, <1>9

\* A method that does not raise has taken a token at least, and no more than
\* there are.
Bounded(q, tokens, p) == q = Rejected \/ q \in p + 1..Len(tokens) + 1
BoundedAt(f, tokens, p) == \A rule \in Rules : Bounded(f[<< rule, p >>], tokens, p)

\* A token is where there is one.
LEMMA TokenIsThere ==
    ASSUME NEW tokens, NEW p, TokenAt(tokens, p) # "end"
    PROVE  p \in 1..Len(tokens) /\ TokenAt(tokens, p) = tokens[p]
  BY DEF TokenAt

\* Of a rule with a connective, if it holds further on.
LEMMA AfterBounded ==
    ASSUME NEW tokens, Len(tokens) \in Nat, NEW f, NEW p \in 1..Len(tokens) + 1,
           NEW q, Bounded(q, tokens, p), NEW mark, mark # "end", NEW next \in Rules,
           \A i \in p + 1..Len(tokens) + 1 : BoundedAt(f, tokens, i)
    PROVE  Bounded(After(f, tokens, q, mark, next), tokens, p)
  <1>1. CASE q # Rejected /\ TokenAt(tokens, q) = mark
    <2>1. q \in p + 1..Len(tokens) + 1 /\ q \in 1..Len(tokens)
      BY <1>1, TokenIsThere DEF Bounded
    <2>2. q + 1 \in p + 1..Len(tokens) + 1
      BY <2>1
    <2>3. f[<< next, q + 1 >>] = Rejected \/ f[<< next, q + 1 >>] \in q + 2..Len(tokens) + 1
      BY <2>1, <2>2 DEF BoundedAt, Bounded
    <2>4. After(f, tokens, q, mark, next) = f[<< next, q + 1 >>]
      BY <1>1 DEF After
    <2> QED BY <2>1, <2>3, <2>4 DEF Bounded
  <1>2. CASE ~ (q # Rejected /\ TokenAt(tokens, q) = mark)
    BY <1>2 DEF After
  <1> QED BY <1>1, <1>2

\* Of a primary, brackets or not, if it holds further on.
LEMMA PrimaryBounded ==
    ASSUME NEW v, NEW tokens, Len(tokens) \in Nat, NEW f, NEW p \in 1..Len(tokens) + 1,
           \A i \in p + 1..Len(tokens) + 1 : BoundedAt(f, tokens, i)
    PROVE  Bounded(Primary(f, tokens, v, p), tokens, p)
  <1>1. CASE TokenAt(tokens, p) = "("
    <2>1. p \in 1..Len(tokens)
      BY <1>1, TokenIsThere
    <2>2. BoundedAt(f, tokens, p + 1) /\ "or_expr" \in Rules
      BY <2>1 DEF Rules
    <2>3. Primary(f, tokens, v, p) = InBrackets(f, tokens, p)
      BY <1>1 DEF Primary
    <2>4. CASE f[<< "or_expr", p + 1 >>] # Rejected
               /\ TokenAt(tokens, f[<< "or_expr", p + 1 >>]) = ")"
      <3>1. f[<< "or_expr", p + 1 >>] \in 1..Len(tokens)
        BY <2>4, TokenIsThere
      <3>2. f[<< "or_expr", p + 1 >>] \in p + 2..Len(tokens) + 1
        BY <2>1, <2>2, <2>4 DEF BoundedAt, Bounded
      <3>3. Primary(f, tokens, v, p) = f[<< "or_expr", p + 1 >>] + 1
        BY <2>3, <2>4 DEF InBrackets
      <3> QED BY <2>1, <3>1, <3>2, <3>3 DEF Bounded
    <2> QED BY <2>3, <2>4 DEF InBrackets, Bounded
  <1>2. CASE TokenAt(tokens, p) # "("
    <2>1. Primary(f, tokens, v, p) = Plainly(tokens, v, p)
      BY <1>2 DEF Primary
    <2>2. CASE TokenAt(tokens, p) \in Operands(v)
      <3>1. "end" \notin Operands(v)
        BY DEF Operands
      <3>2. TokenAt(tokens, p) # "end"
        BY <2>2, <3>1
      <3>3. p \in 1..Len(tokens)
        BY <3>2, TokenIsThere
      <3>4. p + 1 \in p + 1..Len(tokens) + 1
        BY <3>3
      <3>5. Plainly(tokens, v, p) \in { p + 1, Rejected }
        BY DEF Plainly
      <3> QED BY <2>1, <3>4, <3>5 DEF Bounded
    <2> QED BY <2>1, <2>2 DEF Plainly, Bounded
  <1> QED BY <1>1, <1>2

\* Of a negation, if it holds further on.
LEMMA NegationBounded ==
    ASSUME NEW tokens, Len(tokens) \in Nat, NEW f, NEW p \in 1..Len(tokens) + 1,
           NEW q, Bounded(q, tokens, p),
           \A i \in p + 1..Len(tokens) + 1 : BoundedAt(f, tokens, i)
    PROVE  Bounded(Negation(f, tokens, q, p), tokens, p)
  <1>1. CASE TokenAt(tokens, p) = "not"
    <2>1. p \in 1..Len(tokens)
      BY <1>1, TokenIsThere
    <2>2. BoundedAt(f, tokens, p + 1) /\ "not_expr" \in Rules
      BY <2>1 DEF Rules
    <2>3. Negation(f, tokens, q, p) = f[<< "not_expr", p + 1 >>]
      BY <1>1 DEF Negation
    <2> QED BY <2>1, <2>2, <2>3 DEF BoundedAt, Bounded
  <1>2. CASE TokenAt(tokens, p) # "not"
    BY <1>2 DEF Negation
  <1> QED BY <1>1, <1>2

\* Of all five methods, if it holds further on.
LEMMA BoundedStep ==
    ASSUME NEW v, NEW tokens, Len(tokens) \in Nat, NEW f, NEW p \in 1..Len(tokens) + 1,
           ParsesAt(f, tokens, v, p),
           \A i \in p + 1..Len(tokens) + 1 : BoundedAt(f, tokens, i)
    PROVE  BoundedAt(f, tokens, p)
  <1>1. Bounded(f[<< "primary", p >>], tokens, p)
    BY PrimaryBounded DEF ParsesAt
  <1>2. Bounded(f[<< "comparison", p >>], tokens, p)
    BY <1>1, AfterBounded DEF ParsesAt, Rules
  <1>3. Bounded(f[<< "not_expr", p >>], tokens, p)
    BY <1>2, NegationBounded DEF ParsesAt
  <1>4. Bounded(f[<< "and_expr", p >>], tokens, p)
    BY <1>3, AfterBounded DEF ParsesAt, Rules
  <1>5. Bounded(f[<< "or_expr", p >>], tokens, p)
    BY <1>4, AfterBounded DEF ParsesAt, Rules
  <1> QED BY <1>1, <1>2, <1>3, <1>4, <1>5 DEF BoundedAt, Rules

\* What a method returns at p depends on what the others return behind p.
Agree(f, g, tokens, p) ==
    \A rule \in Rules : \A i \in p + 1..Len(tokens) + 1 : f[<< rule, i >>] = g[<< rule, i >>]

\* So for a rule with a connective,
LEMMA AfterIsLocal ==
    ASSUME NEW tokens, Len(tokens) \in Nat, NEW f, NEW g, NEW p \in 1..Len(tokens) + 1,
           Agree(f, g, tokens, p), NEW q, Bounded(q, tokens, p),
           NEW mark, mark # "end", NEW next \in Rules
    PROVE  After(f, tokens, q, mark, next) = After(g, tokens, q, mark, next)
  <1>1. CASE q # Rejected /\ TokenAt(tokens, q) = mark
    <2>1. q \in p + 1..Len(tokens) + 1 /\ q \in 1..Len(tokens)
      BY <1>1, TokenIsThere DEF Bounded
    <2>2. q + 1 \in p + 1..Len(tokens) + 1
      BY <2>1
    <2>3. f[<< next, q + 1 >>] = g[<< next, q + 1 >>]
      BY <2>2 DEF Agree
    <2> QED BY <2>3 DEF After
  <1>2. CASE ~ (q # Rejected /\ TokenAt(tokens, q) = mark)
    BY <1>2 DEF After
  <1> QED BY <1>1, <1>2

\* for a primary and a negation,
LEMMA PrimaryIsLocal ==
    ASSUME NEW v, NEW tokens, Len(tokens) \in Nat, NEW f, NEW g,
           NEW p \in 1..Len(tokens) + 1, Agree(f, g, tokens, p), NEW q
    PROVE  /\ Primary(f, tokens, v, p) = Primary(g, tokens, v, p)
           /\ Negation(f, tokens, q, p) = Negation(g, tokens, q, p)
  <1>1. CASE TokenAt(tokens, p) \in { "(", "not" }
    <2>1. p \in 1..Len(tokens)
      BY <1>1, TokenIsThere
    <2>2. p + 1 \in p + 1..Len(tokens) + 1
      BY <2>1
    <2>3. /\ f[<< "or_expr", p + 1 >>] = g[<< "or_expr", p + 1 >>]
          /\ f[<< "not_expr", p + 1 >>] = g[<< "not_expr", p + 1 >>]
      BY <2>2 DEF Agree, Rules
    <2> QED BY <2>3 DEF Primary, InBrackets, Negation
  <1>2. CASE TokenAt(tokens, p) \notin { "(", "not" }
    BY <1>2 DEF Primary, Negation
  <1> QED BY <1>1, <1>2

\* and for the five methods.
LEMMA ParsesAtIsLocal ==
    ASSUME NEW v, NEW tokens, Len(tokens) \in Nat, NEW f, NEW g,
           NEW p \in 1..Len(tokens) + 1,
           ParsesAt(f, tokens, v, p), BoundedAt(f, tokens, p), Agree(f, g, tokens, p),
           \A rule \in Rules : f[<< rule, p >>] = g[<< rule, p >>]
    PROVE  ParsesAt(g, tokens, v, p)
  <1>1. /\ \A rule \in { "primary", "comparison", "not_expr", "and_expr", "or_expr" } :
              f[<< rule, p >>] = g[<< rule, p >>] /\ Bounded(f[<< rule, p >>], tokens, p)
        /\ "primary" \in Rules /\ "and_expr" \in Rules /\ "or_expr" \in Rules
    BY DEF Rules, BoundedAt
  <1>2. Primary(f, tokens, v, p) = Primary(g, tokens, v, p)
    BY PrimaryIsLocal
  <1>3. After(f, tokens, f[<< "primary", p >>], "eq", "primary")
          = After(g, tokens, f[<< "primary", p >>], "eq", "primary")
    BY <1>1, AfterIsLocal
  <1>4. Negation(f, tokens, f[<< "comparison", p >>], p)
          = Negation(g, tokens, f[<< "comparison", p >>], p)
    BY PrimaryIsLocal, SMTT(40)
  <1>5. After(f, tokens, f[<< "not_expr", p >>], "and", "and_expr")
          = After(g, tokens, f[<< "not_expr", p >>], "and", "and_expr")
    BY <1>1, AfterIsLocal
  <1>6. After(f, tokens, f[<< "and_expr", p >>], "or", "or_expr")
          = After(g, tokens, f[<< "and_expr", p >>], "or", "or_expr")
    BY <1>1, AfterIsLocal
  <1> QED BY <1>1, <1>2, <1>3, <1>4, <1>5, <1>6 DEF ParsesAt

\* f is the parser at every position from k on.
Parses(f, tokens, v, k) ==
    \A i \in k..Len(tokens) + 1 : ParsesAt(f, tokens, v, i) /\ BoundedAt(f, tokens, i)

\* A parser of the tokens from k + 1 on becomes one of those from k on.
LEMMA OneBack ==
    ASSUME NEW v, NEW tokens, Len(tokens) \in Nat, NEW k \in 1..Len(tokens) + 1, NEW f,
           Parses(f, tokens, v, k + 1)
    PROVE  \E g : Parses(g, tokens, v, k)
  <1> DEFINE prim == Primary(f, tokens, v, k)
             comp == After(f, tokens, prim, "eq", "primary")
             neg == Negation(f, tokens, comp, k)
             conj == After(f, tokens, neg, "and", "and_expr")
             disj == After(f, tokens, conj, "or", "or_expr")
             Here(rule) == IF rule = "primary" THEN prim ELSE IF rule = "comparison" THEN comp
                           ELSE IF rule = "not_expr" THEN neg
                           ELSE IF rule = "and_expr" THEN conj ELSE disj
             g == [ at \in Rules \X (1..Len(tokens) + 1) |->
                      IF at[2] = k THEN Here(at[1]) ELSE f[at] ]
  <1>r. /\ "primary" \in Rules /\ "and_expr" \in Rules /\ "or_expr" \in Rules
        /\ "not_expr" \in Rules /\ "comparison" \in Rules
        /\ Rules = { "primary", "comparison", "not_expr", "and_expr", "or_expr" }
    BY DEF Rules
  <1>1. \A i \in k + 1..Len(tokens) + 1 :
           BoundedAt(f, tokens, i) /\ ParsesAt(f, tokens, v, i)
    BY DEF Parses
  <1>2. Bounded(prim, tokens, k)
    BY <1>1, PrimaryBounded
  <1>3. Bounded(comp, tokens, k)
    <2> HIDE DEF prim
    <2> QED BY <1>1, <1>2, <1>r, AfterBounded
  <1>4. Bounded(neg, tokens, k)
    <2> HIDE DEF comp
    <2> QED BY <1>1, <1>3, NegationBounded
  <1>5. Bounded(conj, tokens, k)
    <2> HIDE DEF neg
    <2> QED BY <1>1, <1>4, <1>r, AfterBounded
  <1>6. Bounded(disj, tokens, k)
    <2> HIDE DEF conj
    <2> QED BY <1>1, <1>5, <1>r, AfterBounded
  <1>h. PICK h : h = g
    OBVIOUS
  <1>7. \A rule \in Rules : \A i \in 1..Len(tokens) + 1 :
           h[<< rule, i >>] = IF i = k THEN Here(rule) ELSE f[<< rule, i >>]
    <2> SUFFICES ASSUME NEW rule \in Rules, NEW i \in 1..Len(tokens) + 1
                 PROVE  h[<< rule, i >>] = IF i = k THEN Here(rule) ELSE f[<< rule, i >>]
      OBVIOUS
    <2>1. /\ << rule, i >> \in Rules \X (1..Len(tokens) + 1)
          /\ << rule, i >>[1] = rule /\ << rule, i >>[2] = i
      OBVIOUS
    <2> HIDE DEF Here
    <2> QED BY <1>h, <2>1
  <1>8. /\ h[<< "primary", k >>] = prim /\ h[<< "comparison", k >>] = comp
        /\ h[<< "not_expr", k >>] = neg /\ h[<< "and_expr", k >>] = conj
        /\ h[<< "or_expr", k >>] = disj
    <2> HIDE DEF prim, comp, neg, conj, disj, g
    <2> QED BY <1>7, <1>r
  <1>9. \A rule \in Rules : \A i \in k + 1..Len(tokens) + 1 :
           h[<< rule, i >>] = f[<< rule, i >>]
    <2>1. \A i \in k + 1..Len(tokens) + 1 : i \in 1..Len(tokens) + 1 /\ i # k
      OBVIOUS
    <2> HIDE DEF Here, g
    <2> QED BY <1>7, <2>1
  <1>10. ASSUME NEW i \in k..Len(tokens) + 1 PROVE Agree(f, h, tokens, i)
    <2>1. \A j \in i + 1..Len(tokens) + 1 : j \in k + 1..Len(tokens) + 1
      OBVIOUS
    <2> HIDE DEF g, Here
    <2> QED BY <1>9, <2>1 DEF Agree
  <1> HIDE DEF g
  <1>11. ParsesAt(h, tokens, v, k) /\ BoundedAt(h, tokens, k)
    <2>1. Agree(f, h, tokens, k)
      BY <1>10
    <2>2. Primary(h, tokens, v, k) = prim
      BY <2>1, PrimaryIsLocal
    <2>3. After(h, tokens, prim, "eq", "primary") = comp
      <3> HIDE DEF prim
      <3> QED BY <1>2, <1>r, <2>1, AfterIsLocal
    <2>4. Negation(h, tokens, comp, k) = neg
      <3> HIDE DEF comp
      <3> QED BY <2>1, PrimaryIsLocal
    <2>5. After(h, tokens, neg, "and", "and_expr") = conj
      <3> HIDE DEF neg
      <3> QED BY <1>4, <1>r, <2>1, AfterIsLocal
    <2>6. After(h, tokens, conj, "or", "or_expr") = disj
      <3> HIDE DEF conj
      <3> QED BY <1>5, <1>r, <2>1, AfterIsLocal
    <2> HIDE DEF prim, comp, neg, conj, disj, Here
    <2>7. ParsesAt(h, tokens, v, k)
      BY <1>8, <2>2, <2>3, <2>4, <2>5, <2>6 DEF ParsesAt
    <2>8. BoundedAt(h, tokens, k)
      BY <1>8, <1>2, <1>3, <1>4, <1>5, <1>6, <1>r DEF BoundedAt
    <2> QED BY <2>7, <2>8
  <1>12. ASSUME NEW i \in k + 1..Len(tokens) + 1
         PROVE  ParsesAt(h, tokens, v, i) /\ BoundedAt(h, tokens, i)
    <2>1. i \in k..Len(tokens) + 1 /\ i \in 1..Len(tokens) + 1
      OBVIOUS
    <2> HIDE DEF Here
    <2>2. \A rule \in Rules : f[<< rule, i >>] = h[<< rule, i >>]
      BY <1>9
    <2>3. ParsesAt(h, tokens, v, i)
      BY <1>1, <1>10, <2>1, <2>2, ParsesAtIsLocal
    <2> QED BY <1>1, <2>2, <2>3 DEF BoundedAt
  <1>13. \A i \in k..Len(tokens) + 1 : i = k \/ i \in k + 1..Len(tokens) + 1
    OBVIOUS
  <1> HIDE DEF Here, prim, comp, neg, conj, disj
  <1>14. Parses(h, tokens, v, k)
    BY <1>11, <1>12, <1>13 DEF Parses
  <1> QED BY <1>14

\* There is a function that is the parser at every position.
LEMMA SomeParser ==
    ASSUME NEW v, NEW tokens, Len(tokens) \in Nat
    PROVE  \E f : Parses(f, tokens, v, 1)
  <1> DEFINE good == { k \in 1..Len(tokens) + 2 : \E f : Parses(f, tokens, v, k) }
  <1>1. Len(tokens) + 2 \in good
    BY DEF Parses
  <1>2. good \in SUBSET Nat /\ good # {}
    BY <1>1
  <1>3. PICK m \in good : \A k \in good : m <= k
    <2> HIDE DEF good
    <2> QED BY <1>2, LeastNumber
  <1>4. PICK f : Parses(f, tokens, v, m)
    OBVIOUS
  <1>5. CASE m = 1
    BY <1>4, <1>5
  <1>6. CASE m # 1
    <2>1. m - 1 \in 1..Len(tokens) + 1 /\ m = (m - 1) + 1 /\ ~ (m <= m - 1)
      BY <1>6
    <2>2. PICK j : j = m - 1
      OBVIOUS
    <2>3. j \in 1..Len(tokens) + 1 /\ Parses(f, tokens, v, j + 1)
      BY <1>4, <2>1, <2>2
    <2>4. \E g : Parses(g, tokens, v, j)
      <3> HIDE DEF good
      <3> QED BY <2>3, OneBack
    <2>5. j \in good
      BY <2>3, <2>4
    <2> HIDE DEF good
    <2> QED BY <1>3, <2>1, <2>2, <2>5
  <1> QED BY <1>5, <1>6

\* The parser is what its five methods say, at every position.
LEMMA ParserParses ==
    ASSUME NEW v, NEW tokens, Len(tokens) \in Nat
    PROVE  \A i \in 1..Len(tokens) + 1 : ParsesAt(Parser(tokens, v), tokens, v, i)
  <1> DEFINE Dom == Rules \X (1..Len(tokens) + 1)
             IsIt(f) == f = [ at \in Dom |-> Method(f, tokens, v, at) ]
  <1>1. Parser(tokens, v) = CHOOSE f : IsIt(f)
    BY DEF Parser, Method
  <1>2. \E f : IsIt(f)
    <2>1. PICK f : Parses(f, tokens, v, 1)
      BY SomeParser
    <2>2. PICK g : g = [ at \in Dom |-> f[at] ]
      OBVIOUS
    <2>3. \A rule \in Rules : \A i \in 1..Len(tokens) + 1 : g[<< rule, i >>] = f[<< rule, i >>]
      BY <2>2
    <2>4. ASSUME NEW i \in 1..Len(tokens) + 1 PROVE ParsesAt(g, tokens, v, i)
      <3>1. ParsesAt(f, tokens, v, i) /\ BoundedAt(f, tokens, i)
        BY <2>1 DEF Parses
      <3>2. \A j \in i + 1..Len(tokens) + 1 : j \in 1..Len(tokens) + 1
        OBVIOUS
      <3>3. Agree(f, g, tokens, i)
        BY <2>3, <3>2 DEF Agree
      <3> QED BY <2>3, <3>1, <3>3, ParsesAtIsLocal
    <2>5. ASSUME NEW at \in Dom PROVE g[at] = Method(g, tokens, v, at)
      <3>1. PICK rule \in Rules, i \in 1..Len(tokens) + 1 : at = << rule, i >>
        OBVIOUS
      <3>2. g[<< rule, i >>] = Method(g, tokens, v, << rule, i >>)
        <4>1. ParsesAt(g, tokens, v, i)
          BY <2>4
        <4>2. rule \in { "primary", "comparison", "not_expr", "and_expr", "or_expr" }
          BY DEF Rules
        <4>3. /\ g[<< "primary", i >>] = Method(g, tokens, v, << "primary", i >>)
              /\ g[<< "comparison", i >>] = Method(g, tokens, v, << "comparison", i >>)
              /\ g[<< "not_expr", i >>] = Method(g, tokens, v, << "not_expr", i >>)
              /\ g[<< "and_expr", i >>] = Method(g, tokens, v, << "and_expr", i >>)
              /\ g[<< "or_expr", i >>] = Method(g, tokens, v, << "or_expr", i >>)
          <5> HIDE DEF Dom
          <5> QED BY <4>1, MethodsAre, ZenonT(60) DEF ParsesAt
        <4> QED BY <4>2, <4>3
      <3> QED BY <3>1, <3>2
    <2>6. IsIt(g)
      <3>1. g = [ at \in Dom |-> g[at] ]
        BY <2>2
      <3> HIDE DEF Dom
      <3>2. [ at \in Dom |-> g[at] ] = [ at \in Dom |-> Method(g, tokens, v, at) ]
        BY <2>5
      <3> QED BY <3>1, <3>2
    <2> HIDE DEF IsIt
    <2> QED BY <2>6
  <1>3. PICK F : F = Parser(tokens, v)
    OBVIOUS
  <1>4. IsIt(F)
    <2> HIDE DEF IsIt
    <2> QED BY <1>1, <1>2, <1>3
  <1>5. ASSUME NEW i \in 1..Len(tokens) + 1
        PROVE  ParsesAt(F, tokens, v, i)
    <2>1. ASSUME NEW rule \in Rules
          PROVE  F[<< rule, i >>] = Method(F, tokens, v, << rule, i >>)
      <3>1. << rule, i >> \in Dom
        OBVIOUS
      <3> HIDE DEF Dom
      <3>2. \A at \in Dom : F[at] = Method(F, tokens, v, at)
        BY <1>4
      <3> QED BY <3>1, <3>2
    <2> HIDE DEF IsIt, Dom
    <2>2. \A rule \in { "primary", "comparison", "not_expr", "and_expr", "or_expr" } :
             F[<< rule, i >>] = Method(F, tokens, v, << rule, i >>)
      BY <2>1 DEF Rules
    <2> QED BY <2>2, MethodsAre DEF ParsesAt
  <1> QED BY <1>3, <1>5

\* Whatever the tokens, the parser never runs over their end.
LEMMA ParserBounded ==
    ASSUME NEW v, NEW tokens, Len(tokens) \in Nat
    PROVE  \A i \in 1..Len(tokens) + 1 : BoundedAt(Parser(tokens, v), tokens, i)
  <1>1. PICK F : F = Parser(tokens, v)
    OBVIOUS
  <1> DEFINE loose == { i \in 1..Len(tokens) + 1 : ~ BoundedAt(F, tokens, i) }
  <1>2. loose = {}
    <2> SUFFICES ASSUME loose # {} PROVE FALSE
      OBVIOUS
    <2>1. PICK p \in loose : \A i \in loose : i <= p
      <3>1. loose \in SUBSET (1..Len(tokens) + 1) /\ Len(tokens) + 1 \in Nat
        OBVIOUS
      <3> HIDE DEF loose
      <3> QED BY <3>1, GreatestNumber
    <2>2. p \in 1..Len(tokens) + 1 /\ ~ BoundedAt(F, tokens, p)
      OBVIOUS
    <2>3. \A i \in p + 1..Len(tokens) + 1 : i \in 1..Len(tokens) + 1 /\ i \notin loose
      <3>1. \A i \in p + 1..Len(tokens) + 1 : i \in 1..Len(tokens) + 1 /\ ~ (i <= p)
        BY <2>2
      <3> HIDE DEF loose
      <3> QED BY <2>1, <3>1
    <2>4. \A i \in p + 1..Len(tokens) + 1 : BoundedAt(F, tokens, i)
      BY <2>3
    <2> HIDE DEF loose
    <2>5. ParsesAt(F, tokens, v, p)
      BY <1>1, <2>2, ParserParses
    <2> QED BY <2>2, <2>4, <2>5, BoundedStep
  <1> QED BY <1>1, <1>2

\* The tokens from p up to q, q not included.
Piece(tokens, p, q) == SubSeq(tokens, p, q - 1)

\* The length and the tokens of a piece.
LEMMA PieceIs ==
    ASSUME NEW S, NEW tokens \in Seq(S), NEW p \in 1..Len(tokens) + 1,
           NEW q \in p..Len(tokens) + 1
    PROVE  /\ Piece(tokens, p, q) \in Seq(S) /\ Len(Piece(tokens, p, q)) = q - p
           /\ \A i \in 1..q - p : Piece(tokens, p, q)[i] = tokens[p + i - 1]
  <1>1. p \in Int /\ q - 1 \in Int
    OBVIOUS
  <1>2. \A i \in p..q - 1 : tokens[i] \in S
    OBVIOUS
  <1>3. /\ SubSeq(tokens, p, q - 1) \in Seq(S)
        /\ Len(SubSeq(tokens, p, q - 1)) = IF p <= q - 1 THEN q - 1 - p + 1 ELSE 0
        /\ \A i \in 1..q - 1 - p + 1 : SubSeq(tokens, p, q - 1)[i] = tokens[p + i - 1]
    BY <1>1, <1>2, SubSeqProperties
  <1>4. q - 1 - p + 1 = q - p
    OBVIOUS
  <1> QED BY <1>3, <1>4 DEF Piece

\* u is l, the one token c, and r, token by token.
IsChain(u, S, l, c, r) ==
    /\ u \in Seq(S) /\ Len(u) = Len(l) + 1 + Len(r)
    /\ \A i \in 1..Len(l) : u[i] = l[i]
    /\ u[Len(l) + 1] = c
    /\ \A i \in 1..Len(r) : u[Len(l) + 1 + i] = r[i]

\* What is put together is a chain of its parts.
LEMMA Chained ==
    ASSUME NEW S, NEW l \in Seq(S), NEW c \in S, NEW r \in Seq(S)
    PROVE  IsChain(l \o << c >> \o r, S, l, c, r)
  <1>u. PICK u : u = l \o << c >> \o r
    OBVIOUS
  <1>1. PICK cs, lc : cs = << c >> /\ lc = l \o cs
    OBVIOUS
  <1>2. cs \in Seq(S) /\ Len(cs) = 1 /\ cs[1] = c /\ u = lc \o r
    BY <1>u, <1>1
  <1>3. Len(l) \in Nat /\ Len(r) \in Nat
    OBVIOUS
  <1>4. lc \in Seq(S) /\ Len(lc) = Len(l) + 1
    BY <1>1, <1>2
  <1>5. \A i \in 1..Len(l) : lc[i] = l[i]
    BY <1>1, <1>2
  <1>6. lc[Len(l) + 1] = c
    BY <1>1, <1>2
  <1>7. u \in Seq(S) /\ Len(u) = Len(l) + 1 + Len(r)
    <2>1. u \in Seq(S) /\ Len(u) = Len(lc) + Len(r)
      BY <1>2, <1>4, ConcatProperties, Zenon
    <2> QED BY <1>4, <2>1
  <1>8. \A i \in 1..Len(l) + 1 : u[i] = lc[i]
    BY <1>2, <1>4
  <1>9. \A i \in 1..Len(r) : u[Len(l) + 1 + i] = r[i]
    BY <1>2, <1>3, <1>4
  <1>10. IsChain(u, S, l, c, r)
    BY <1>3, <1>5, <1>6, <1>7, <1>8, <1>9 DEF IsChain
  <1> QED BY <1>u, <1>10

\* A piece cut at m: what is before m, the token there, and what is behind it.
LEMMA PieceCut ==
    ASSUME NEW S, NEW tokens \in Seq(S), NEW p \in 1..Len(tokens) + 1,
           NEW q \in p..Len(tokens) + 1, NEW m \in p..q - 1
    PROVE  Piece(tokens, p, q) = Piece(tokens, p, m) \o << tokens[m] >> \o Piece(tokens, m + 1, q)
  <1>1. PICK a, l, c, r : /\ a = Piece(tokens, p, q) /\ l = Piece(tokens, p, m)
                          /\ c = tokens[m] /\ r = Piece(tokens, m + 1, q)
    OBVIOUS
  <1>2. /\ a \in Seq(S) /\ Len(a) = q - p
        /\ \A i \in 1..q - p : a[i] = tokens[p + i - 1]
    BY <1>1, PieceIs
  <1>3. /\ l \in Seq(S) /\ Len(l) = m - p
        /\ \A i \in 1..m - p : l[i] = tokens[p + i - 1]
    <2>1. m \in p..Len(tokens) + 1
      OBVIOUS
    <2> QED BY <1>1, <2>1, PieceIs
  <1>4. /\ r \in Seq(S) /\ Len(r) = q - (m + 1)
        /\ \A i \in 1..q - (m + 1) : r[i] = tokens[m + 1 + i - 1]
    <2>1. m + 1 \in 1..Len(tokens) + 1 /\ q \in m + 1..Len(tokens) + 1
      OBVIOUS
    <2>2. PICK k : k = m + 1
      OBVIOUS
    <2> QED BY <1>1, <2>1, <2>2, PieceIs
  <1>5. PICK u : u = l \o << c >> \o r
    OBVIOUS
  <1>6. c \in S /\ m - p \in Nat /\ q - (m + 1) \in Nat
    BY <1>1
  <1>7. /\ u \in Seq(S) /\ Len(u) = Len(l) + 1 + Len(r)
        /\ \A i \in 1..Len(l) : u[i] = l[i]
        /\ u[Len(l) + 1] = c
        /\ \A i \in 1..Len(r) : u[Len(l) + 1 + i] = r[i]
    <2>1. IsChain(u, S, l, c, r)
      BY <1>3, <1>4, <1>5, <1>6, Chained, Zenon
    <2> QED BY <2>1 DEF IsChain
  <1>8. Len(u) = q - p
    BY <1>3, <1>4, <1>7
  <1>9. \A i \in 1..q - p : a[i] = u[i]
    <2> SUFFICES ASSUME NEW i \in 1..q - p PROVE a[i] = u[i]
      OBVIOUS
    <2>1. CASE i <= m - p
      BY <1>2, <1>3, <1>7, <2>1
    <2>2. CASE i = m - p + 1
      BY <1>1, <1>2, <1>3, <1>7, <2>2
    <2>3. CASE i > m - p + 1
      <3>1. PICK j : j = i - (m - p + 1)
        OBVIOUS
      <3>2. j \in 1..q - (m + 1) /\ i = m - p + 1 + j /\ m + 1 + j - 1 = p + i - 1
        BY <2>3, <3>1
      <3>3. u[i] = r[j]
        BY <1>3, <1>4, <1>7, <3>2
      <3> QED BY <1>2, <1>4, <3>2, <3>3
    <2> QED BY <2>1, <2>2, <2>3
  <1>10. a = u
    BY <1>2, <1>7, <1>8, <1>9, SeqEqual
  <1> QED BY <1>1, <1>5, <1>10

\* Three parts of known lengths are put together in one way.
Alike(S, l, c, r, k, d, t) ==
    /\ l \in Seq(S) /\ c \in S /\ r \in Seq(S)
    /\ k \in Seq(S) /\ d \in S /\ t \in Seq(S)
    /\ Len(l) = Len(k) /\ l \o << c >> \o r = k \o << d >> \o t

\* Of the same lengths there is one way only.
LEMMA OneWay ==
    ASSUME NEW S, NEW l, NEW c, NEW r, NEW k, NEW d, NEW t, Alike(S, l, c, r, k, d, t)
    PROVE  l = k /\ c = d /\ r = t
  <1>0. /\ l \in Seq(S) /\ c \in S /\ r \in Seq(S)
        /\ k \in Seq(S) /\ d \in S /\ t \in Seq(S)
        /\ Len(l) = Len(k) /\ l \o << c >> \o r = k \o << d >> \o t
    BY DEF Alike
  <1>1. PICK u : u = l \o << c >> \o r
    OBVIOUS
  <1>2. /\ Len(u) = Len(l) + 1 + Len(r)
        /\ \A i \in 1..Len(l) : u[i] = l[i]
        /\ u[Len(l) + 1] = c
        /\ \A i \in 1..Len(r) : u[Len(l) + 1 + i] = r[i]
    <2>1. IsChain(u, S, l, c, r)
      BY <1>0, <1>1, Chained, Zenon
    <2> QED BY <2>1 DEF IsChain
  <1>3. /\ Len(u) = Len(k) + 1 + Len(t)
        /\ \A i \in 1..Len(k) : u[i] = k[i]
        /\ u[Len(k) + 1] = d
        /\ \A i \in 1..Len(t) : u[Len(k) + 1 + i] = t[i]
    <2>1. u = k \o << d >> \o t
      BY <1>0, <1>1
    <2>2. IsChain(u, S, k, d, t)
      BY <1>0, <2>1, Chained, Zenon
    <2> QED BY <2>2 DEF IsChain
  <1>4. Len(l) \in Nat /\ Len(r) \in Nat /\ Len(t) \in Nat
    BY <1>0
  <1>5. Len(r) = Len(t)
    BY <1>0, <1>2, <1>3, <1>4
  <1>6. l = k
    <2>1. \A i \in 1..Len(l) : l[i] = k[i]
      BY <1>0, <1>2, <1>3
    <2> QED BY <1>0, <2>1, SeqEqual
  <1>7. r = t
    <2>1. \A i \in 1..Len(r) : r[i] = t[i]
      BY <1>0, <1>2, <1>3, <1>5
    <2> QED BY <1>0, <1>5, <2>1, SeqEqual
  <1> QED BY <1>0, <1>2, <1>3, <1>6, <1>7

\* Which piece of the tokens is made of l, c and r.
Splits(tokens, p, q, l, c, r) ==
    Piece(tokens, p, q) = l \o << c >> \o r
      <=> /\ l = Piece(tokens, p, p + Len(l)) /\ c = tokens[p + Len(l)]
          /\ r = Piece(tokens, p + Len(l) + 1, q)

\* A piece is made of three parts where the parts are its pieces.
LEMMA PieceSplits ==
    ASSUME NEW S, NEW tokens \in Seq(S), NEW p \in 1..Len(tokens) + 1,
           NEW q \in p..Len(tokens) + 1, NEW l \in Seq(S), NEW c \in S, NEW r \in Seq(S),
           Len(l) + 1 + Len(r) = q - p
    PROVE  Splits(tokens, p, q, l, c, r)
  <1>1. PICK m : m = p + Len(l)
    OBVIOUS
  <1>2. /\ Len(l) \in Nat /\ Len(r) \in Nat /\ m \in p..q - 1 /\ m \in 1..Len(tokens)
        /\ m \in p..Len(tokens) + 1 /\ m + 1 \in 1..Len(tokens) + 1
        /\ q \in m + 1..Len(tokens) + 1 /\ m - p = Len(l)
    <2>1. Len(l) \in Nat /\ Len(r) \in Nat
      BY LenProperties
    <2> QED BY <1>1, <2>1
  <1>3. Piece(tokens, p, q) = Piece(tokens, p, m) \o << tokens[m] >> \o Piece(tokens, m + 1, q)
    BY <1>2, PieceCut
  <1>4. /\ Piece(tokens, p, m) \in Seq(S) /\ Len(Piece(tokens, p, m)) = Len(l)
        /\ Piece(tokens, m + 1, q) \in Seq(S) /\ tokens[m] \in S
    <2>1. PICK k : k = m + 1
      OBVIOUS
    <2>2. Piece(tokens, k, q) \in Seq(S)
      BY <1>2, <2>1, PieceIs
    <2>3. tokens[m] \in S
      BY <1>2
    <2>4. Piece(tokens, p, m) \in Seq(S) /\ Len(Piece(tokens, p, m)) = m - p
      BY <1>2, PieceIs
    <2> QED BY <1>2, <2>1, <2>2, <2>3, <2>4
  <1>5. ASSUME Piece(tokens, p, q) = l \o << c >> \o r
        PROVE  l = Piece(tokens, p, m) /\ c = tokens[m] /\ r = Piece(tokens, m + 1, q)
    <2>1. l \o << c >> \o r
             = Piece(tokens, p, m) \o << tokens[m] >> \o Piece(tokens, m + 1, q)
      BY <1>3, <1>5
    <2>2. PICK k, d, t : k = Piece(tokens, p, m) /\ d = tokens[m] /\ t = Piece(tokens, m + 1, q)
      OBVIOUS
    <2>3. k \in Seq(S) /\ d \in S /\ t \in Seq(S) /\ Len(l) = Len(k)
      BY <1>4, <2>2
    <2>4. l \o << c >> \o r = k \o << d >> \o t
      BY <2>1, <2>2
    <2>5. Alike(S, l, c, r, k, d, t)
      BY <2>3, <2>4 DEF Alike
    <2> QED BY <2>2, <2>5, OneWay
  <1>6. ASSUME l = Piece(tokens, p, m) /\ c = tokens[m] /\ r = Piece(tokens, m + 1, q)
        PROVE  Piece(tokens, p, q) = l \o << c >> \o r
    BY <1>3, <1>6
  <1> QED BY <1>1, <1>5, <1>6 DEF Splits

Categories == { "prim", "comp", "neg", "conj", "disj" }

Grammar(g, v, N) == \A n \in 1..N : NextIs(g[n], g, v, n)

\* The phrases of n tokens have n tokens.
Sized(g, n) == \A c \in Categories : \A s \in g[n][c] : s \in Seq(Tokens) /\ Len(s) = n

\* A phrase with a connective has the tokens it is counted by,
LEMMA JoinedSized ==
    ASSUME NEW g, NEW n \in Nat, \A i \in 1..n - 1 : Sized(g, i), NEW a \in Categories,
           NEW b \in Categories, NEW mark \in Tokens, NEW s, Joined(s, g, a, mark, b, n)
    PROVE  s \in Seq(Tokens) /\ Len(s) = n
  <1>1. PICK i \in 1..n - 2 :
           \E l \in g[i][a], r \in g[n - 1 - i][b] : s = l \o << mark >> \o r
    BY Zenon DEF Joined
  <1>2. PICK l \in g[i][a], r \in g[n - 1 - i][b] : s = l \o << mark >> \o r
    BY <1>1
  <1>3. i \in 1..n - 1 /\ n - 1 - i \in 1..n - 1
    OBVIOUS
  <1>4. l \in Seq(Tokens) /\ Len(l) = i
    BY <1>2, <1>3 DEF Sized
  <1>5. r \in Seq(Tokens) /\ Len(r) = n - 1 - i
    <2>1. PICK j : j = n - 1 - i
      OBVIOUS
    <2>2. j \in 1..n - 1 /\ r \in g[j][b]
      BY <1>2, <1>3, <2>1
    <2>3. r \in Seq(Tokens) /\ Len(r) = j
      BY <2>2 DEF Sized
    <2> QED BY <2>1, <2>3
  <1>6. IsChain(s, Tokens, l, mark, r)
    BY <1>2, <1>4, <1>5, Chained, Zenon
  <1> QED BY <1>4, <1>5, <1>6 DEF IsChain

\* an operand or a phrase in brackets,
LEMMA EnclosedSized ==
    ASSUME NEW g, NEW v, NEW n \in Nat, \A i \in 1..n - 1 : Sized(g, i), NEW s,
           Enclosed(s, g, v, n)
    PROVE  s \in Seq(Tokens) /\ Len(s) = n
  <1>1. CASE n = 1 /\ \E o \in Operands(v) : s = << o >>
    <2>1. PICK o \in Operands(v) : s = << o >>
      BY <1>1
    <2>2. o \in Tokens
      BY DEF Operands, Tokens
    <2> QED BY <1>1, <2>1, <2>2
  <1>2. CASE n > 2 /\ \E d \in g[n - 2].disj : s = << "(" >> \o d \o << ")" >>
    <2>1. PICK d \in g[n - 2].disj : s = << "(" >> \o d \o << ")" >>
      BY <1>2
    <2>2. n - 2 \in 1..n - 1 /\ "disj" \in Categories
      BY <1>2 DEF Categories
    <2>3. d \in Seq(Tokens) /\ Len(d) = n - 2
      BY <2>1, <2>2 DEF Sized
    <2>4. PICK t : t = << "(" >> \o d
      OBVIOUS
    <2>5. "(" \in Tokens /\ ")" \in Tokens
      BY DEF Tokens
    <2>6. t \in Seq(Tokens) /\ Len(t) = n - 1
      BY <2>3, <2>4, <2>5
    <2> QED BY <2>1, <2>4, <2>5, <2>6
  <1> QED BY <1>1, <1>2 DEF Enclosed

\* a negation,
LEMMA NegatedSized ==
    ASSUME NEW g, NEW n \in Nat, \A i \in 1..n - 1 : Sized(g, i), NEW s, Negated(s, g, n)
    PROVE  s \in Seq(Tokens) /\ Len(s) = n
  <1>1. PICK d \in g[n - 1].neg : s = << "not" >> \o d
    BY DEF Negated
  <1>2. n - 1 \in 1..n - 1 /\ "neg" \in Categories /\ "not" \in Tokens
    BY DEF Negated, Categories, Tokens
  <1>3. d \in Seq(Tokens) /\ Len(d) = n - 1
    BY <1>1, <1>2 DEF Sized
  <1> QED BY <1>1, <1>2, <1>3

\* and so has every phrase of the grammar.
LEMMA AllSized ==
    ASSUME NEW v, NEW N \in Nat, NEW g, Grammar(g, v, N)
    PROVE  \A n \in 1..N : Sized(g, n)
  <1> DEFINE odd == { n \in 1..N : ~ Sized(g, n) }
  <1>1. odd = {}
    <2> SUFFICES ASSUME odd # {} PROVE FALSE
      OBVIOUS
    <2>1. PICK n \in odd : \A i \in odd : n <= i
      <3>1. odd \in SUBSET Nat
        OBVIOUS
      <3> HIDE DEF odd
      <3> QED BY <3>1, LeastNumber
    <2>2. n \in 1..N /\ ~ Sized(g, n)
      OBVIOUS
    <2>3. \A i \in 1..n - 1 : Sized(g, i)
      <3>1. \A i \in 1..n - 1 : i \in 1..N /\ ~ (n <= i)
        BY <2>2
      <3>2. \A i \in 1..n - 1 : i \notin odd
        <4> HIDE DEF odd
        <4> QED BY <2>1, <3>1
      <3> QED BY <3>1, <3>2
    <2> HIDE DEF odd
    <2>4. NextIs(g[n], g, v, n)
      BY <2>2 DEF Grammar
    <2>5. n \in Nat
      BY <2>2
    <2> DEFINE Fits(s) == s \in Seq(Tokens) /\ Len(s) = n
    <2>6. \A s : \A a, b \in Categories : \A mark \in Tokens :
             Joined(s, g, a, mark, b, n) => Fits(s)
      BY <2>3, <2>5, JoinedSized
    <2>7. \A s : Enclosed(s, g, v, n) => Fits(s)
      BY <2>3, <2>5, EnclosedSized
    <2>8. \A s : Negated(s, g, n) => Fits(s)
      BY <2>3, <2>5, NegatedSized
    <2>9. /\ "prim" \in Categories /\ "neg" \in Categories /\ "conj" \in Categories
          /\ "disj" \in Categories /\ "eq" \in Tokens /\ "and" \in Tokens /\ "or" \in Tokens
          /\ Categories = { "prim", "comp", "neg", "conj", "disj" }
      BY DEF Categories, Tokens
    <2> HIDE DEF Fits
    <2>10. \A s \in g[n].prim : Fits(s)
      BY <2>4, <2>7 DEF NextIs
    <2>11. \A s \in g[n].comp : Fits(s)
      BY <2>4, <2>6, <2>9, <2>10, Zenon DEF NextIs
    <2>12. \A s \in g[n].neg : Fits(s)
      BY <2>4, <2>8, <2>11, Zenon DEF NextIs
    <2>13. \A s \in g[n].conj : Fits(s)
      BY <2>4, <2>6, <2>9, <2>12, Zenon DEF NextIs
    <2>14. \A s \in g[n].disj : Fits(s)
      BY <2>4, <2>6, <2>9, <2>13, Zenon DEF NextIs
    <2>15. \A c \in Categories : \A s \in g[n][c] : Fits(s)
      BY <2>9, <2>10, <2>11, <2>12, <2>13, <2>14
    <2> QED BY <2>2, <2>15 DEF Fits, Sized
  <1> QED BY <1>1

\* The tokens from p up to q are a phrase of category c.
Spans(g, tokens, c, p, q) == Piece(tokens, p, q) \in g[q - p][c]

Joins(g, tokens, a, mark, b, p, q) ==
    \E m \in p + 1..q - 2 :
       Spans(g, tokens, a, p, m) /\ tokens[m] = mark /\ Spans(g, tokens, b, m + 1, q)

Encloses(g, tokens, v, p, q) ==
    \/ q = p + 1 /\ tokens[p] \in Operands(v)
    \/ q > p + 2 /\ tokens[p] = "(" /\ tokens[q - 1] = ")" /\ Spans(g, tokens, "disj", p + 1, q - 1)

Negates(g, tokens, p, q) ==
    q > p + 1 /\ tokens[p] = "not" /\ Spans(g, tokens, "neg", p + 1, q)

SpansAre(g, tokens, v, p, q) ==
    /\ Spans(g, tokens, "prim", p, q) <=> Encloses(g, tokens, v, p, q)
    /\ Spans(g, tokens, "comp", p, q) <=>
         (Spans(g, tokens, "prim", p, q) \/ Joins(g, tokens, "prim", "eq", "prim", p, q))
    /\ Spans(g, tokens, "neg", p, q) <=>
         (Spans(g, tokens, "comp", p, q) \/ Negates(g, tokens, p, q))
    /\ Spans(g, tokens, "conj", p, q) <=>
         (Spans(g, tokens, "neg", p, q) \/ Joins(g, tokens, "neg", "and", "conj", p, q))
    /\ Spans(g, tokens, "disj", p, q) <=>
         (Spans(g, tokens, "conj", p, q) \/ Joins(g, tokens, "conj", "or", "disj", p, q))

\* A connective at m, i tokens from p, has j tokens behind it.
LEMMA LengthsAddUp ==
    ASSUME NEW p \in Nat, NEW q \in Nat, NEW i \in 1..q - p - 2, NEW m, NEW j,
           m = p + i, j = q - p - 1 - i
    PROVE  /\ i \in 1..q - p - 1 /\ j \in 1..q - p - 1 /\ m \in p + 1..q - 2
           /\ m - p = i /\ q - (m + 1) = j /\ i + 1 + j = q - p
  OBVIOUS

\* The grammar says of phrases, these of places in the tokens: the same of a
\* connective,
LEMMA JoinsIs ==
    ASSUME NEW g, NEW tokens \in Seq(Tokens), NEW p \in 1..Len(tokens) + 1,
           NEW q \in p + 1..Len(tokens) + 1, \A i \in 1..q - p - 1 : Sized(g, i),
           NEW a \in Categories, NEW b \in Categories, NEW mark \in Tokens
    PROVE  Joined(Piece(tokens, p, q), g, a, mark, b, q - p)
             <=> Joins(g, tokens, a, mark, b, p, q)
  <1>0. Len(tokens) \in Nat /\ p \in Nat /\ q \in Nat /\ q \in p..Len(tokens) + 1
    OBVIOUS
  <1>1. ASSUME Joined(Piece(tokens, p, q), g, a, mark, b, q - p)
        PROVE  Joins(g, tokens, a, mark, b, p, q)
    <2>1. PICK i \in 1..q - p - 2 :
             \E l \in g[i][a], r \in g[q - p - 1 - i][b] : Piece(tokens, p, q) = l \o << mark >> \o r
      BY <1>1, Zenon DEF Joined
    <2>2. PICK l \in g[i][a], r \in g[q - p - 1 - i][b] :
             Piece(tokens, p, q) = l \o << mark >> \o r
      BY <2>1
    <2>3. PICK m, j : m = p + i /\ j = q - p - 1 - i
      OBVIOUS
    <2>4. /\ i \in 1..q - p - 1 /\ j \in 1..q - p - 1 /\ m \in p + 1..q - 2
          /\ m - p = i /\ q - (m + 1) = j /\ i + 1 + j = q - p
      BY <1>0, <2>3, LengthsAddUp
    <2>5. l \in Seq(Tokens) /\ Len(l) = i
      BY <2>2, <2>4 DEF Sized
    <2>6. r \in Seq(Tokens) /\ Len(r) = j
      <3>1. r \in g[j][b]
        BY <2>2, <2>3
      <3> QED BY <2>4, <3>1 DEF Sized
    <2>7. /\ l = Piece(tokens, p, p + Len(l)) /\ mark = tokens[p + Len(l)]
          /\ r = Piece(tokens, p + Len(l) + 1, q)
      <3>1. Len(l) + 1 + Len(r) = q - p
        BY <2>4, <2>5, <2>6
      <3>2. Splits(tokens, p, q, l, mark, r)
        BY <1>0, <2>5, <2>6, <3>1, PieceSplits
      <3> QED BY <2>2, <3>2 DEF Splits
    <2>8. l = Piece(tokens, p, m) /\ mark = tokens[m] /\ r = Piece(tokens, m + 1, q)
      BY <2>3, <2>5, <2>7
    <2>9. Spans(g, tokens, a, p, m) /\ Spans(g, tokens, b, m + 1, q)
      <3>1. l \in g[m - p][a] /\ r \in g[q - (m + 1)][b]
        BY <2>2, <2>3, <2>4
      <3> QED BY <2>8, <3>1 DEF Spans
    <2> QED BY <2>4, <2>8, <2>9, Zenon DEF Joins
  <1>2. ASSUME Joins(g, tokens, a, mark, b, p, q)
        PROVE  Joined(Piece(tokens, p, q), g, a, mark, b, q - p)
    <2>1. PICK m \in p + 1..q - 2 :
             Spans(g, tokens, a, p, m) /\ tokens[m] = mark /\ Spans(g, tokens, b, m + 1, q)
      BY <1>2, Zenon DEF Joins
    <2>2. PICK i, j, k : i = m - p /\ k = m + 1 /\ j = q - k
      OBVIOUS
    <2>3. /\ i \in 1..q - p - 2 /\ j = q - p - 1 - i /\ m \in p..q - 1
      BY <1>0, <2>1, <2>2
    <2>4. Piece(tokens, p, m) \in g[i][a] /\ Piece(tokens, m + 1, q) \in g[q - p - 1 - i][b]
      <3>1. Piece(tokens, p, m) \in g[i][a]
        BY <2>1, <2>2 DEF Spans
      <3>2. Piece(tokens, m + 1, q) \in g[j][b]
        BY <2>1, <2>2 DEF Spans
      <3> QED BY <2>3, <3>1, <3>2
    <2>5. Piece(tokens, p, q) = Piece(tokens, p, m) \o << mark >> \o Piece(tokens, m + 1, q)
      BY <1>0, <2>1, <2>3, PieceCut
    <2>6. \E l \in g[i][a], r \in g[q - p - 1 - i][b] : Piece(tokens, p, q) = l \o << mark >> \o r
      BY <2>4, <2>5, Zenon
    <2> QED BY <2>3, <2>6, Zenon DEF Joined
  <1> QED BY <1>1, <1>2

\* of brackets,
LEMMA EnclosesIs ==
    ASSUME NEW g, NEW v, NEW tokens \in Seq(Tokens), NEW p \in 1..Len(tokens) + 1,
           NEW q \in p + 1..Len(tokens) + 1, \A i \in 1..q - p - 1 : Sized(g, i)
    PROVE  Enclosed(Piece(tokens, p, q), g, v, q - p) <=> Encloses(g, tokens, v, p, q)
  <1>0. Len(tokens) \in Nat /\ p \in Nat /\ q \in Nat /\ q \in p..Len(tokens) + 1
    OBVIOUS
  <1>s. PICK s : s = Piece(tokens, p, q)
    OBVIOUS
  <1>1. /\ s \in Seq(Tokens) /\ Len(s) = q - p
        /\ \A i \in 1..q - p : s[i] = tokens[p + i - 1]
    BY <1>0, <1>s, PieceIs, ZenonT(60)
  <1>2. CASE q = p + 1
    <2>1. q - p = 1 /\ ~ (q - p > 2) /\ ~ (q > p + 2) /\ s[1] = tokens[p]
      BY <1>0, <1>1, <1>2
    <2>2. \A o \in Operands(v) : o \in Tokens
      BY DEF Operands, Tokens
    <2>3. \A o : s = << o >> <=> o = tokens[p]
      <3>1. PICK t : t = << s[1] >>
        OBVIOUS
      <3>2. s[1] \in Tokens
        BY <1>1, <2>1
      <3>3. t \in Seq(Tokens) /\ Len(t) = 1 /\ t[1] = s[1]
        BY <3>1, <3>2
      <3>4. s = t
        <4>1. \A i \in 1..Len(s) : s[i] = t[i]
          BY <1>1, <2>1, <3>3
        <4> QED BY <1>1, <2>1, <3>3, <4>1, SeqEqual
      <3> QED BY <2>1, <3>1, <3>3, <3>4, SMTT(40)
    <2> QED BY <1>2, <1>s, <2>1, <2>3 DEF Enclosed, Encloses
  <1>3. CASE q = p + 2
    <2>1. q - p # 1 /\ ~ (q - p > 2) /\ ~ (q > p + 2) /\ q # p + 1
      BY <1>0, <1>3
    <2> QED BY <2>1 DEF Enclosed, Encloses
  <1>4. CASE q > p + 2
    <2>1. q - p # 1 /\ q - p > 2 /\ q # p + 1 /\ q - p - 2 \in 1..q - p - 1
      BY <1>0, <1>4
    <2>2. PICK k, e : k = p + 1 /\ e = q - 1
      OBVIOUS
    <2>3. /\ k \in 1..Len(tokens) + 1 /\ e \in k..Len(tokens) + 1 /\ e - k = q - p - 2
      BY <1>0, <1>4, <2>2
    <2>4. PICK x : x = Piece(tokens, k, e)
      OBVIOUS
    <2>5. /\ x \in Seq(Tokens) /\ Len(x) = q - p - 2
          /\ \A i \in 1..q - p - 2 : x[i] = tokens[k + i - 1]
      <3>1. /\ x \in Seq(Tokens) /\ Len(x) = e - k
            /\ \A i \in 1..e - k : x[i] = tokens[k + i - 1]
        BY <2>3, <2>4, PieceIs, ZenonT(60)
      <3> QED BY <2>3, <3>1
    <2>6. \A d \in g[q - p - 2].disj : d \in Seq(Tokens) /\ Len(d) = q - p - 2
      BY <2>1 DEF Sized, Categories
    <2>7. ASSUME NEW d \in Seq(Tokens), Len(d) = q - p - 2
          PROVE  s = << "(" >> \o d \o << ")" >>
                   <=> tokens[p] = "(" /\ tokens[q - 1] = ")" /\ d = x
      <3>1. PICK t, u : t = << "(" >> \o d /\ u = t \o << ")" >>
        OBVIOUS
      <3>2. "(" \in Tokens /\ ")" \in Tokens
        BY DEF Tokens
      <3>3. /\ t \in Seq(Tokens) /\ Len(t) = q - p - 1 /\ t[1] = "("
            /\ \A i \in 1..q - p - 2 : t[i + 1] = d[i]
        BY <1>0, <1>4, <2>7, <3>1, <3>2
      <3>4. /\ u \in Seq(Tokens) /\ Len(u) = q - p /\ u[q - p] = ")"
            /\ \A i \in 1..q - p - 1 : u[i] = t[i]
        BY <1>0, <1>4, <3>1, <3>2, <3>3
      <3>5. /\ u[1] = "(" /\ u[q - p] = ")"
            /\ \A i \in 1..q - p - 2 : u[i + 1] = d[i]
        BY <1>0, <1>4, <3>3, <3>4
      <3>6. /\ s[1] = tokens[p] /\ s[q - p] = tokens[q - 1]
            /\ \A i \in 1..q - p - 2 : s[i + 1] = x[i]
        BY <1>0, <1>1, <1>4, <2>2, <2>5, SMTT(40)
      <3>7. ASSUME s = u PROVE tokens[p] = "(" /\ tokens[q - 1] = ")" /\ d = x
        <4>1. \A i \in 1..Len(d) : d[i] = x[i]
          BY <2>7, <3>5, <3>6, <3>7
        <4>2. d = x
          BY <2>5, <2>7, <4>1, SeqEqual
        <4> QED BY <3>5, <3>6, <3>7, <4>2
      <3>8. ASSUME tokens[p] = "(" /\ tokens[q - 1] = ")" /\ d = x PROVE s = u
        <4>1. ASSUME NEW i \in 1..Len(s) PROVE s[i] = u[i]
          <5>1. CASE i = 1
            BY <3>5, <3>6, <3>8, <5>1
          <5>2. CASE i = q - p
            BY <3>5, <3>6, <3>8, <5>2
          <5>3. CASE i # 1 /\ i # q - p
            <6>1. PICK j : j = i - 1
              OBVIOUS
            <6>2. j \in 1..q - p - 2 /\ i = j + 1
              BY <1>0, <1>1, <5>3, <6>1
            <6> QED BY <3>5, <3>6, <3>8, <6>2
          <5> QED BY <5>1, <5>2, <5>3
        <4> QED BY <1>1, <3>4, <4>1, SeqEqual
      <3> QED BY <3>1, <3>7, <3>8
    <2>8. Spans(g, tokens, "disj", p + 1, q - 1) <=> x \in g[q - p - 2].disj
      BY <2>2, <2>3, <2>4 DEF Spans
    <2>9. Enclosed(s, g, v, q - p) <=>
             \E d \in g[q - p - 2].disj : s = << "(" >> \o d \o << ")" >>
      BY <2>1 DEF Enclosed
    <2>10. Encloses(g, tokens, v, p, q) <=>
             tokens[p] = "(" /\ tokens[q - 1] = ")" /\ x \in g[q - p - 2].disj
      BY <1>4, <2>1, <2>8 DEF Encloses
    <2>11. (\E d \in g[q - p - 2].disj : s = << "(" >> \o d \o << ")" >>) <=>
             tokens[p] = "(" /\ tokens[q - 1] = ")" /\ x \in g[q - p - 2].disj
      BY <2>6, <2>7
    <2> QED BY <1>s, <2>9, <2>10, <2>11
  <1> QED BY <1>0, <1>2, <1>3, <1>4

\* of a negation,
LEMMA NegatesIs ==
    ASSUME NEW g, NEW tokens \in Seq(Tokens), NEW p \in 1..Len(tokens) + 1,
           NEW q \in p + 1..Len(tokens) + 1, \A i \in 1..q - p - 1 : Sized(g, i)
    PROVE  Negated(Piece(tokens, p, q), g, q - p) <=> Negates(g, tokens, p, q)
  <1>0. Len(tokens) \in Nat /\ p \in Nat /\ q \in Nat /\ q \in p..Len(tokens) + 1
    OBVIOUS
  <1>s. PICK s : s = Piece(tokens, p, q)
    OBVIOUS
  <1>1. /\ s \in Seq(Tokens) /\ Len(s) = q - p
        /\ \A i \in 1..q - p : s[i] = tokens[p + i - 1]
    BY <1>0, <1>s, PieceIs, ZenonT(60)
  <1>2. CASE q = p + 1
    BY <1>0, <1>2 DEF Negated, Negates
  <1>3. CASE q > p + 1
    <2>1. q - p > 1 /\ q - p - 1 \in 1..q - p - 1
      BY <1>0, <1>3
    <2>2. PICK k : k = p + 1
      OBVIOUS
    <2>3. k \in 1..Len(tokens) + 1 /\ q \in k..Len(tokens) + 1 /\ q - k = q - p - 1
      BY <1>0, <1>3, <2>2
    <2>4. PICK x : x = Piece(tokens, k, q)
      OBVIOUS
    <2>5. /\ x \in Seq(Tokens) /\ Len(x) = q - p - 1
          /\ \A i \in 1..q - p - 1 : x[i] = tokens[k + i - 1]
      <3>1. /\ x \in Seq(Tokens) /\ Len(x) = q - k
            /\ \A i \in 1..q - k : x[i] = tokens[k + i - 1]
        <4>1. /\ Piece(tokens, k, q) \in Seq(Tokens) /\ Len(Piece(tokens, k, q)) = q - k
              /\ \A i \in 1..q - k : Piece(tokens, k, q)[i] = tokens[k + i - 1]
          BY <2>3, PieceIs, ZenonT(60)
        <4> QED BY <2>4, <4>1
      <3> QED BY <2>3, <3>1
    <2>6. \A d \in g[q - p - 1].neg : d \in Seq(Tokens) /\ Len(d) = q - p - 1
      BY <2>1 DEF Sized, Categories
    <2>7. ASSUME NEW d \in Seq(Tokens), Len(d) = q - p - 1
          PROVE  s = << "not" >> \o d <=> tokens[p] = "not" /\ d = x
      <3>1. PICK u : u = << "not" >> \o d
        OBVIOUS
      <3>2. "not" \in Tokens
        BY DEF Tokens
      <3>3. /\ u \in Seq(Tokens) /\ Len(u) = q - p /\ u[1] = "not"
            /\ \A i \in 1..q - p - 1 : u[i + 1] = d[i]
        BY <1>0, <1>3, <2>7, <3>1, <3>2
      <3>6. /\ s[1] = tokens[p]
            /\ \A i \in 1..q - p - 1 : s[i + 1] = x[i]
        <4>1. s[1] = tokens[p]
          BY <1>0, <1>1, <1>3
        <4>2. ASSUME NEW i \in 1..q - p - 1 PROVE s[i + 1] = x[i]
          <5>1. i + 1 \in 1..q - p /\ p + (i + 1) - 1 = p + i /\ k + i - 1 = p + i
            BY <1>0, <2>2
          <5> QED BY <1>1, <2>5, <5>1, ZenonT(60)
        <4> QED BY <4>1, <4>2
      <3>7. ASSUME s = u PROVE tokens[p] = "not" /\ d = x
        <4>1. \A i \in 1..Len(d) : d[i] = x[i]
          BY <2>7, <3>3, <3>6, <3>7
        <4>2. d = x
          BY <2>5, <2>7, <4>1, SeqEqual
        <4> QED BY <3>3, <3>6, <3>7, <4>2
      <3>8. ASSUME tokens[p] = "not" /\ d = x PROVE s = u
        <4>1. ASSUME NEW i \in 1..Len(s) PROVE s[i] = u[i]
          <5>1. CASE i = 1
            BY <3>3, <3>6, <3>8, <5>1
          <5>2. CASE i # 1
            <6>1. PICK j : j = i - 1
              OBVIOUS
            <6>2. j \in 1..q - p - 1 /\ i = j + 1
              BY <1>0, <1>1, <5>2, <6>1
            <6> QED BY <3>3, <3>6, <3>8, <6>2
          <5> QED BY <5>1, <5>2
        <4> QED BY <1>1, <3>3, <4>1, SeqEqual
      <3> QED BY <3>1, <3>7, <3>8
    <2>8. Spans(g, tokens, "neg", p + 1, q) <=> x \in g[q - p - 1].neg
      BY <2>2, <2>3, <2>4 DEF Spans
    <2>9. Negated(s, g, q - p) <=> \E d \in g[q - p - 1].neg : s = << "not" >> \o d
      BY <2>1 DEF Negated
    <2>10. Negates(g, tokens, p, q) <=> tokens[p] = "not" /\ x \in g[q - p - 1].neg
      BY <1>3, <2>8 DEF Negates
    <2>11. (\E d \in g[q - p - 1].neg : s = << "not" >> \o d) <=>
             tokens[p] = "not" /\ x \in g[q - p - 1].neg
      BY <2>6, <2>7
    <2> QED BY <1>s, <2>9, <2>10, <2>11
  <1> QED BY <1>0, <1>2, <1>3

\* and of all five categories.
LEMMA SpansAll ==
    ASSUME NEW v, NEW N \in Nat, NEW g, Grammar(g, v, N),
           NEW tokens \in Seq(Tokens), Len(tokens) <= N, NEW p \in 1..Len(tokens) + 1,
           NEW q \in p + 1..Len(tokens) + 1
    PROVE  SpansAre(g, tokens, v, p, q)
  <1>0. Len(tokens) \in Nat
    OBVIOUS
  <1>1. q - p \in 1..N /\ \A i \in 1..q - p - 1 : i \in 1..N
    BY <1>0
  <1>2. \A i \in 1..q - p - 1 : Sized(g, i)
    BY <1>1, AllSized
  <1>3. NextIs(g[q - p], g, v, q - p)
    BY <1>1 DEF Grammar
  <1>4. Enclosed(Piece(tokens, p, q), g, v, q - p) <=> Encloses(g, tokens, v, p, q)
    BY <1>2, EnclosesIs
  <1>5. Negated(Piece(tokens, p, q), g, q - p) <=> Negates(g, tokens, p, q)
    BY <1>2, NegatesIs
  <1>6. \A a, b \in Categories : \A mark \in Tokens :
           Joined(Piece(tokens, p, q), g, a, mark, b, q - p)
             <=> Joins(g, tokens, a, mark, b, p, q)
    BY <1>2, JoinsIs
  <1>7. /\ "prim" \in Categories /\ "neg" \in Categories /\ "conj" \in Categories
        /\ "disj" \in Categories /\ "eq" \in Tokens /\ "and" \in Tokens /\ "or" \in Tokens
    BY DEF Categories, Tokens
  <1>8. /\ Joined(Piece(tokens, p, q), g, "prim", "eq", "prim", q - p)
             <=> Joins(g, tokens, "prim", "eq", "prim", p, q)
        /\ Joined(Piece(tokens, p, q), g, "neg", "and", "conj", q - p)
             <=> Joins(g, tokens, "neg", "and", "conj", p, q)
        /\ Joined(Piece(tokens, p, q), g, "conj", "or", "disj", q - p)
             <=> Joins(g, tokens, "conj", "or", "disj", p, q)
    BY <1>6, <1>7, Zenon
  <1> QED BY <1>3, <1>4, <1>5, <1>8 DEF NextIs, SpansAre, Spans

\* What the parser takes is a phrase.
SoundAt(f, g, tokens, p) ==
    /\ f[<< "primary", p >>] # Rejected => Spans(g, tokens, "prim", p, f[<< "primary", p >>])
    /\ f[<< "comparison", p >>] # Rejected => Spans(g, tokens, "comp", p, f[<< "comparison", p >>])
    /\ f[<< "not_expr", p >>] # Rejected => Spans(g, tokens, "neg", p, f[<< "not_expr", p >>])
    /\ f[<< "and_expr", p >>] # Rejected => Spans(g, tokens, "conj", p, f[<< "and_expr", p >>])
    /\ f[<< "or_expr", p >>] # Rejected => Spans(g, tokens, "disj", p, f[<< "or_expr", p >>])

\* What a rule with a connective takes is one of its phrases.
LEMMA AfterSound ==
    ASSUME NEW f, NEW g, NEW tokens, Len(tokens) \in Nat, NEW p \in 1..Len(tokens) + 1,
           NEW q, Bounded(q, tokens, p), NEW a, NEW b, NEW mark, mark # "end",
           q # Rejected => Spans(g, tokens, a, p, q), NEW next \in Rules,
           \A i \in p + 1..Len(tokens) + 1 :
              /\ Bounded(f[<< next, i >>], tokens, i)
              /\ f[<< next, i >>] # Rejected => Spans(g, tokens, b, i, f[<< next, i >>]),
           NEW x, x = After(f, tokens, q, mark, next), x # Rejected
    PROVE  Spans(g, tokens, a, p, x) \/ Joins(g, tokens, a, mark, b, p, x)
  <1>1. CASE q # Rejected /\ TokenAt(tokens, q) = mark
    <2>1. q \in p + 1..Len(tokens) + 1 /\ q \in 1..Len(tokens) /\ tokens[q] = mark
      BY <1>1, TokenIsThere DEF Bounded
    <2>2. PICK i : i = q + 1
      OBVIOUS
    <2>3. i \in p + 1..Len(tokens) + 1
      BY <2>1, <2>2
    <2>4. x = f[<< next, i >>]
      BY <1>1, <2>2 DEF After
    <2>5. x \in i + 1..Len(tokens) + 1 /\ Spans(g, tokens, b, i, x)
      BY <2>3, <2>4 DEF Bounded
    <2>6. q \in p + 1..x - 2
      BY <2>1, <2>2, <2>5
    <2>7. Spans(g, tokens, a, p, q) /\ tokens[q] = mark /\ Spans(g, tokens, b, q + 1, x)
      BY <1>1, <2>1, <2>2, <2>5
    <2> QED BY <2>6, <2>7, Zenon DEF Joins
  <1>2. CASE ~ (q # Rejected /\ TokenAt(tokens, q) = mark)
    <2>1. x = q
      BY <1>2 DEF After
    <2> QED BY <2>1
  <1> QED BY <1>1, <1>2

\* One position, from the positions behind it.
LEMMA SoundStep ==
    ASSUME NEW v, NEW N \in Nat, NEW g, Grammar(g, v, N),
           NEW tokens \in Seq(Tokens), Len(tokens) <= N, NEW p \in 1..Len(tokens) + 1,
           NEW f, Parses(f, tokens, v, 1),
           \A i \in p + 1..Len(tokens) + 1 : SoundAt(f, g, tokens, i)
    PROVE  SoundAt(f, g, tokens, p)
  <1>0. Len(tokens) \in Nat /\ \A i \in p + 1..Len(tokens) + 1 : i \in 1..Len(tokens) + 1
    OBVIOUS
  <1>1. ParsesAt(f, tokens, v, p) /\ BoundedAt(f, tokens, p)
    BY DEF Parses
  <1>2. \A rule \in Rules : \A i \in p + 1..Len(tokens) + 1 : Bounded(f[<< rule, i >>], tokens, i)
    BY <1>0 DEF Parses, BoundedAt
  <1>3. \A q \in p + 1..Len(tokens) + 1 : SpansAre(g, tokens, v, p, q)
    BY SpansAll
  <1>r. /\ "primary" \in Rules /\ "and_expr" \in Rules /\ "or_expr" \in Rules
        /\ "not_expr" \in Rules /\ "comparison" \in Rules
    BY DEF Rules
  <1>4. \A rule \in Rules : /\ Bounded(f[<< rule, p >>], tokens, p)
                            /\ f[<< rule, p >>] # Rejected =>
                                 SpansAre(g, tokens, v, p, f[<< rule, p >>])
    BY <1>1, <1>3 DEF BoundedAt, Bounded
  <1>5. ASSUME NEW x, x = f[<< "primary", p >>], x # Rejected
        PROVE  Spans(g, tokens, "prim", p, x)
    <2>1. SpansAre(g, tokens, v, p, x)
      BY <1>4, <1>5, <1>r
    <2>2. x = Primary(f, tokens, v, p)
      BY <1>1, <1>5 DEF ParsesAt
    <2>3. CASE TokenAt(tokens, p) = "("
      <3>1. PICK y : y = f[<< "or_expr", p + 1 >>]
        OBVIOUS
      <3>2. y # Rejected /\ TokenAt(tokens, y) = ")" /\ x = y + 1
        BY <1>5, <2>2, <2>3, <3>1 DEF Primary, InBrackets
      <3>3. p \in 1..Len(tokens) /\ tokens[p] = "(" /\ y \in 1..Len(tokens) /\ tokens[y] = ")"
        BY <2>3, <3>2, TokenIsThere
      <3>4. PICK i : i = p + 1
        OBVIOUS
      <3>5. i \in p + 1..Len(tokens) + 1
        BY <3>3, <3>4
      <3>6. Spans(g, tokens, "disj", i, y) /\ Bounded(y, tokens, i)
        BY <1>2, <1>r, <3>1, <3>2, <3>4, <3>5 DEF SoundAt
      <3>7. x > p + 2 /\ x - 1 = y
        BY <3>2, <3>3, <3>4, <3>6 DEF Bounded
      <3>8. Encloses(g, tokens, v, p, x)
        BY <3>3, <3>4, <3>6, <3>7 DEF Encloses
      <3> QED BY <2>1, <3>8 DEF SpansAre
    <2>4. CASE TokenAt(tokens, p) # "("
      <3>1. x = p + 1 /\ TokenAt(tokens, p) \in Operands(v)
        BY <1>5, <2>2, <2>4 DEF Primary, Plainly
      <3>2. TokenAt(tokens, p) # "end"
        BY <3>1 DEF Operands
      <3>3. tokens[p] \in Operands(v)
        BY <3>1, <3>2, TokenIsThere
      <3> QED BY <2>1, <3>1, <3>3 DEF SpansAre, Encloses
    <2> QED BY <2>3, <2>4
  <1>6. ASSUME NEW x, x = f[<< "comparison", p >>], x # Rejected
        PROVE  Spans(g, tokens, "comp", p, x)
    <2>1. SpansAre(g, tokens, v, p, x)
      BY <1>4, <1>6, <1>r
    <2>2. PICK q : q = f[<< "primary", p >>]
      OBVIOUS
    <2>3. x = After(f, tokens, q, "eq", "primary") /\ Bounded(q, tokens, p)
      BY <1>1, <1>4, <1>6, <1>r, <2>2 DEF ParsesAt
    <2>4. q # Rejected => Spans(g, tokens, "prim", p, q)
      BY <1>5, <2>2
    <2>5. \A i \in p + 1..Len(tokens) + 1 :
             /\ Bounded(f[<< "primary", i >>], tokens, i)
             /\ f[<< "primary", i >>] # Rejected =>
                  Spans(g, tokens, "prim", i, f[<< "primary", i >>])
      BY <1>2, <1>r DEF SoundAt
    <2>6. Spans(g, tokens, "prim", p, x) \/ Joins(g, tokens, "prim", "eq", "prim", p, x)
      BY <1>0, <1>6, <1>r, <2>3, <2>4, <2>5, AfterSound
    <2> QED BY <2>1, <2>6 DEF SpansAre
  <1>7. ASSUME NEW x, x = f[<< "not_expr", p >>], x # Rejected
        PROVE  Spans(g, tokens, "neg", p, x)
    <2>1. SpansAre(g, tokens, v, p, x) /\ Bounded(x, tokens, p)
      BY <1>4, <1>7, <1>r
    <2>2. x = Negation(f, tokens, f[<< "comparison", p >>], p)
      BY <1>1, <1>7 DEF ParsesAt
    <2>3. CASE TokenAt(tokens, p) = "not"
      <3>1. PICK i : i = p + 1
        OBVIOUS
      <3>2. x = f[<< "not_expr", i >>]
        BY <2>2, <2>3, <3>1 DEF Negation
      <3>3. p \in 1..Len(tokens) /\ tokens[p] = "not"
        BY <2>3, TokenIsThere
      <3>4. i \in p + 1..Len(tokens) + 1
        BY <3>1, <3>3
      <3>5. Spans(g, tokens, "neg", i, x) /\ Bounded(x, tokens, i)
        BY <1>2, <1>7, <1>r, <3>2, <3>4 DEF SoundAt
      <3>6. x > p + 1
        BY <1>7, <3>1, <3>3, <3>5 DEF Bounded
      <3> QED BY <2>1, <3>1, <3>3, <3>5, <3>6 DEF SpansAre, Negates
    <2>4. CASE TokenAt(tokens, p) # "not"
      BY <1>6, <1>7, <2>1, <2>2, <2>4 DEF Negation, SpansAre
    <2> QED BY <2>3, <2>4
  <1>8. ASSUME NEW x, x = f[<< "and_expr", p >>], x # Rejected
        PROVE  Spans(g, tokens, "conj", p, x)
    <2>1. SpansAre(g, tokens, v, p, x)
      BY <1>4, <1>8, <1>r
    <2>2. PICK q : q = f[<< "not_expr", p >>]
      OBVIOUS
    <2>3. x = After(f, tokens, q, "and", "and_expr") /\ Bounded(q, tokens, p)
      BY <1>1, <1>4, <1>8, <1>r, <2>2 DEF ParsesAt
    <2>4. q # Rejected => Spans(g, tokens, "neg", p, q)
      BY <1>7, <2>2
    <2>5. \A i \in p + 1..Len(tokens) + 1 :
             /\ Bounded(f[<< "and_expr", i >>], tokens, i)
             /\ f[<< "and_expr", i >>] # Rejected =>
                  Spans(g, tokens, "conj", i, f[<< "and_expr", i >>])
      BY <1>2, <1>r DEF SoundAt
    <2>6. Spans(g, tokens, "neg", p, x) \/ Joins(g, tokens, "neg", "and", "conj", p, x)
      BY <1>0, <1>8, <1>r, <2>3, <2>4, <2>5, AfterSound
    <2> QED BY <2>1, <2>6 DEF SpansAre
  <1>9. ASSUME NEW x, x = f[<< "or_expr", p >>], x # Rejected
        PROVE  Spans(g, tokens, "disj", p, x)
    <2>1. SpansAre(g, tokens, v, p, x)
      BY <1>4, <1>9, <1>r
    <2>2. PICK q : q = f[<< "and_expr", p >>]
      OBVIOUS
    <2>3. x = After(f, tokens, q, "or", "or_expr") /\ Bounded(q, tokens, p)
      BY <1>1, <1>4, <1>9, <1>r, <2>2 DEF ParsesAt
    <2>4. q # Rejected => Spans(g, tokens, "conj", p, q)
      BY <1>8, <2>2
    <2>5. \A i \in p + 1..Len(tokens) + 1 :
             /\ Bounded(f[<< "or_expr", i >>], tokens, i)
             /\ f[<< "or_expr", i >>] # Rejected =>
                  Spans(g, tokens, "disj", i, f[<< "or_expr", i >>])
      BY <1>2, <1>r DEF SoundAt
    <2>6. Spans(g, tokens, "conj", p, x) \/ Joins(g, tokens, "conj", "or", "disj", p, x)
      BY <1>0, <1>9, <1>r, <2>3, <2>4, <2>5, AfterSound
    <2> QED BY <2>1, <2>6 DEF SpansAre
  <1> QED BY <1>5, <1>6, <1>7, <1>8, <1>9 DEF SoundAt

\* Every position: what the parser takes is a phrase of the rule's category.
LEMMA Sound ==
    ASSUME NEW v, NEW N \in Nat, NEW g, Grammar(g, v, N),
           NEW tokens \in Seq(Tokens), Len(tokens) <= N,
           NEW f, Parses(f, tokens, v, 1)
    PROVE  \A p \in 1..Len(tokens) + 1 : SoundAt(f, g, tokens, p)
  <1> DEFINE wrong == { p \in 1..Len(tokens) + 1 : ~ SoundAt(f, g, tokens, p) }
  <1>1. wrong = {}
    <2> SUFFICES ASSUME wrong # {} PROVE FALSE
      OBVIOUS
    <2>1. PICK p \in wrong : \A i \in wrong : i <= p
      <3>1. wrong \in SUBSET (1..Len(tokens) + 1) /\ Len(tokens) + 1 \in Nat
        OBVIOUS
      <3> HIDE DEF wrong
      <3> QED BY <3>1, GreatestNumber
    <2>2. p \in 1..Len(tokens) + 1 /\ ~ SoundAt(f, g, tokens, p)
      OBVIOUS
    <2>3. \A i \in p + 1..Len(tokens) + 1 : i \in 1..Len(tokens) + 1 /\ i \notin wrong
      <3>1. \A i \in p + 1..Len(tokens) + 1 : i \in 1..Len(tokens) + 1 /\ ~ (i <= p)
        BY <2>2
      <3> HIDE DEF wrong
      <3> QED BY <2>1, <3>1
    <2>4. \A i \in p + 1..Len(tokens) + 1 : SoundAt(f, g, tokens, i)
      BY <2>3
    <2> HIDE DEF wrong
    <2> QED BY <2>2, <2>4, SoundStep
  <1> QED BY <1>1

\* The parser takes the whole of a phrase, where what follows does not go on
\* with it.
CompleteAt(f, g, tokens, p, q) ==
    /\ Spans(g, tokens, "prim", p, q) /\ TokenAt(tokens, q) \in { ")", "end", "or", "and", "eq" }
         => f[<< "primary", p >>] = q
    /\ Spans(g, tokens, "comp", p, q) /\ TokenAt(tokens, q) \in { ")", "end", "or", "and" }
         => f[<< "comparison", p >>] = q
    /\ Spans(g, tokens, "neg", p, q) /\ TokenAt(tokens, q) \in { ")", "end", "or", "and" }
         => f[<< "not_expr", p >>] = q
    /\ Spans(g, tokens, "conj", p, q) /\ TokenAt(tokens, q) \in { ")", "end", "or" }
         => f[<< "and_expr", p >>] = q
    /\ Spans(g, tokens, "disj", p, q) /\ TokenAt(tokens, q) \in { ")", "end" }
         => f[<< "or_expr", p >>] = q

\* A rule goes on where its connective follows.
LEMMA AfterComplete ==
    ASSUME NEW f, NEW tokens, NEW p \in Nat, NEW first, NEW next, NEW m \in p + 1..Len(tokens),
           NEW mark, tokens[m] = mark, f[<< first, p >>] = m, NEW q, f[<< next, m + 1 >>] = q
    PROVE  After(f, tokens, f[<< first, p >>], mark, next) = q
  <1>1. m # Rejected /\ TokenAt(tokens, m) = mark
    BY DEF Rejected, TokenAt
  <1> QED BY <1>1 DEF After

\* One phrase, from the shorter ones.
LEMMA CompleteStep ==
    ASSUME NEW v, NEW N \in Nat, NEW g, Grammar(g, v, N),
           NEW tokens \in Seq(Tokens), Len(tokens) <= N, NEW p \in 1..Len(tokens) + 1,
           NEW q \in p + 1..Len(tokens) + 1, NEW f, Parses(f, tokens, v, 1),
           \A i \in 1..Len(tokens) + 1 : \A j \in i + 1..Len(tokens) + 1 :
              j - i < q - p => CompleteAt(f, g, tokens, i, j)
    PROVE  CompleteAt(f, g, tokens, p, q)
  <1>0. /\ Len(tokens) \in Nat /\ p \in 1..Len(tokens) /\ TokenAt(tokens, p) = tokens[p]
        /\ q \in Nat /\ p \in Nat /\ q # Rejected
    BY DEF TokenAt, Rejected
  <1>1. ParsesAt(f, tokens, v, p)
    BY DEF Parses
  <1>2. SpansAre(g, tokens, v, p, q)
    BY SpansAll
  <1>t. \A m \in p + 1..q - 2 : TokenAt(tokens, m) = tokens[m] /\ m \in p + 1..Len(tokens)
    BY <1>0 DEF TokenAt
  <1>s. \A m \in p + 1..q - 2 :
           CompleteAt(f, g, tokens, p, m) /\ CompleteAt(f, g, tokens, m + 1, q)
    <2> SUFFICES ASSUME NEW m \in p + 1..q - 2
                 PROVE  CompleteAt(f, g, tokens, p, m) /\ CompleteAt(f, g, tokens, m + 1, q)
      OBVIOUS
    <2>1. PICK k : k = m + 1
      OBVIOUS
    <2>2. /\ m \in p + 1..Len(tokens) + 1 /\ m - p < q - p
          /\ k \in 1..Len(tokens) + 1 /\ q \in k + 1..Len(tokens) + 1 /\ q - k < q - p
      BY <1>0, <2>1
    <2>3. CompleteAt(f, g, tokens, p, m)
      BY <2>2
    <2>4. CompleteAt(f, g, tokens, k, q)
      BY <2>2
    <2> QED BY <2>1, <2>3, <2>4
  <1>3. ASSUME Spans(g, tokens, "prim", p, q),
               TokenAt(tokens, q) \in { ")", "end", "or", "and", "eq" }
        PROVE  f[<< "primary", p >>] = q
    <2>1. f[<< "primary", p >>] = Primary(f, tokens, v, p)
      BY <1>1 DEF ParsesAt
    <2>2. CASE q = p + 1 /\ tokens[p] \in Operands(v)
      <3>1. TokenAt(tokens, p) # "("
        BY <1>0, <2>2 DEF Operands
      <3>2. TokenAt(tokens, p + 1) # "("
        BY <1>3, <2>2
      <3> QED BY <1>0, <2>1, <2>2, <3>1, <3>2 DEF Primary, Plainly
    <2>3. CASE /\ q > p + 2 /\ tokens[p] = "(" /\ tokens[q - 1] = ")"
               /\ Spans(g, tokens, "disj", p + 1, q - 1)
      <3>1. PICK k, e : k = p + 1 /\ e = q - 1
        OBVIOUS
      <3>2. /\ k \in 1..Len(tokens) + 1 /\ e \in k + 1..Len(tokens) + 1 /\ e - k < q - p
            /\ e \in 1..Len(tokens) /\ e # Rejected /\ e + 1 = q
        BY <1>0, <2>3, <3>1 DEF Rejected
      <3>3. CompleteAt(f, g, tokens, k, e)
        BY <3>2
      <3>4. TokenAt(tokens, e) = ")"
        BY <2>3, <3>1, <3>2 DEF TokenAt
      <3>5. f[<< "or_expr", k >>] = e
        BY <2>3, <3>1, <3>3, <3>4 DEF CompleteAt
      <3> QED BY <1>0, <2>1, <2>3, <3>1, <3>2, <3>4, <3>5 DEF Primary, InBrackets
    <2> QED BY <1>2, <1>3, <2>2, <2>3 DEF SpansAre, Encloses
  <1>4. ASSUME Spans(g, tokens, "comp", p, q), TokenAt(tokens, q) \in { ")", "end", "or", "and" }
        PROVE  f[<< "comparison", p >>] = q
    <2>1. f[<< "comparison", p >>] = After(f, tokens, f[<< "primary", p >>], "eq", "primary")
      BY <1>1 DEF ParsesAt
    <2>2. CASE Spans(g, tokens, "prim", p, q)
      <3>1. f[<< "primary", p >>] = q /\ TokenAt(tokens, q) # "eq"
        BY <1>3, <1>4, <2>2
      <3> QED BY <2>1, <3>1 DEF After
    <2>3. CASE Joins(g, tokens, "prim", "eq", "prim", p, q)
      <3>1. PICK m \in p + 1..q - 2 : /\ Spans(g, tokens, "prim", p, m) /\ tokens[m] = "eq"
                                      /\ Spans(g, tokens, "prim", m + 1, q)
        BY <2>3, Zenon DEF Joins
      <3>2. TokenAt(tokens, m) = "eq" /\ m \in p + 1..Len(tokens)
        BY <1>t, <3>1
      <3>3. f[<< "primary", p >>] = m
        BY <1>s, <3>1, <3>2 DEF CompleteAt
      <3>4. f[<< "primary", m + 1 >>] = q
        BY <1>s, <1>4, <3>1 DEF CompleteAt
      <3> QED BY <1>0, <2>1, <3>1, <3>2, <3>3, <3>4, AfterComplete
    <2> QED BY <1>2, <1>4, <2>2, <2>3 DEF SpansAre
  <1>5. Spans(g, tokens, "comp", p, q) => TokenAt(tokens, p) # "not"
    <2>1. ASSUME NEW m \in p + 1..Len(tokens) + 1, Spans(g, tokens, "prim", p, m)
          PROVE  TokenAt(tokens, p) # "not"
      <3>1. SpansAre(g, tokens, v, p, m)
        BY SpansAll
      <3>2. Encloses(g, tokens, v, p, m)
        BY <2>1, <3>1 DEF SpansAre
      <3> QED BY <1>0, <3>2 DEF Encloses, Operands
    <2>2. ASSUME Joins(g, tokens, "prim", "eq", "prim", p, q) PROVE TokenAt(tokens, p) # "not"
      <3>1. PICK m \in p + 1..q - 2 : Spans(g, tokens, "prim", p, m)
        BY <2>2, Zenon DEF Joins
      <3>2. m \in p + 1..Len(tokens) + 1
        BY <1>0
      <3> QED BY <2>1, <3>1, <3>2
    <2> QED BY <1>2, <2>1, <2>2 DEF SpansAre
  <1>6. ASSUME Spans(g, tokens, "neg", p, q), TokenAt(tokens, q) \in { ")", "end", "or", "and" }
        PROVE  f[<< "not_expr", p >>] = q
    <2>1. f[<< "not_expr", p >>] = Negation(f, tokens, f[<< "comparison", p >>], p)
      BY <1>1 DEF ParsesAt
    <2>2. CASE Spans(g, tokens, "comp", p, q)
      BY <1>4, <1>5, <1>6, <2>1, <2>2 DEF Negation
    <2>3. CASE Negates(g, tokens, p, q)
      <3>1. PICK k : k = p + 1
        OBVIOUS
      <3>2. k \in 1..Len(tokens) + 1 /\ q \in k + 1..Len(tokens) + 1 /\ q - k < q - p
        BY <1>0, <2>3, <3>1 DEF Negates
      <3>3. CompleteAt(f, g, tokens, k, q)
        BY <3>2
      <3>4. f[<< "not_expr", k >>] = q
        BY <1>6, <2>3, <3>1, <3>3 DEF CompleteAt, Negates
      <3> QED BY <1>0, <2>1, <2>3, <3>1, <3>4 DEF Negates, Negation
    <2> QED BY <1>2, <1>6, <2>2, <2>3 DEF SpansAre
  <1>7. ASSUME Spans(g, tokens, "conj", p, q), TokenAt(tokens, q) \in { ")", "end", "or" }
        PROVE  f[<< "and_expr", p >>] = q
    <2>1. f[<< "and_expr", p >>] = After(f, tokens, f[<< "not_expr", p >>], "and", "and_expr")
      BY <1>1 DEF ParsesAt
    <2>2. CASE Spans(g, tokens, "neg", p, q)
      <3>1. f[<< "not_expr", p >>] = q /\ TokenAt(tokens, q) # "and"
        BY <1>6, <1>7, <2>2
      <3> QED BY <2>1, <3>1 DEF After
    <2>3. CASE Joins(g, tokens, "neg", "and", "conj", p, q)
      <3>1. PICK m \in p + 1..q - 2 : /\ Spans(g, tokens, "neg", p, m) /\ tokens[m] = "and"
                                      /\ Spans(g, tokens, "conj", m + 1, q)
        BY <2>3, Zenon DEF Joins
      <3>2. TokenAt(tokens, m) = "and" /\ m \in p + 1..Len(tokens)
        BY <1>t, <3>1
      <3>3. f[<< "not_expr", p >>] = m
        BY <1>s, <3>1, <3>2 DEF CompleteAt
      <3>4. f[<< "and_expr", m + 1 >>] = q
        BY <1>s, <1>7, <3>1 DEF CompleteAt
      <3> QED BY <1>0, <2>1, <3>1, <3>2, <3>3, <3>4, AfterComplete
    <2> QED BY <1>2, <1>7, <2>2, <2>3 DEF SpansAre
  <1>8. ASSUME Spans(g, tokens, "disj", p, q), TokenAt(tokens, q) \in { ")", "end" }
        PROVE  f[<< "or_expr", p >>] = q
    <2>1. f[<< "or_expr", p >>] = After(f, tokens, f[<< "and_expr", p >>], "or", "or_expr")
      BY <1>1 DEF ParsesAt
    <2>2. CASE Spans(g, tokens, "conj", p, q)
      <3>1. f[<< "and_expr", p >>] = q /\ TokenAt(tokens, q) # "or"
        BY <1>7, <1>8, <2>2
      <3> QED BY <2>1, <3>1 DEF After
    <2>3. CASE Joins(g, tokens, "conj", "or", "disj", p, q)
      <3>1. PICK m \in p + 1..q - 2 : /\ Spans(g, tokens, "conj", p, m) /\ tokens[m] = "or"
                                      /\ Spans(g, tokens, "disj", m + 1, q)
        BY <2>3, Zenon DEF Joins
      <3>2. TokenAt(tokens, m) = "or" /\ m \in p + 1..Len(tokens)
        BY <1>t, <3>1
      <3>3. f[<< "and_expr", p >>] = m
        BY <1>s, <3>1, <3>2 DEF CompleteAt
      <3>4. f[<< "or_expr", m + 1 >>] = q
        BY <1>s, <1>8, <3>1 DEF CompleteAt
      <3> QED BY <1>0, <2>1, <3>1, <3>2, <3>3, <3>4, AfterComplete
    <2> QED BY <1>2, <1>8, <2>2, <2>3 DEF SpansAre
  <1> QED BY <1>3, <1>4, <1>6, <1>7, <1>8 DEF CompleteAt

\* Every phrase, from every position.
LEMMA Complete ==
    ASSUME NEW v, NEW N \in Nat, NEW g, Grammar(g, v, N),
           NEW tokens \in Seq(Tokens), Len(tokens) <= N,
           NEW f, Parses(f, tokens, v, 1)
    PROVE  \A p \in 1..Len(tokens) + 1 : \A q \in p + 1..Len(tokens) + 1 :
              CompleteAt(f, g, tokens, p, q)
  <1> DEFINE Whole(n) == \A i \in 1..Len(tokens) + 1 : \A j \in i + 1..Len(tokens) + 1 :
                            j - i < n => CompleteAt(f, g, tokens, i, j)
             wrong == { n \in Nat : ~ Whole(n) }
  <1>0. Len(tokens) \in Nat
    OBVIOUS
  <1>1. wrong = {}
    <2> SUFFICES ASSUME wrong # {} PROVE FALSE
      OBVIOUS
    <2>1. PICK n \in wrong : \A k \in wrong : n <= k
      <3>1. wrong \in SUBSET Nat
        OBVIOUS
      <3> HIDE DEF wrong
      <3> QED BY <3>1, LeastNumber
    <2>2. n \in Nat /\ ~ Whole(n)
      OBVIOUS
    <2>a. PICK p \in 1..Len(tokens) + 1 :
             ~ \A j \in p + 1..Len(tokens) + 1 : j - p < n => CompleteAt(f, g, tokens, p, j)
      BY <2>2
    <2>3. PICK q \in p + 1..Len(tokens) + 1 : q - p < n /\ ~ CompleteAt(f, g, tokens, p, q)
      BY <2>a
    <2>4. PICK k : k = q - p
      OBVIOUS
    <2>5. k \in Nat /\ ~ (n <= k)
      BY <1>0, <2>2, <2>3, <2>4
    <2>6. k \notin wrong
      <3> HIDE DEF wrong
      <3> QED BY <2>1, <2>5
    <2>7. Whole(k)
      <3> HIDE DEF Whole
      <3> QED BY <2>5, <2>6
    <2>8. CompleteAt(f, g, tokens, p, q)
      BY <2>4, <2>7, CompleteStep
    <2> QED BY <2>3, <2>8
  <1>2. ASSUME NEW p \in 1..Len(tokens) + 1, NEW q \in p + 1..Len(tokens) + 1
        PROVE  CompleteAt(f, g, tokens, p, q)
    <2>1. PICK n : n = q - p + 1
      OBVIOUS
    <2>2. n \in Nat /\ q - p < n
      BY <1>0, <2>1
    <2>3. Whole(n)
      <3> HIDE DEF Whole
      <3> QED BY <1>1, <2>2
    <2> QED BY <2>2, <2>3
  <1> QED BY <1>2

\* The parser accepts the filters of the language and no others: whatever their
\* length, brackets and connectives, for both protocol versions.
THEOREM ParserExact ==
    ASSUME NEW v, NEW N \in Nat, NEW tokens \in Seq(Tokens), Len(tokens) <= N
    PROVE  Accepts(tokens, v) <=> tokens \in Language(v, N)
  <1>0. Len(tokens) \in Nat
    OBVIOUS
  <1>1. PICK g, f : g = Phrases(v, N) /\ f = Parser(tokens, v)
    OBVIOUS
  <1>2. Grammar(g, v, N)
    BY <1>1, GrammarIs DEF Grammar
  <1>3. Parses(f, tokens, v, 1)
    BY <1>0, <1>1, ParserParses, ParserBounded DEF Parses
  <1>4. Piece(tokens, 1, Len(tokens) + 1) = tokens
    <2>1. SubSeq(tokens, 1, Len(tokens)) = tokens
      BY SubSeqFull
    <2>2. Len(tokens) + 1 - 1 = Len(tokens)
      BY <1>0
    <2> QED BY <2>1, <2>2 DEF Piece
  <1>5. Spans(g, tokens, "disj", 1, Len(tokens) + 1) <=> tokens \in g[Len(tokens)].disj
    <2>1. Len(tokens) + 1 - 1 = Len(tokens)
      BY <1>0
    <2> QED BY <1>4, <2>1 DEF Spans
  <1>6. tokens \in Language(v, N) <=> \E n \in 1..N : tokens \in g[n].disj
    BY <1>1, Zenon DEF Language
  <1>7. ASSUME Accepts(tokens, v) PROVE tokens \in Language(v, N)
    <2>1. tokens # << >> /\ f[<< "or_expr", 1 >>] = Len(tokens) + 1
      BY <1>1, <1>7 DEF Accepts
    <2>2. Len(tokens) \in 1..N /\ 1 \in 1..Len(tokens) + 1 /\ Len(tokens) + 1 # Rejected
      BY <1>0, <2>1, EmptySeq DEF Rejected
    <2>3. SoundAt(f, g, tokens, 1)
      BY <1>2, <1>3, <2>2, Sound
    <2>4. Spans(g, tokens, "disj", 1, Len(tokens) + 1)
      BY <2>1, <2>2, <2>3 DEF SoundAt
    <2> QED BY <1>5, <1>6, <2>2, <2>4
  <1>8. ASSUME tokens \in Language(v, N) PROVE Accepts(tokens, v)
    <2>1. PICK n \in 1..N : tokens \in g[n].disj
      BY <1>6, <1>8
    <2>2. n = Len(tokens)
      <3>1. Sized(g, n) /\ "disj" \in Categories
        BY <1>2, AllSized DEF Categories
      <3> QED BY <2>1, <3>1 DEF Sized
    <2>3. /\ 1 \in 1..Len(tokens) + 1 /\ Len(tokens) + 1 \in 1 + 1..Len(tokens) + 1
          /\ tokens # << >>
      BY <2>2
    <2>4. CompleteAt(f, g, tokens, 1, Len(tokens) + 1)
      BY <1>2, <1>3, <2>3, Complete
    <2>5. TokenAt(tokens, Len(tokens) + 1) = "end"
      BY <1>0 DEF TokenAt
    <2>6. f[<< "or_expr", 1 >>] = Len(tokens) + 1
      BY <1>5, <2>1, <2>2, <2>4, <2>5 DEF CompleteAt
    <2> QED BY <1>1, <2>3, <2>6 DEF Accepts
  <1> QED BY <1>7, <1>8

-----------------------------------------------------------------------------
(* Recursion over numbers.                                                 *)

\* What holds at 0, and one further on wherever it holds.
LEMMA Climbs ==
    ASSUME NEW N \in Nat, NEW good, 0 \in good,
           \A n \in 1..N : n - 1 \in good => n \in good
    PROVE  \A n \in 0..N : n \in good
  <1> DEFINE bad == { n \in 0..N : n \notin good }
  <1>1. bad = {}
    <2> SUFFICES ASSUME bad # {} PROVE FALSE
      OBVIOUS
    <2>1. PICK k \in bad : \A n \in bad : k <= n
      <3>1. bad \in SUBSET Nat
        OBVIOUS
      <3> HIDE DEF bad
      <3> QED BY <3>1, LeastNumber
    <2>2. k \in 0..N /\ k \notin good
      BY <2>1
    <2>3. k \in 1..N /\ k - 1 \in 0..N /\ ~ (k <= k - 1)
      BY <2>2
    <2>4. k - 1 \notin bad
      <3> HIDE DEF bad
      <3> QED BY <2>1, <2>3
    <2> QED BY <2>2, <2>3, <2>4
  <1> QED BY <1>1

\* Two functions that agree at 0 and, where they agree, one further on.
GoTogether(f, g, N) ==
    /\ f[0] = g[0]
    /\ \A n \in 1..N : f[n - 1] = g[n - 1] => f[n] = g[n]

AgreeUpTo(f, g, N) == \A n \in 0..N : f[n] = g[n]

\* Such functions agree throughout.
LEMMA StayTogether ==
    ASSUME NEW N \in Nat, NEW f, NEW g, GoTogether(f, g, N)
    PROVE  AgreeUpTo(f, g, N)
  <1>1. PICK good : good = { n \in 0..N : f[n] = g[n] }
    OBVIOUS
  <1>2. \A n \in 1..N : n - 1 \in good => n \in good
    BY <1>1 DEF GoTogether
  <1>3. 0 \in good
    BY <1>1 DEF GoTogether
  <1>4. \A n \in 0..N : n \in good
    BY <1>2, <1>3, Climbs
  <1> QED BY <1>1, <1>4 DEF AgreeUpTo

\* From a value b for 0, with the step G, up to N.
Recurs(f, N, T, b, G) ==
    /\ f \in [ 0..N -> T ]
    /\ f[0] = b
    /\ \A n \in 1..N : f[n] = G[<< n, f[n - 1] >>]

\* A value for 0 and a step define a function.
LEMMA RecursionExists ==
    ASSUME NEW N \in Nat, NEW T, NEW b \in T, NEW G \in [ (1..N) \X T -> T ]
    PROVE  \E f : Recurs(f, N, T, b, G)
  <1> DEFINE Builds(f, k) == /\ f \in [ 0..k -> T ] /\ f[0] = b
                             /\ \A n \in 1..k : f[n] = G[<< n, f[n - 1] >>]
  <1>1. PICK good : good = { k \in 0..N : \E f : Builds(f, k) }
    OBVIOUS
  <1>3. 0 \in good
    <2>1. Builds([ n \in 0..0 |-> b ], 0)
      OBVIOUS
    <2>2. \E f : Builds(f, 0)
      BY <2>1
    <2> HIDE DEF Builds
    <2> QED BY <1>1, <2>2
  <1>4. ASSUME NEW k \in 1..N, k - 1 \in good
        PROVE  k \in good
    <2>1. PICK m : m = k - 1
      OBVIOUS
    <2>2. m \in 0..N /\ k = m + 1
      BY <2>1
    <2>3. PICK f : Builds(f, m)
      BY <1>1, <1>4, <2>1
    <2>4. PICK x \in T : x = G[<< k, f[m] >>]
      <3>1. f[m] \in T
        BY <2>2, <2>3
      <3> QED BY <3>1
    <2>5. PICK g : g = [ n \in 0..k |-> IF n = k THEN x ELSE f[n] ]
      OBVIOUS
    <2>6. g[k] = x /\ \A n \in 0..m : g[n] = f[n]
      BY <2>2, <2>5
    <2>7. g \in [ 0..k -> T ]
      BY <2>2, <2>3, <2>4, <2>5
    <2>8. ASSUME NEW n \in 1..k PROVE g[n] = G[<< n, g[n - 1] >>]
      <3>1. n - 1 \in 0..m /\ g[n - 1] = f[n - 1]
        BY <2>2, <2>6
      <3>2. CASE n = k
        BY <2>1, <2>4, <2>6, <3>1, <3>2
      <3>3. CASE n # k
        <4>1. n \in 1..m /\ n \in 0..m
          BY <2>2, <3>3
        <4> QED BY <2>3, <2>6, <3>1, <4>1
      <3> QED BY <3>2, <3>3
    <2>9. g[0] = b
      BY <2>2, <2>3, <2>6
    <2>10. Builds(g, k)
      BY <2>7, <2>8, <2>9
    <2> QED BY <1>1, <2>10
  <1>5. \A k \in 0..N : k \in good
    BY <1>3, <1>4, Climbs
  <1>2. \E f : Builds(f, N)
    <2>1. N \in 0..N
      OBVIOUS
    <2> HIDE DEF Builds
    <2> QED BY <1>1, <1>5, <2>1
  <1> QED BY <1>2 DEF Recurs

-----------------------------------------------------------------------------
(* The arguments.                                                          *)

\* The items that are not blank, in their order, are the words.
Keeps(kept, raw, n, S) ==
    /\ kept \in Seq(S) /\ Len(kept) <= n
    /\ \A k \in 1..Len(kept) : \E i \in 1..n : kept[k] = raw[i] /\ raw[i] # Blank
    /\ \A i \in 1..n : raw[i] # Blank => \E k \in 1..Len(kept) : kept[k] = raw[i]

\* SplitCsv keeps the items that are not blank, up to the last.
LEMMA SplitKeeps ==
    ASSUME NEW S, NEW raw \in Seq(S)
    PROVE  Keeps(SplitCsv(raw), raw, Len(raw), S)
  <1>1. PICK N, T : N = Len(raw) /\ T = Seq(S)
    OBVIOUS
  <1>0. N \in Nat
    BY <1>1
  <1> DEFINE Adds(n, x) == IF raw[n] = Blank THEN x ELSE Append(x, raw[n])
  <1>2. PICK G : G = [ p \in (1..N) \X T |-> Adds(p[1], p[2]) ]
    OBVIOUS
  <1>3. \A n \in 1..N : \A x \in T : G[<< n, x >>] = Adds(n, x) /\ G[<< n, x >>] \in T
    <2> SUFFICES ASSUME NEW n \in 1..N, NEW x \in T
                 PROVE  G[<< n, x >>] = Adds(n, x) /\ G[<< n, x >>] \in T
      OBVIOUS
    <2>1. G[<< n, x >>] = Adds(n, x)
      <3> HIDE DEF Adds
      <3> QED BY <1>2
    <2>2. PICK y \in S : y = raw[n]
      BY <1>1
    <2>3. Append(x, y) \in Seq(S)
      BY <1>1
    <2> QED BY <1>1, <2>1, <2>2, <2>3
  <1> HIDE DEF Adds
  <1>4. G \in [ (1..N) \X T -> T ]
    <2>1. \A p \in (1..N) \X T : G[p] \in T
      BY <1>3
    <2>2. G = [ p \in (1..N) \X T |-> G[p] ]
      BY <1>2
    <2> QED BY <2>1, <2>2
  <1>5. << >> \in T
    BY <1>1
  <1>r. PICK f : Recurs(f, N, T, << >>, G)
    BY <1>0, <1>4, <1>5, RecursionExists
  <1> DEFINE Builds(g) == g = [ n \in 0..N |-> IF n = 0 THEN << >> ELSE Adds(n, g[n - 1]) ]
             F == CHOOSE g : Builds(g)
  <1>s. SplitCsv(raw) = F[N]
    BY <1>1 DEF SplitCsv, Adds
  <1>8. Builds(f)
    <2>1. /\ f \in [ 0..N -> T ] /\ f[0] = << >>
          /\ \A n \in 1..N : f[n] = G[<< n, f[n - 1] >>]
      BY <1>r DEF Recurs
    <2>2. \A n \in 1..N : n - 1 \in 0..N
      BY <1>0
    <2>3. f = [ n \in 0..N |-> f[n] ]
      BY <2>1
    <2>4. \A n \in 1..N : f[n] = Adds(n, f[n - 1])
      BY <1>3, <2>1, <2>2
    <2>5. \A n \in 0..N : f[n] = IF n = 0 THEN << >> ELSE Adds(n, f[n - 1])
      BY <1>0, <2>1, <2>4
    <2> QED BY <2>3, <2>5
  <1>9. Builds(F)
    <2> HIDE DEF Builds
    <2> QED BY <1>8
  <1> HIDE DEF F
  <1>10. \A n \in 0..N : F[n] = IF n = 0 THEN << >> ELSE Adds(n, F[n - 1])
    BY <1>9
  <1> HIDE DEF Builds
  <1>11. PICK good : good = { n \in 0..N : Keeps(F[n], raw, n, S) }
    OBVIOUS
  <1>12. 0 \in good
    <2>1. F[0] = << >>
      BY <1>0, <1>10
    <2>2. Keeps(F[0], raw, 0, S)
      BY <2>1 DEF Keeps
    <2> QED BY <1>0, <1>11, <2>2
  <1>13. ASSUME NEW n \in 1..N, n - 1 \in good
         PROVE  n \in good
    <2>4. PICK m : m = n - 1
      OBVIOUS
    <2>5. m \in 0..N /\ n = m + 1 /\ n \in 0..N /\ n \in 1..Len(raw) /\ n # 0 /\ m \in Nat
      BY <1>0, <1>1, <2>4
    <2>6. Keeps(F[m], raw, m, S)
      BY <1>11, <1>13, <2>4
    <2>7. F[n] = Adds(n, F[m])
      BY <1>10, <2>4, <2>5
    <2>8. PICK x, y : x = F[m] /\ y = F[n]
      OBVIOUS
    <2>9. /\ x \in Seq(S) /\ Len(x) <= m /\ Len(x) \in Nat
          /\ \A k \in 1..Len(x) : \E i \in 1..m : x[k] = raw[i] /\ raw[i] # Blank
          /\ \A i \in 1..m : raw[i] # Blank => \E k \in 1..Len(x) : x[k] = raw[i]
      BY <2>6, <2>8 DEF Keeps
    <2>10. raw[n] \in S
      BY <2>5
    <2>11. \A i \in 1..m : i \in 1..n
      BY <2>5
    <2>12. \A i \in 1..n : i \in 1..m \/ i = n
      BY <2>5
    <2>13. CASE raw[n] = Blank
      <3>1. y = x
        BY <2>7, <2>8, <2>13 DEF Adds
      <3>2. Len(x) <= n
        BY <2>5, <2>9
      <3>3. Keeps(x, raw, n, S)
        BY <2>9, <2>11, <2>12, <2>13, <3>2 DEF Keeps
      <3> QED BY <1>11, <2>5, <2>8, <3>1, <3>3
    <2>14. CASE raw[n] # Blank
      <3>1. y = Append(x, raw[n])
        BY <2>7, <2>8, <2>14 DEF Adds
      <3>2. /\ y \in Seq(S) /\ Len(y) = Len(x) + 1 /\ y[Len(x) + 1] = raw[n]
            /\ \A k \in 1..Len(x) : y[k] = x[k]
        BY <2>9, <2>10, <3>1
      <3>3. Len(y) <= n /\ Len(x) + 1 \in 1..Len(y) /\ \A k \in 1..Len(x) : k \in 1..Len(y)
        BY <2>5, <2>9, <3>2
      <3>4. ASSUME NEW k \in 1..Len(y)
            PROVE  \E i \in 1..n : y[k] = raw[i] /\ raw[i] # Blank
        <4>1. CASE k = Len(x) + 1
          BY <2>5, <2>14, <3>2, <4>1
        <4>2. CASE k # Len(x) + 1
          <5>1. k \in 1..Len(x)
            BY <2>9, <3>2, <4>2
          <5> QED BY <2>9, <2>11, <3>2, <5>1, SMTT(40)
        <4> QED BY <4>1, <4>2
      <3>5. ASSUME NEW i \in 1..n, raw[i] # Blank
            PROVE  \E k \in 1..Len(y) : y[k] = raw[i]
        <4>1. CASE i = n
          BY <3>2, <3>3, <4>1
        <4>2. CASE i # n
          <5>1. PICK k \in 1..Len(x) : x[k] = raw[i]
            BY <2>9, <2>12, <3>5, <4>2
          <5> QED BY <3>2, <3>3, <5>1
        <4> QED BY <4>1, <4>2
      <3>6. Keeps(y, raw, n, S)
        BY <3>2, <3>3, <3>4, <3>5 DEF Keeps
      <3> QED BY <1>11, <2>5, <2>8, <3>6
    <2> QED BY <2>13, <2>14
  <1>14. \A n \in 0..N : n \in good
    BY <1>0, <1>12, <1>13, Climbs
  <1>15. Keeps(F[N], raw, N, S)
    BY <1>0, <1>11, <1>14
  <1> QED BY <1>1, <1>s, <1>15

\* What SplitCsv keeps are the words, and it keeps nothing where there is none.
LEMMA SplitIsWords ==
    ASSUME NEW S, NEW raw \in Seq(S), NEW s, s = SplitCsv(raw)
    PROVE  /\ s \in Seq(S) /\ \A k \in 1..Len(s) : s[k] \in Words(raw)
           /\ \A w \in Words(raw) : \E k \in 1..Len(s) : s[k] = w
           /\ s = << >> <=> Words(raw) = {}
  <1>1. Keeps(s, raw, Len(raw), S)
    BY SplitKeeps
  <1>2. s \in Seq(S) /\ \A k \in 1..Len(s) : s[k] \in Words(raw)
    BY <1>1 DEF Keeps, Words
  <1>3. \A w \in Words(raw) : \E k \in 1..Len(s) : s[k] = w
    BY <1>1 DEF Keeps, Words
  <1>4. ASSUME s = << >> PROVE Words(raw) = {}
    BY <1>3, <1>4
  <1>5. ASSUME s # << >> PROVE Words(raw) # {}
    <2>1. 1 \in 1..Len(s)
      BY <1>2, <1>5, EmptySeq
    <2> QED BY <1>2, <2>1
  <1> QED BY <1>2, <1>3, <1>4, <1>5

-----------------------------------------------------------------------------
(* What build_url lets through, option by option.                          *)

ValidOption(params, v, option) ==
    CASE option = "top"    -> params.top \in 1..MaxTop
      [] option = "format" -> params.format = "json"
      [] option = "count"  -> v = "v4"
      [] option = "select" -> SelectValid(params.select)
      [] option = "order"  -> OrderValid(params.order)
      [] option = "apply"  -> ApplyValid(params.apply)
      [] option = "filter" -> Accepts(params.filter, v)

\* What is valid, per option.
LEMMA OptionsAre ==
    ASSUME NEW params, NEW v
    PROVE  /\ ValidOption(params, v, "top") = (params["top"] \in 1..MaxTop)
           /\ ValidOption(params, v, "format") = (params["format"] = "json")
           /\ ValidOption(params, v, "count") = (v = "v4")
           /\ ValidOption(params, v, "select") = SelectValid(params["select"])
           /\ ValidOption(params, v, "order") = OrderValid(params["order"])
           /\ ValidOption(params, v, "apply") = ApplyValid(params["apply"])
           /\ ValidOption(params, v, "filter") = Accepts(params["filter"], v)
  BY DEF ValidOption

\* A query, option by option.
Fit(q, v) ==
    /\ q.entity \in Plain \cup Accented
    /\ q["filter"] # None => Accepts(q["filter"], v)
    /\ CountSegment(q, v) =>
         q["select"] = None /\ q["order"] = None /\ q["top"] = None /\ q["apply"] = None
    /\ ~CountSegment(q, v) =>
         /\ q["top"] # None => q["top"] \in 1..MaxTop
         /\ q["count"] # None => v = "v4"
         /\ q["select"] # None => SelectValid(q["select"])
         /\ q["order"] # None => OrderValid(q["order"])
         /\ q["apply"] # None => ApplyValid(q["apply"])

\* The parameters are the options given.
TakenFrom(p, q, v) ==
    /\ CountSegment(q, v) =>
         /\ DOMAIN p = { option \in Options : q[option] # None } \ { "count" }
         /\ \A option \in DOMAIN p : p[option] = q[option]
    /\ ~CountSegment(q, v) =>
         /\ DOMAIN p = { option \in Options : q[option] # None } \cup { "format" }
         /\ \A option \in DOMAIN p : p[option] = IF option = "format" THEN "json" ELSE q[option]

\* Params sends the options given, with the format added.
LEMMA ParamsAre ==
    ASSUME NEW v, NEW q
    PROVE  TakenFrom(Params(q, v), q, v)
  <1>1. PICK p : p = Params(q, v)
    OBVIOUS
  <1>2. TakenFrom(p, q, v)
    BY <1>1 DEF Params, TakenFrom
  <1> QED BY <1>1, <1>2

\* build_url returns a URL where every option fits, and raises elsewhere.
LEMMA UrlFits ==
    ASSUME NEW v, NEW q
    PROVE  UrlBuilt(q, v) <=> Fit(q, v)
  <1>1. PICK p : p = Params(q, v)
    OBVIOUS
  <1>2. UrlBuilt(q, v) <=> /\ q.entity \in Plain \cup Accented
                           /\ CountSegment(q, v) => DOMAIN p \subseteq { "filter" }
                           /\ \A option \in DOMAIN p : ValidOption(p, v, option)
    BY <1>1, Zenon DEF UrlBuilt, ValidateRequest, ValidOption
  <1>p. TakenFrom(p, q, v)
    BY <1>1, ParamsAre
  <1>3. CASE CountSegment(q, v)
    <2>1. /\ DOMAIN p = { option \in Options : q[option] # None } \ { "count" }
          /\ \A option \in DOMAIN p : p[option] = q[option]
      BY <1>p, <1>3 DEF TakenFrom
    <2>2. DOMAIN p \subseteq { "filter" } <=>
             q["select"] = None /\ q["order"] = None /\ q["top"] = None /\ q["apply"] = None
      BY <2>1 DEF Options
    <2>3. ASSUME DOMAIN p \subseteq { "filter" }
          PROVE  (\A option \in DOMAIN p : ValidOption(p, v, option))
                   <=> (q["filter"] # None => Accepts(q["filter"], v))
      <3>1. "filter" \in DOMAIN p <=> q["filter"] # None
        BY <2>1 DEF Options
      <3>2. (\A option \in DOMAIN p : ValidOption(p, v, option))
              <=> ("filter" \in DOMAIN p => ValidOption(p, v, "filter"))
        BY <2>3
      <3>3. "filter" \in DOMAIN p => p["filter"] = q["filter"]
        BY <2>1
      <3> QED BY <3>1, <3>2, <3>3, OptionsAre
    <2> QED BY <1>2, <1>3, <2>2, <2>3 DEF Fit
  <1>4. CASE ~CountSegment(q, v)
    <2>1. /\ DOMAIN p = { option \in Options : q[option] # None } \cup { "format" }
          /\ \A option \in DOMAIN p :
                p[option] = IF option = "format" THEN "json" ELSE q[option]
      BY <1>p, <1>4 DEF TakenFrom
    <2>2. \A option \in Options : option \in DOMAIN p <=> q[option] # None
      BY <2>1 DEF Options
    <2>3. \A option \in Options : option \in DOMAIN p => p[option] = q[option]
      BY <2>1 DEF Options
    <2>4. "format" \in DOMAIN p /\ p["format"] = "json"
      BY <2>1
    <2>5. /\ "select" \in Options /\ "filter" \in Options /\ "order" \in Options
          /\ "top" \in Options /\ "count" \in Options /\ "apply" \in Options
          /\ DOMAIN p \subseteq { "select", "filter", "order", "top", "count", "apply", "format" }
      BY <2>1 DEF Options
    <2>6. (\A option \in DOMAIN p : ValidOption(p, v, option))
            <=> /\ "select" \in DOMAIN p => ValidOption(p, v, "select")
                /\ "filter" \in DOMAIN p => ValidOption(p, v, "filter")
                /\ "order" \in DOMAIN p => ValidOption(p, v, "order")
                /\ "top" \in DOMAIN p => ValidOption(p, v, "top")
                /\ "count" \in DOMAIN p => ValidOption(p, v, "count")
                /\ "apply" \in DOMAIN p => ValidOption(p, v, "apply")
                /\ "format" \in DOMAIN p => ValidOption(p, v, "format")
      BY <2>5
    <2>7. ValidOption(p, v, "format")
      BY <2>4, OptionsAre
    <2>8. /\ q["select"] # None => ValidOption(p, v, "select") = SelectValid(q["select"])
          /\ q["filter"] # None => ValidOption(p, v, "filter") = Accepts(q["filter"], v)
          /\ q["order"] # None => ValidOption(p, v, "order") = OrderValid(q["order"])
          /\ q["apply"] # None => ValidOption(p, v, "apply") = ApplyValid(q["apply"])
          /\ q["top"] # None => ValidOption(p, v, "top") = (q["top"] \in 1..MaxTop)
          /\ q["count"] # None => ValidOption(p, v, "count") = (v = "v4")
      BY <2>2, <2>3, <2>5, OptionsAre
    <2>9. /\ ("select" \in DOMAIN p) = (q["select"] # None)
          /\ ("filter" \in DOMAIN p) = (q["filter"] # None)
          /\ ("order" \in DOMAIN p) = (q["order"] # None)
          /\ ("apply" \in DOMAIN p) = (q["apply"] # None)
          /\ ("top" \in DOMAIN p) = (q["top"] # None)
          /\ ("count" \in DOMAIN p) = (q["count"] # None)
      BY <2>2, <2>5
    <2> QED BY <1>2, <1>4, <2>6, <2>7, <2>8, <2>9 DEF Fit
  <1> QED BY <1>3, <1>4

-----------------------------------------------------------------------------
(* The verdict on each argument, as the code gives it and as it ought to be. *)

\* The filter: accepted where it is a sentence, by ParserExact.
LEMMA FilterVerdict ==
    ASSUME NEW a \in Asks, Has(a, "filter"), NEW v \in Versions
    PROVE  (a.filter # None => Accepts(a.filter, v)) <=> a.filter = None \/ a.filter \in Sentences[v]
  <1>1. \/ a.filter = None
        \/ a.filter \in Seq(Tokens) /\ Len(a.filter) <= MaxTokens
    BY AsksAreCalls DEF IsCall
  <1>2. Sentences[v] = Language(v, MaxTokens)
    BY DEF Sentences, Versions
  <1>3. MaxTokens \in Nat
    BY ToolConstants
  <1>4. CASE a.filter \in Seq(Tokens) /\ Len(a.filter) <= MaxTokens
    <2>1. Accepts(a.filter, v) <=> a.filter \in Language(v, MaxTokens)
      BY <1>3, <1>4, ParserExact
    <2>2. ~ Accepts(<< >>, v)
      BY DEF Accepts
    <2>3. CASE a.filter # None
      BY <1>2, <2>1, <2>3
    <2> QED BY <2>3
  <1> QED BY <1>1, <1>4

\* The fields: accepted where every word is a plain name.
LEMMA SelectVerdict ==
    ASSUME NEW a \in Asks, Has(a, "select")
    PROVE  (Given(SplitCsv(a.select)) # None => SelectValid(Given(SplitCsv(a.select))))
             <=> Words(a.select) \subseteq Plain
  <1>1. PICK s : s = SplitCsv(a.select)
    OBVIOUS
  <1>2. a.select \in Seq(Names \cup { Blank })
    BY AsksAreCalls DEF IsCall
  <1>3. /\ s \in Seq(Names \cup { Blank }) /\ \A k \in 1..Len(s) : s[k] \in Words(a.select)
        /\ \A w \in Words(a.select) : \E k \in 1..Len(s) : s[k] = w
        /\ s = << >> <=> Words(a.select) = {}
    BY <1>1, <1>2, SplitIsWords
  <1>4. s # None
    BY <1>1, NoneStandsApart
  <1>5. SelectValid(s) <=> s # << >> /\ Words(a.select) \subseteq Plain
    BY <1>3 DEF SelectValid
  <1>6. CASE s = << >>
    BY <1>1, <1>3, <1>6 DEF Given
  <1>7. CASE s # << >>
    BY <1>1, <1>4, <1>5, <1>7 DEF Given
  <1> QED BY <1>6, <1>7

\* The order: accepted where every item is a name and a direction.
LEMMA OrderVerdict ==
    ASSUME NEW a \in Asks, Has(a, "order")
    PROVE  /\ ~BadDirection(a.order)
           /\ Given(OrderPairs(a.order)) # None => OrderValid(Given(OrderPairs(a.order)))
           <=> \A item \in Words(a.order) : LegalOrder(item)
  <1>1. PICK s, pairs : s = SplitCsv(a.order) /\ pairs = OrderPairs(a.order)
    OBVIOUS
  <1>2. a.order \in Seq(Seq(Names \cup OrderWords))
    BY AsksAreCalls DEF IsCall
  <1>s. PICK S : S = Seq(Names \cup OrderWords)
    OBVIOUS
  <1>3. /\ s \in Seq(S) /\ \A k \in 1..Len(s) : s[k] \in Words(a.order)
        /\ \A w \in Words(a.order) : \E k \in 1..Len(s) : s[k] = w
        /\ s = << >> <=> Words(a.order) = {}
    <2>1. a.order \in Seq(S)
      BY <1>2, <1>s
    <2>2. PICK r : r = a.order
      OBVIOUS
    <2>3. r \in Seq(S) /\ s = SplitCsv(r)
      BY <1>1, <2>1, <2>2
    <2>4. /\ s \in Seq(S) /\ \A k \in 1..Len(s) : s[k] \in Words(r)
          /\ \A w \in Words(r) : \E k \in 1..Len(s) : s[k] = w
          /\ s = << >> <=> Words(r) = {}
      BY <2>3, SplitIsWords
    <2> QED BY <2>2, <2>4
  <1>4. pairs # None
    BY <1>1, NoneStandsApart
  <1>5. pairs = [ i \in 1..Len(s) |->
                    << s[i][1], IF Len(s[i]) > 1 THEN Lower(s[i][2]) ELSE "asc" >> ]
    BY <1>1 DEF OrderPairs
  <1>6. /\ Len(pairs) = Len(s) /\ Len(s) \in Nat
        /\ \A i \in 1..Len(s) : /\ pairs[i][1] = s[i][1]
                                /\ Len(s[i]) > 1 => pairs[i][2] = Lower(s[i][2])
                                /\ ~(Len(s[i]) > 1) => pairs[i][2] = "asc"
    <2>1. Len(s) \in Nat
      BY <1>3
    <2>2. PICK w : w = [ i \in 1..Len(s) |-> IF Len(s[i]) > 1 THEN Lower(s[i][2]) ELSE "asc" ]
      OBVIOUS
    <2>3. pairs = [ i \in 1..Len(s) |-> << s[i][1], w[i] >> ]
      BY <1>5, <2>2
    <2>4. Len(pairs) = Len(s)
      BY <2>1, <2>3
    <2>5. \A i \in 1..Len(s) : pairs[i] = << s[i][1], w[i] >>
      BY <2>3
    <2> QED BY <2>1, <2>2, <2>4, <2>5
  <1>7. BadDirection(a.order) <=> \E i \in 1..Len(s) : pairs[i][2] \notin Directions
    BY <1>1, <1>6 DEF BadDirection
  <1>8. OrderValid(pairs) <=> \A i \in 1..Len(s) : LegalOrder(s[i])
    BY <1>6 DEF OrderValid, LegalOrder, Directions
  <1>9. (\A i \in 1..Len(s) : LegalOrder(s[i])) <=> \A item \in Words(a.order) : LegalOrder(item)
    BY <1>3
  <1>10. OrderValid(pairs) => ~BadDirection(a.order)
    BY <1>6, <1>7 DEF OrderValid
  <1>11. CASE pairs = << >>
    <2>1. Len(s) = 0
      BY <1>6, <1>11
    <2> QED BY <1>1, <1>7, <1>8, <1>9, <1>11, <2>1 DEF Given
  <1>12. CASE pairs # << >>
    BY <1>1, <1>4, <1>8, <1>9, <1>10, <1>12 DEF Given
  <1> QED BY <1>11, <1>12

\* The aggregates: accepted where there are some, all of them legal.
LEMMA ApplyVerdict ==
    ASSUME NEW a \in Asks, Has(a, "items")
    PROVE  a.items # << >> /\ ApplyValid(a.items)
             <=> Words(a.items) # {} /\ \A item \in Words(a.items) : LegalAggregate(item)
  <1>1. PICK s : s = SplitCsv(a.items)
    OBVIOUS
  <1>2. a.items \in Seq(Aggregates)
    BY AsksAreCalls DEF IsCall
  <1>3. /\ s \in Seq(Aggregates) /\ \A k \in 1..Len(s) : s[k] \in Words(a.items)
        /\ \A w \in Words(a.items) : \E k \in 1..Len(s) : s[k] = w
        /\ s = << >> <=> Words(a.items) = {}
    BY <1>1, <1>2, SplitIsWords
  <1>4. None \notin Plain
    BY NoneStandsApart
  <1>5. \A item : LegalAggregate(item) <=> /\ item \notin Odd
                                           /\ item.prop \in Plain \cup {None}
                                           /\ item.op \in AggregateOps
                                           /\ item.op = "count" \/ item.prop # None
    BY <1>4 DEF LegalAggregate
  <1>6. ApplyValid(a.items) <=> s # << >> /\ \A i \in 1..Len(s) : LegalAggregate(s[i])
    BY <1>1, <1>5 DEF ApplyValid, TopLevelItems
  <1>7. (\A i \in 1..Len(s) : LegalAggregate(s[i]))
          <=> \A item \in Words(a.items) : LegalAggregate(item)
    BY <1>3
  <1>8. a.items = << >> => Words(a.items) = {}
    BY DEF Words
  <1> QED BY <1>3, <1>6, <1>7, <1>8

\* The two layers of checks, put together.
Passes(a, v) ==
    /\ a.tool \in AdminTools => a.caller \in Admins
    /\ ~ToolRefuses(a)
    /\ a.tool \in RawTools \/ UrlBuilt(Shape(a), v)

\* The options of a query.
Holds(q, entity, select, filter, order, top, count, apply) ==
    /\ q.entity = entity /\ q["select"] = select /\ q["filter"] = filter
    /\ q["order"] = order /\ q["top"] = top /\ q["count"] = count /\ q["apply"] = apply

\* What the three shaping functions put into a query.
LEMMA QueriesAre ==
    ASSUME NEW a
    PROVE  /\ Holds(SelectQuery(a), a.entity, Given(SplitCsv(a.select)), a.filter,
                    Given(OrderPairs(a.order)), Clamp(a.top), None, None)
           /\ Holds(CountQuery(a), a.entity, None, a.filter, None, None, TRUE, None)
           /\ Holds(AggregateQuery(a), a.entity, None, a.filter, None, None, None, a.items)
  <1>1. PICK s, o, t : s = Given(SplitCsv(a.select)) /\ o = Given(OrderPairs(a.order))
                         /\ t = Clamp(a.top)
    OBVIOUS
  <1>2. Holds(SelectQuery(a), a.entity, s, a.filter, o, t, None, None)
    BY <1>1 DEF SelectQuery, NoQuery, Holds
  <1>3. Holds(CountQuery(a), a.entity, None, a.filter, None, None, TRUE, None)
    BY DEF CountQuery, NoQuery, Holds
  <1>4. Holds(AggregateQuery(a), a.entity, None, a.filter, None, None, None, a.items)
    BY DEF AggregateQuery, NoQuery, Holds
  <1> QED BY <1>1, <1>2, <1>3, <1>4

\* _clamp_top's value is one that build_url lets through.
LEMMA ClampInRange ==
    ASSUME NEW top \in Int
    PROVE  Clamp(top) \in 1..MaxTop /\ Clamp(top) # None
  <1>1. Clamp(top) \in 1..MaxTop
    BY ToolConstants DEF Clamp
  <1>2. Clamp(top) \in Int
    BY <1>1, ToolConstants
  <1> QED BY <1>1, <1>2, NoneStandsApart

\* The tools that have arguments of a name.
LEMMA ArgumentsAre ==
    ASSUME NEW a \in Asks
    PROVE  /\ a.tool \in { "sap_select", "sap_top_n", "sap_count", "sap_aggregate",
                           "sap_navigate", "sap_lookup", "sap_invoke_function",
                           "sap_describe_entity", "sap_search_entity" }
           /\ Has(a, "filter") = (a.tool \in { "sap_select", "sap_top_n", "sap_count", "sap_aggregate" })
           /\ Has(a, "select") = (a.tool \in { "sap_select", "sap_top_n", "sap_lookup" })
           /\ Has(a, "order") = (a.tool \in { "sap_select", "sap_top_n" })
           /\ Has(a, "items") = (a.tool = "sap_aggregate")
           /\ Has(a, "key") = (a.tool \in { "sap_navigate", "sap_lookup" })
           /\ Has(a, "nav") = (a.tool = "sap_navigate")
           /\ Has(a, "params") = (a.tool = "sap_invoke_function")
  <1>1. a.tool \in DOMAIN Arguments /\ DOMAIN a = { "tool", "caller" } \cup Arguments[a.tool]
    BY AsksAreCalls DEF IsCall
  <1>2. a.tool \in { "sap_select", "sap_top_n", "sap_count", "sap_aggregate",
                     "sap_navigate", "sap_lookup", "sap_invoke_function",
                     "sap_describe_entity", "sap_search_entity" }
    BY <1>1 DEF Arguments
  <1> QED BY <1>1, <1>2 DEF Arguments, Has

\* Each tool lets through what it ought to.
LEMMA Verdict ==
    ASSUME NEW a \in Asks, a.tool \notin SnapshotTools, NEW v \in Versions
    PROVE  LegalBut(Lapses, a, v) <=> Passes(a, v)
  <1> USE DEF RawTools, AdminTools, SnapshotTools
  <1>0. None \notin Plain /\ None # TRUE
    BY NoneStandsApart
  <1>1. CASE a.tool \in { "sap_select", "sap_top_n" }
    <2>1. Has(a, "filter") /\ Has(a, "select") /\ Has(a, "order") /\ ~Has(a, "items")
            /\ ~Has(a, "key") /\ ~Has(a, "nav") /\ ~Has(a, "params") /\ a.tool \notin RawTools
            /\ a.tool \notin AdminTools
      BY <1>1, ArgumentsAre
    <2>2. PICK q : q = SelectQuery(a)
      OBVIOUS
    <2>3. Shape(a) = q
      BY <1>1, <2>2, Zenon DEF Shape, TopNQuery
    <2>4. ToolRefuses(a) = BadDirection(a.order)
      BY <1>1, Zenon DEF ToolRefuses
    <2>5. PICK s, o, t : s = Given(SplitCsv(a.select)) /\ o = Given(OrderPairs(a.order))
                           /\ t = Clamp(a.top)
      OBVIOUS
    <2>6. Holds(q, a.entity, s, a.filter, o, t, None, None)
      BY <2>2, <2>5, QueriesAre
    <2>7. t \in 1..MaxTop /\ t # None
      <3>1. Has(a, "top") /\ a.top \in Int
        <4>1. DOMAIN a = { "tool", "caller" } \cup Arguments[a.tool] /\ (Has(a, "top") => a.top \in Int)
          BY AsksAreCalls DEF IsCall
        <4> QED BY <1>1, <4>1 DEF Arguments, Has
      <3> QED BY <2>5, <3>1, ClampInRange
    <2>8. Fit(q, v) <=> /\ a.entity \in Plain \cup Accented
                        /\ a.filter # None => Accepts(a.filter, v)
                        /\ s # None => SelectValid(s)
                        /\ o # None => OrderValid(o)
      BY <2>6, <2>7 DEF Fit, Holds, CountSegment
    <2>9. (s # None => SelectValid(s)) <=> Words(a.select) \subseteq Plain
      BY <2>1, <2>5, SelectVerdict
    <2>10. ~BadDirection(a.order) /\ (o # None => OrderValid(o))
             <=> \A item \in Words(a.order) : LegalOrder(item)
      BY <2>1, <2>5, OrderVerdict
    <2>11. (a.filter # None => Accepts(a.filter, v)) <=> a.filter = None \/ a.filter \in Sentences[v]
      BY <2>1, FilterVerdict
    <2>12. Passes(a, v) <=> ~BadDirection(a.order) /\ Fit(q, v)
      BY <2>1, <2>3, <2>4, UrlFits DEF Passes
    <2>13. LegalBut(Lapses, a, v) <=> /\ a.entity \in Plain \cup Accented
                                      /\ a.filter = None \/ a.filter \in Sentences[v]
                                      /\ Words(a.select) \subseteq Plain
                                      /\ \A item \in Words(a.order) : LegalOrder(item)
      BY <2>1 DEF LegalBut, Lapses
    <2> QED BY <2>8, <2>9, <2>10, <2>11, <2>12, <2>13
  <1>2. CASE a.tool = "sap_count"
    <2>1. Has(a, "filter") /\ ~Has(a, "select") /\ ~Has(a, "order") /\ ~Has(a, "items")
            /\ ~Has(a, "key") /\ ~Has(a, "nav") /\ ~Has(a, "params") /\ a.tool \notin RawTools
            /\ a.tool \notin AdminTools
      BY <1>2, ArgumentsAre
    <2>2. PICK q : q = CountQuery(a)
      OBVIOUS
    <2>3. Shape(a) = q
      BY <1>2, <2>2, Zenon DEF Shape
    <2>4. ~ToolRefuses(a)
      BY <1>2, Zenon DEF ToolRefuses
    <2>5. Holds(q, a.entity, None, a.filter, None, None, TRUE, None)
      BY <2>2, QueriesAre
    <2>6. CountSegment(q, v) = (v = "v2")
      BY <1>0, <2>5 DEF CountSegment, Holds
    <2>7. Fit(q, v) <=> /\ a.entity \in Plain \cup Accented
                        /\ a.filter # None => Accepts(a.filter, v)
      BY <2>5, <2>6 DEF Fit, Holds, Versions
    <2>8. (a.filter # None => Accepts(a.filter, v)) <=> a.filter = None \/ a.filter \in Sentences[v]
      BY <2>1, FilterVerdict
    <2>9. Passes(a, v) <=> Fit(q, v)
      BY <2>1, <2>3, <2>4, UrlFits DEF Passes
    <2>10. LegalBut(Lapses, a, v) <=> /\ a.entity \in Plain \cup Accented
                                      /\ a.filter = None \/ a.filter \in Sentences[v]
      BY <2>1 DEF LegalBut, Lapses
    <2> QED BY <2>7, <2>8, <2>9, <2>10
  <1>3. CASE a.tool = "sap_aggregate"
    <2>1. Has(a, "filter") /\ ~Has(a, "select") /\ ~Has(a, "order") /\ Has(a, "items")
            /\ ~Has(a, "key") /\ ~Has(a, "nav") /\ ~Has(a, "params") /\ a.tool \notin RawTools
            /\ a.tool \notin AdminTools
      BY <1>3, ArgumentsAre
    <2>2. PICK q : q = AggregateQuery(a)
      OBVIOUS
    <2>3. Shape(a) = q
      BY <1>3, <2>2, Zenon DEF Shape
    <2>4. ToolRefuses(a) <=> a.items = << >>
      BY <1>3, Zenon DEF ToolRefuses
    <2>5. Holds(q, a.entity, None, a.filter, None, None, None, a.items)
      BY <2>2, QueriesAre
    <2>6. a.items # None
      BY <2>1, NoneStandsApart
    <2>7. Fit(q, v) <=> /\ a.entity \in Plain \cup Accented
                        /\ a.filter # None => Accepts(a.filter, v)
                        /\ ApplyValid(a.items)
      BY <2>5, <2>6 DEF Fit, Holds, CountSegment
    <2>8. (a.filter # None => Accepts(a.filter, v)) <=> a.filter = None \/ a.filter \in Sentences[v]
      BY <2>1, FilterVerdict
    <2>9. a.items # << >> /\ ApplyValid(a.items)
             <=> Words(a.items) # {} /\ \A item \in Words(a.items) : LegalAggregate(item)
      BY <2>1, ApplyVerdict
    <2>10. Passes(a, v) <=> a.items # << >> /\ Fit(q, v)
      BY <2>1, <2>3, <2>4, UrlFits DEF Passes
    <2>11. LegalBut(Lapses, a, v) <=> /\ a.entity \in Plain \cup Accented
                                      /\ a.filter = None \/ a.filter \in Sentences[v]
                                      /\ Words(a.items) # {} /\ \A item \in Words(a.items) : LegalAggregate(item)
      BY <2>1 DEF LegalBut, Lapses
    <2> QED BY <2>7, <2>8, <2>9, <2>10, <2>11
  <1>4. CASE a.tool = "sap_navigate"
    <2>1. ~Has(a, "filter") /\ ~Has(a, "order") /\ ~Has(a, "items") /\ Has(a, "key")
            /\ ~Has(a, "select") /\ Has(a, "nav") /\ ~Has(a, "params") /\ a.tool \in RawTools /\ a.tool \notin AdminTools
      BY <1>4, ArgumentsAre
    <2>2. ToolRefuses(a) <=> a.entity \notin Plain \/ a.nav \notin Plain \/ a.key = << >>
      BY <1>4, Zenon DEF ToolRefuses
    <2> QED BY <2>1, <2>2 DEF LegalBut, Lapses, Passes
  <1>5. CASE a.tool = "sap_lookup"
    <2>1. ~Has(a, "filter") /\ ~Has(a, "order") /\ ~Has(a, "items") /\ Has(a, "key")
            /\ ~Has(a, "nav") /\ ~Has(a, "params") /\ a.tool \in RawTools
      BY <1>5, ArgumentsAre
    <2>2. ToolRefuses(a) <=> a.entity \notin Plain \/ a.key = << >>
      BY <1>5, Zenon DEF ToolRefuses
    <2>3. a.tool \notin { "sap_navigate", "sap_invoke_function" } /\ a.tool = "sap_lookup"
      BY <1>5
    <2>4. LegalBut(Lapses, a, v) <=> a.entity \in Plain /\ a.key # << >>
                                       /\ (a.tool \in AdminTools => a.caller \in Admins)
      BY <2>1, <2>3 DEF LegalBut, Lapses
    <2> QED BY <2>1, <2>2, <2>4 DEF Passes
  <1>6. CASE a.tool = "sap_invoke_function"
    <2>1. ~Has(a, "filter") /\ ~Has(a, "order") /\ ~Has(a, "items") /\ ~Has(a, "key")
            /\ ~Has(a, "select") /\ ~Has(a, "nav") /\ Has(a, "params") /\ a.tool \in RawTools
      BY <1>6, ArgumentsAre
    <2>2. ToolRefuses(a) <=> a.entity \notin Plain \/ UnusableParam(a.params)
      BY <1>6, Zenon DEF ToolRefuses
    <2> QED BY <2>1, <2>2 DEF LegalBut, Lapses, Passes, UnusableParam
  <1> QED BY <1>1, <1>2, <1>3, <1>4, <1>5, <1>6, ArgumentsAre

-----------------------------------------------------------------------------
(* The invariant.                                                          *)

\* A query is that of a call the tool has let through.
Shaped ==
    stage \in { "shaped", "resolved", "sent" } \/ url # None =>
        /\ ask.tool \notin SnapshotTools
        /\ Permitted /\ ~ToolRefuses(ask)
        /\ query = Shape(ask)

\* Nothing is known of the service before it is resolved, nothing leaves before.
Unresolved ==
    /\ stage \in { "asked", "shaped" } => version = None /\ found = None /\ answer = None
    /\ stage \in { "asked", "shaped", "resolved" } => url = None /\ answer = None
    /\ stage = "sent" => answer = None

\* A URL is the query's, found valid for the version of the service.
UrlIsQuery ==
    url # None =>
        IF ask.tool \in RawTools THEN url = query
        ELSE UrlBuilt(query, version) /\ url = Url(query, version)

\* A refusal of either layer is one of the two, put together.
RefusalFits ==
    stage = "answered" /\ answer \in { "validator_rejected", "forbidden" }
      /\ ask.tool \notin SnapshotTools
      => url = None /\ \E v \in Versions : version \in { v, None } /\ ~Passes(ask, v)

IInv == TypeOK /\ Shaped /\ Unresolved /\ UrlIsQuery /\ RefusalFits

\* What a step relies on.
Ready ==
    /\ MaxTop \in Nat \ {0} /\ None \notin Versions \cup Statuses
    /\ \A a \in Asks :
          /\ a.tool \in DOMAIN Arguments
          /\ a.tool \notin SnapshotTools => Shape(a) # None
          /\ a.tool \notin SnapshotTools \cup RawTools =>
               \A v \in Versions : Url(Shape(a), v) # None

\* The verdicts, as the steps use them.
LEMMA IsReady == Ready
  <1>1. \A a \in Asks : a.tool \in DOMAIN Arguments
    BY AsksAreCalls DEF IsCall
  <1> QED BY <1>1, ToolConstants, NoneStandsApart DEF Ready

\* A call begins with nothing shaped, resolved or sent.
LEMMA InitHolds == Init => IInv
  <1> SUFFICES ASSUME Init PROVE IInv
    OBVIOUS
  <1>1. TypeOK
    BY IsReady DEF Init, TypeOK, Ready, Stages, Statuses
  <1>2. Shaped /\ Unresolved /\ UrlIsQuery /\ RefusalFits
    BY DEF Init, Shaped, Unresolved, UrlIsQuery, RefusalFits
  <1> QED BY <1>1, <1>2 DEF IInv

\* An answer before anything has been sent.
LEMMA AnswerKeeps ==
    ASSUME IInv, NEW status \in Statuses, Answer(status), url = None,
           found' # None => ask.tool \in SnapshotTools,
           status \in { "validator_rejected", "forbidden" } /\ ask.tool \notin SnapshotTools
             => \E v \in Versions : version \in { v, None } /\ ~Passes(ask, v)
    PROVE  IInv'
  <1>1. ask' = ask /\ query' = query /\ version' = version /\ url' = None
          /\ stage' = "answered" /\ answer' = status
    BY DEF Answer
  <1>2. TypeOK'
    BY <1>1 DEF IInv, TypeOK, Stages
  <1>3. Shaped' /\ Unresolved' /\ UrlIsQuery'
    BY <1>1 DEF Shaped, Unresolved, UrlIsQuery
  <1>4. RefusalFits'
    <2>1. (\E v \in Versions : version \in { v, None } /\ ~Passes(ask, v))
            => (\E v \in Versions : version' \in { v, None } /\ ~Passes(ask', v))
      BY <1>1
    <2> QED BY <1>1, <2>1 DEF RefusalFits
  <1> QED BY <1>2, <1>3, <1>4 DEF IInv

\* One step per action, and under it one per part of the invariant.
LEMMA NextHolds == IInv /\ [Next]_vars => IInv'
  <1> SUFFICES ASSUME IInv, [Next]_vars PROVE IInv'
    OBVIOUS
  <1> USE IsReady
  <1>t. TypeOK /\ Shaped /\ Unresolved /\ UrlIsQuery /\ RefusalFits
    BY DEF IInv
  <1>0. "v2" \in Versions
    BY DEF Versions
  <1>1. CASE Forbidden
    <2>1. stage = "asked" /\ ~Permitted /\ Answer("forbidden") /\ found' = found
      BY <1>1 DEF Forbidden
    <2>2. url = None /\ found = None /\ version = None
      BY <1>t, <2>1 DEF Unresolved
    <2>3. ~Passes(ask, "v2")
      BY <2>1 DEF Permitted, Passes
    <2>4. "forbidden" \in Statuses
      BY DEF Statuses
    <2> QED BY <1>0, <2>1, <2>2, <2>3, <2>4, AnswerKeeps
  <1>2. CASE SessionUnknown
    <2>1. stage \in { "asked", "shaped" } /\ Answer("session_unknown") /\ found' = found
      BY <1>2 DEF SessionUnknown
    <2>2. url = None /\ found = None
      BY <1>t, <2>1 DEF Unresolved
    <2>3. "session_unknown" \in Statuses
      BY DEF Statuses
    <2> QED BY <2>1, <2>2, <2>3, AnswerKeeps
  <1>3. CASE RejectArguments
    <2>1. stage = "asked" /\ ToolRefuses(ask) /\ Answer("validator_rejected") /\ found' = found
      BY <1>3 DEF RejectArguments
    <2>2. url = None /\ found = None /\ version = None
      BY <1>t, <2>1 DEF Unresolved
    <2>3. ~Passes(ask, "v2")
      BY <2>1 DEF Passes
    <2>4. "validator_rejected" \in Statuses
      BY DEF Statuses
    <2> QED BY <1>0, <2>1, <2>2, <2>3, <2>4, AnswerKeeps
  <1>4. CASE Prepare
    <2>1. /\ stage = "asked" /\ ask.tool \notin SnapshotTools /\ Permitted /\ ~ToolRefuses(ask)
          /\ stage' = "shaped" /\ query' = Shape(ask)
          /\ UNCHANGED << ask, version, url, found, answer >>
      BY <1>4 DEF Prepare
    <2>2. version = None /\ found = None /\ answer = None /\ url = None
      BY <1>t, <2>1 DEF Unresolved
    <2>3. Shape(ask) # None
      BY <1>t, <2>1 DEF Ready, TypeOK
    <2>4. TypeOK'
      BY <1>t, <2>1, <2>2, <2>3 DEF TypeOK, Stages, Ready
    <2>5. Shaped'
      <3>1. Permitted' = Permitted
        BY <2>1 DEF Permitted
      <3>2. ToolRefuses(ask)' = ToolRefuses(ask) /\ Shape(ask)' = Shape(ask)
        BY <2>1
      <3> QED BY <2>1, <3>1, <3>2 DEF Shaped
    <2>6. Unresolved' /\ UrlIsQuery' /\ RefusalFits'
      BY <2>1, <2>2 DEF Unresolved, UrlIsQuery, RefusalFits
    <2> QED BY <2>4, <2>5, <2>6 DEF IInv
  <1>5. CASE NotResolved
    <2>1. PICK s \in { "cost_limit_exceeded", "resolution_error" } : Answer(s)
      BY <1>5 DEF NotResolved
    <2>2. stage \in { "asked", "shaped" } /\ found' = found
      BY <1>5 DEF NotResolved
    <2>3. url = None /\ found = None
      BY <1>t, <2>2 DEF Unresolved
    <2>4. s \in Statuses
      BY DEF Statuses
    <2> QED BY <2>1, <2>2, <2>3, <2>4, AnswerKeeps
  <1>6. CASE Resolve
    <2>1. /\ stage = "shaped" /\ stage' = "resolved" /\ version' \in Versions
          /\ UNCHANGED << ask, query, url, found, answer >>
      BY <1>6 DEF Resolve
    <2>2. version = None /\ found = None /\ answer = None /\ url = None
      BY <1>t, <2>1 DEF Unresolved
    <2>3. TypeOK'
      BY <1>t, <2>1, <2>2 DEF TypeOK, Stages, Ready
    <2>4. Shaped'
      <3>1. Permitted' = Permitted
        BY <2>1 DEF Permitted
      <3>2. ToolRefuses(ask)' = ToolRefuses(ask) /\ Shape(ask)' = Shape(ask)
        BY <2>1
      <3> QED BY <1>t, <2>1, <3>1, <3>2 DEF Shaped
    <2>5. Unresolved' /\ UrlIsQuery' /\ RefusalFits'
      BY <2>1, <2>2 DEF Unresolved, UrlIsQuery, RefusalFits
    <2> QED BY <2>3, <2>4, <2>5 DEF IInv
  <1>7. CASE RejectQuery
    <2>1. /\ stage = "resolved" /\ ask.tool \notin RawTools /\ ~UrlBuilt(query, version)
          /\ Answer("validator_rejected") /\ found' = found
      BY <1>7 DEF RejectQuery
    <2>2. url = None /\ query = Shape(ask) /\ ask.tool \notin SnapshotTools
      BY <1>t, <2>1 DEF Unresolved, Shaped
    <2>3. version \in Versions /\ (found # None => ask.tool \in SnapshotTools)
      BY <1>t, <2>1 DEF TypeOK
    <2>4. ~Passes(ask, version)
      BY <2>1, <2>2 DEF Passes
    <2>5. "validator_rejected" \in Statuses
      BY DEF Statuses
    <2> QED BY <2>1, <2>2, <2>3, <2>4, <2>5, AnswerKeeps
  <1>8. CASE Send
    <2>1. /\ stage = "resolved" /\ stage' = "sent"
          /\ UNCHANGED << ask, query, version, found, answer >>
          /\ \/ ask.tool \in RawTools /\ url' = query
             \/ ask.tool \notin RawTools /\ UrlBuilt(query, version) /\ url' = Url(query, version)
      BY <1>8 DEF Send
    <2>2. url = None /\ answer = None /\ ask.tool \notin SnapshotTools /\ Permitted
            /\ ~ToolRefuses(ask) /\ query = Shape(ask)
      BY <1>t, <2>1 DEF Unresolved, Shaped
    <2>3. /\ ask \in Asks /\ version \in Versions /\ found = None /\ query # None
      BY <1>t, <2>1, <2>2 DEF TypeOK
    <2>4. url' # None
      BY <2>1, <2>2, <2>3 DEF Ready
    <2>5. TypeOK'
      BY <1>t, <2>1, <2>2, <2>3, <2>4 DEF TypeOK, Stages, Ready
    <2>6. Shaped'
      <3>1. Permitted' = Permitted
        BY <2>1 DEF Permitted
      <3>2. ToolRefuses(ask)' = ToolRefuses(ask) /\ Shape(ask)' = Shape(ask)
        BY <2>1
      <3> QED BY <2>1, <2>2, <3>1, <3>2 DEF Shaped
    <2>7. UrlIsQuery'
      <3>1. UrlBuilt(query, version)' = UrlBuilt(query, version)
              /\ Url(query, version)' = Url(query, version)
        BY <2>1
      <3> QED BY <2>1, <3>1 DEF UrlIsQuery
    <2>8. Unresolved' /\ RefusalFits'
      BY <2>1, <2>2 DEF Unresolved, RefusalFits
    <2> QED BY <2>5, <2>6, <2>7, <2>8 DEF IInv
  <1>9. CASE Return
    <2>1. PICK s \in { "ok", "auth_error", "http_error", "rate_limited", "timeout" } : Answer(s)
      BY <1>9 DEF Return
    <2>2. /\ stage = "sent" /\ stage' = "answered" /\ answer' = s
          /\ UNCHANGED << ask, query, version, url, found >>
      BY <1>9, <2>1 DEF Return, Answer
    <2>3. TypeOK'
      BY <1>t, <2>2 DEF TypeOK, Stages, Statuses
    <2>4. Shaped'
      <3>1. Permitted' = Permitted
        BY <2>2 DEF Permitted
      <3>2. ToolRefuses(ask)' = ToolRefuses(ask) /\ Shape(ask)' = Shape(ask)
        BY <2>2
      <3> QED BY <1>t, <2>2, <3>1, <3>2 DEF Shaped
    <2>5. UrlIsQuery'
      <3>1. UrlBuilt(query, version)' = UrlBuilt(query, version)
              /\ Url(query, version)' = Url(query, version)
        BY <2>2
      <3> QED BY <1>t, <2>2, <3>1 DEF UrlIsQuery
    <2>6. Unresolved' /\ RefusalFits'
      BY <2>2 DEF Unresolved, RefusalFits
    <2> QED BY <2>3, <2>4, <2>5, <2>6 DEF IInv
  <1>10. CASE SearchEntity
    <2>1. stage = "asked" /\ ask.tool = "sap_search_entity" /\ Answer("ok")
      BY <1>10 DEF SearchEntity
    <2>2. url = None
      BY <1>t, <2>1 DEF Unresolved
    <2>3. "ok" \in Statuses /\ ask.tool \in SnapshotTools
      BY <2>1 DEF Statuses, SnapshotTools
    <2> QED BY <2>1, <2>2, <2>3, AnswerKeeps
  <1>11. CASE DescribeEntity
    <2>1. stage = "asked" /\ ask.tool = "sap_describe_entity"
      BY <1>11 DEF DescribeEntity
    <2>2. PICK s \in { "ok", "not_found" } : Answer(s)
      BY <1>11 DEF DescribeEntity
    <2>3. url = None
      BY <1>t, <2>1 DEF Unresolved
    <2>4. s \in Statuses /\ ask.tool \in SnapshotTools
      BY <2>1 DEF Statuses, SnapshotTools
    <2> QED BY <2>2, <2>3, <2>4, AnswerKeeps
  <1>12. CASE UNCHANGED vars
    <2>1. /\ ask' = ask /\ stage' = stage /\ query' = query /\ version' = version
          /\ url' = url /\ found' = found /\ answer' = answer
      BY <1>12 DEF vars
    <2>2. TypeOK'
      BY <1>t, <2>1 DEF TypeOK
    <2>3. Shaped'
      <3>1. Permitted' = Permitted
        BY <2>1 DEF Permitted
      <3>2. ToolRefuses(ask)' = ToolRefuses(ask) /\ Shape(ask)' = Shape(ask)
        BY <2>1
      <3> QED BY <1>t, <2>1, <3>1, <3>2 DEF Shaped
    <2>4. UrlIsQuery'
      <3>1. UrlBuilt(query, version)' = UrlBuilt(query, version)
              /\ Url(query, version)' = Url(query, version)
        BY <2>1
      <3> QED BY <1>t, <2>1, <3>1 DEF UrlIsQuery
    <2>5. Unresolved'
      BY <1>t, <2>1 DEF Unresolved
    <2>6. RefusalFits'
      <3>1. (\E v \in Versions : version \in { v, None } /\ ~Passes(ask, v))
              => (\E v \in Versions : version' \in { v, None } /\ ~Passes(ask', v))
        BY <2>1
      <3> QED BY <1>t, <2>1, <3>1 DEF RefusalFits
    <2> QED BY <2>2, <2>3, <2>4, <2>5, <2>6 DEF IInv
  <1> QED BY <1>1, <1>2, <1>3, <1>4, <1>5, <1>6, <1>7, <1>8, <1>9, <1>10, <1>11, <1>12 DEF Next

\* Of every behaviour: a call is under way as its arguments say.
THEOREM Invariance == Spec => []IInv
  <1> QED BY InitHolds, NextHolds, PTL DEF Spec

\* Every variable keeps its type: a call has a query once it is shaped, a
\* version once it is resolved, a URL once it is sent, a status at its end.
THEOREM TypeCorrect == Spec => []TypeOK
  <1>1. IInv => TypeOK
    BY DEF IInv
  <1> QED BY <1>1, Invariance, PTL

\* Whatever the calls, the filters and their lengths: what the two layers of
\* checks (the tool functions before the pipeline, build_url inside it) let
\* through is the whitelist of odata_validator.py and, beyond it, exactly the
\* three lapses: accented entity names, a lookup's $select, a third order word.
THEOREM VerdictIsExact == Spec => []VerdictExact
  <1>1. IInv => VerdictExact
    <2> SUFFICES ASSUME IInv PROVE VerdictExact
      OBVIOUS
    <2>1. ask \in Asks /\ (url # None => version # None) /\ version \in Versions \cup {None}
      BY DEF IInv, TypeOK
    <2>2. ASSUME url # None PROVE LegalBut(Lapses, ask, version)
      <3>1. ask.tool \notin SnapshotTools /\ Permitted /\ ~ToolRefuses(ask) /\ query = Shape(ask)
        BY <2>2 DEF IInv, Shaped
      <3>2. ask.tool \in RawTools \/ UrlBuilt(query, version)
        BY <2>2 DEF IInv, UrlIsQuery
      <3>3. version \in Versions /\ Passes(ask, version)
        BY <2>1, <2>2, <3>1, <3>2 DEF Passes, Permitted
      <3> QED BY <2>1, <3>1, <3>3, Verdict
    <2>3. ASSUME stage = "answered" /\ answer \in { "validator_rejected", "forbidden" },
                 ask.tool \notin SnapshotTools
          PROVE  \E v \in Versions : version \in { v, None } /\ ~LegalBut(Lapses, ask, v)
      <3>1. PICK v \in Versions : version \in { v, None } /\ ~Passes(ask, v)
        BY <2>3 DEF IInv, RefusalFits
      <3>2. ~LegalBut(Lapses, ask, v)
        BY <2>1, <2>3, <3>1, Verdict
      <3> QED BY <3>1, <3>2
    <2> QED BY <2>2, <2>3 DEF VerdictExact
  <1> QED BY <1>1, Invariance, PTL

-----------------------------------------------------------------------------
(* The model's recursive functions.                                        *)

\* The items joined so far.
JoinedUpTo(f, seqs, C) ==
    /\ f \in [ 0..Len(seqs) -> Seq(C) ]
    /\ f[0] = << >>
    /\ \A n \in 1..Len(seqs) : f[n] = f[n - 1] \o seqs[n]

\* FlattenSeq is the last of the items joined so far.
LEMMA FlattenIs ==
    ASSUME NEW C, NEW seqs \in Seq(Seq(C))
    PROVE  \E f : JoinedUpTo(f, seqs, C) /\ FlattenSeq(seqs) = f[Len(seqs)]
  <1>0. Len(seqs) \in Nat
    OBVIOUS
  <1>1. PICK N, T : N = Len(seqs) /\ T = Seq(C)
    OBVIOUS
  <1>2. PICK G : G = [ p \in (1..N) \X T |-> p[2] \o seqs[p[1]] ]
    OBVIOUS
  <1>s. \A n \in 1..N : seqs[n] \in T
    BY <1>1
  <1>3. \A n \in 1..N : \A x \in T : G[<< n, x >>] = x \o seqs[n] /\ G[<< n, x >>] \in T
    <2> SUFFICES ASSUME NEW n \in 1..N, NEW x \in T
                 PROVE  G[<< n, x >>] = x \o seqs[n] /\ G[<< n, x >>] \in T
      OBVIOUS
    <2>1. G[<< n, x >>] = x \o seqs[n]
      BY <1>2
    <2>2. PICK y : y = seqs[n]
      OBVIOUS
    <2>3. x \o y \in Seq(C)
      BY <1>1, <1>s, <2>2
    <2> QED BY <1>1, <2>1, <2>2, <2>3
  <1>4. G \in [ (1..N) \X T -> T ]
    <2>1. \A p \in (1..N) \X T : G[p] \in T
      BY <1>3
    <2>2. G = [ p \in (1..N) \X T |-> G[p] ]
      BY <1>2
    <2> QED BY <2>1, <2>2
  <1>5. << >> \in T
    BY <1>1
  <1>r. PICK f : Recurs(f, N, T, << >>, G)
    BY <1>0, <1>1, <1>4, <1>5, RecursionExists
  <1>6. /\ f \in [ 0..N -> T ] /\ f[0] = << >>
        /\ \A n \in 1..N : f[n] = G[<< n, f[n - 1] >>]
    BY <1>r DEF Recurs
  <1>7. \A n \in 1..N : n - 1 \in 0..N
    BY <1>0, <1>1
  <1>8. \A n \in 1..N : f[n] = f[n - 1] \o seqs[n]
    BY <1>3, <1>6, <1>7
  <1>9. JoinedUpTo(f, seqs, C)
    BY <1>1, <1>6, <1>8 DEF JoinedUpTo
  <1>10. CASE N = 0
    <2>1. FlattenSeq(seqs) = seqs
      BY <1>1, <1>10 DEF FlattenSeq
    <2>2. seqs = << >>
      BY <1>1, <1>10, EmptySeq
    <2> QED BY <1>1, <1>6, <1>9, <1>10, <2>1, <2>2
  <1>11. CASE N # 0
    <2> DEFINE Flattens(g) == g = [ i \in 1..N |-> IF i = 1 THEN seqs[i] ELSE g[i - 1] \o seqs[i] ]
               F == CHOOSE g : Flattens(g)
    <2>1. FlattenSeq(seqs) = F[N]
      BY <1>1, <1>11 DEF FlattenSeq
    <2>2. \E g : Flattens(g)
      <3> DEFINE h == [ i \in 1..N |-> f[i] ]
      <3>1. ASSUME NEW i \in 1..N
            PROVE  h[i] = IF i = 1 THEN seqs[i] ELSE h[i - 1] \o seqs[i]
        <4>1. CASE i = 1
          <5>1. f[1] = f[0] \o seqs[1]
            <6>1. f[i] = f[i - 1] \o seqs[i]
              BY <1>8
            <6>2. i - 1 = 0
              BY <4>1
            <6> QED BY <4>1, <6>1, <6>2
          <5>2. PICK y \in Seq(C) : y = seqs[1]
            BY <1>1, <1>s, <4>1
          <5>3. << >> \o y = y
            OBVIOUS
          <5> QED BY <1>6, <4>1, <5>1, <5>2, <5>3
        <4>2. CASE i # 1
          <5>1. i - 1 \in 1..N
            BY <1>0, <1>1, <4>2
          <5> QED BY <1>8, <4>2, <5>1
        <4> QED BY <4>1, <4>2
      <3>2. h = [ i \in 1..N |-> h[i] ]
        OBVIOUS
      <3> HIDE DEF h
      <3>3. Flattens(h)
        BY <3>1, <3>2
      <3> QED BY <3>3
    <2>3. Flattens(F)
      <3> HIDE DEF Flattens
      <3> QED BY <2>2
    <2> HIDE DEF F
    <2>4. \A i \in 1..N : F[i] = IF i = 1 THEN seqs[i] ELSE F[i - 1] \o seqs[i]
      BY <2>3
    <2> HIDE DEF Flattens
    <2>5. ASSUME NEW k \in 1..N, k > 1 => F[k - 1] = f[k - 1]
          PROVE  F[k] = f[k]
      <3>1. CASE k = 1
        <4>1. PICK y \in Seq(C) : y = seqs[1]
          BY <1>1, <1>s, <3>1
        <4>2. << >> \o y = y
          OBVIOUS
        <4>3. f[1] = f[0] \o seqs[1]
          <5>1. f[k] = f[k - 1] \o seqs[k]
            BY <1>8
          <5>2. k - 1 = 0
            BY <3>1
          <5> QED BY <3>1, <5>1, <5>2
        <4> QED BY <1>6, <2>4, <3>1, <4>1, <4>2, <4>3
      <3>2. CASE k # 1
        <4>1. F[k - 1] = f[k - 1]
          BY <1>0, <1>1, <2>5, <3>2
        <4>2. f[k] = f[k - 1] \o seqs[k] /\ F[k] = F[k - 1] \o seqs[k]
          BY <1>8, <2>4, <3>2
        <4> QED BY <4>1, <4>2
      <3> QED BY <3>1, <3>2
    <2> DEFINE good == { n \in 0..N : n = 0 \/ F[n] = f[n] }
    <2>7. \A n \in 0..N : n \in good
      <3>1. 0 \in good
        BY <1>0, <1>1
      <3>2. \A n \in 1..N : n - 1 \in good => n \in good
        BY <2>5
      <3> HIDE DEF good
      <3> QED BY <1>0, <1>1, <3>1, <3>2, Climbs
    <2>6. N \in 1..N
      BY <1>0, <1>1, <1>11
    <2> QED BY <1>1, <1>9, <1>11, <2>1, <2>6, <2>7
  <1> QED BY <1>10, <1>11

-----------------------------------------------------------------------------
(* The server's reading of a path, character by character.                 *)

ReaderModes == { "out", "in", "closing" }
ReaderStates(C) == [ shape : Seq(C), texts : Seq(Seq(C)), mode : ReaderModes ]

At(shape, texts, mode) == [ shape |-> shape, texts |-> texts, mode |-> mode ]

WithShape(s, x, m) == [ s EXCEPT !.shape = x, !.mode = m ]
WithTexts(s, x, m) == [ s EXCEPT !.texts = x, !.mode = m ]

\* The records of the reader, field by field.
LEMMA ShapeAndMode ==
    ASSUME NEW s, NEW shape, NEW texts, NEW mode, s = At(shape, texts, mode), NEW x, NEW m
    PROVE  WithShape(s, x, m) = At(x, texts, m)
  <1>1. PICK z : z = [ s EXCEPT !.shape = x ]
    OBVIOUS
  <1>2. z = At(x, texts, mode)
    BY <1>1 DEF At
  <1>3. [ z EXCEPT !.mode = m ] = At(x, texts, m)
    BY <1>2 DEF At
  <1>4. [ s EXCEPT !.shape = x, !.mode = m ] = [ z EXCEPT !.mode = m ]
    BY <1>1
  <1> QED BY <1>3, <1>4 DEF WithShape

\* The same of the texts.
LEMMA TextsAndMode ==
    ASSUME NEW s, NEW shape, NEW texts, NEW mode, s = At(shape, texts, mode), NEW x, NEW m
    PROVE  WithTexts(s, x, m) = At(shape, x, m)
  <1>1. PICK z : z = [ s EXCEPT !.texts = x ]
    OBVIOUS
  <1>2. z = At(shape, x, mode)
    BY <1>1 DEF At
  <1>3. [ z EXCEPT !.mode = m ] = At(shape, x, m)
    BY <1>2 DEF At
  <1>4. [ s EXCEPT !.texts = x, !.mode = m ] = [ z EXCEPT !.mode = m ]
    BY <1>1
  <1> QED BY <1>3, <1>4 DEF WithTexts

\* Outside a literal, a character is one more of the shape.
LEMMA ReadsOut ==
    ASSUME NEW shape, NEW texts, NEW mode \in { "out", "closing" }, NEW c, c # Quote
    PROVE  ReadChar(At(shape, texts, mode), c) = At(Append(shape, c), texts, "out")
  <1>1. PICK s : s = At(shape, texts, mode)
    OBVIOUS
  <1>2. s.shape = shape /\ s.texts = texts /\ s.mode = mode /\ s.mode # "in"
    BY <1>1 DEF At
  <1>3. ReadChar(s, c) = [ s EXCEPT !.shape = Append(@, c), !.mode = "out" ]
    BY <1>2, Zenon DEF ReadChar
  <1>4. [ s EXCEPT !.shape = Append(@, c), !.mode = "out" ] = At(Append(shape, c), texts, "out")
    <2>1. PICK x : x = Append(shape, c)
      OBVIOUS
    <2>2. WithShape(s, x, "out") = At(x, texts, "out")
      BY <1>1, ShapeAndMode
    <2>3. [ s EXCEPT !.shape = Append(@, c), !.mode = "out" ] = WithShape(s, x, "out")
      BY <1>2, <2>1 DEF WithShape
    <2> QED BY <2>1, <2>2, <2>3
  <1> QED BY <1>1, <1>3, <1>4

\* A quote opens a literal,
LEMMA ReadsOpening ==
    ASSUME NEW shape, NEW texts
    PROVE  ReadChar(At(shape, texts, "out"), Quote)
             = At(Append(shape, Quote), Append(texts, << >>), "in")
  <1>1. PICK s : s = At(shape, texts, "out")
    OBVIOUS
  <1>2. s.shape = shape /\ s.texts = texts /\ s.mode = "out"
    BY <1>1 DEF At
  <1>3. ReadChar(s, Quote) = [ shape |-> Append(s.shape, Quote), texts |-> Append(s.texts, << >>),
                               mode |-> "in" ]
    BY <1>2, Zenon DEF ReadChar
  <1> QED BY <1>1, <1>2, <1>3 DEF At

\* and one inside may close it.
LEMMA ReadsClosing ==
    ASSUME NEW shape, NEW texts
    PROVE  ReadChar(At(shape, texts, "in"), Quote) = At(shape, texts, "closing")
  <1>1. PICK s : s = At(shape, texts, "in")
    OBVIOUS
  <1>2. s.mode = "in" /\ s.mode # "out" /\ s.mode # "closing"
    BY <1>1 DEF At
  <1>3. ReadChar(s, Quote) = [ s EXCEPT !.mode = "closing" ]
    BY <1>2, Zenon DEF ReadChar
  <1> QED BY <1>1, <1>3 DEF At

\* Inside a literal, a character or a doubled quote is one more of its text.
LEMMA ReadsInside ==
    ASSUME NEW shape, NEW C, NEW t \in Seq(Seq(C)), NEW w \in Seq(C), NEW c \in C,
           NEW mode, mode = IF c = Quote THEN "closing" ELSE "in"
    PROVE  ReadChar(At(shape, Append(t, w), mode), c) = At(shape, Append(t, Append(w, c)), "in")
  <1>1. PICK s : s = At(shape, Append(t, w), mode)
    OBVIOUS
  <1>2. s.shape = shape /\ s.texts = Append(t, w) /\ s.mode = mode
    BY <1>1 DEF At
  <1>3. (s.mode = "in" \/ (s.mode = "closing" /\ c = Quote)) /\ ~(s.mode = "in" /\ c = Quote)
          /\ s.mode # "out"
    BY <1>2
  <1>4. ReadChar(s, c) = [ s EXCEPT !.texts[Len(s.texts)] = Append(@, c), !.mode = "in" ]
    BY <1>3, Zenon DEF ReadChar
  <1>5. PICK x, y, v : x = Append(t, w) /\ v = Append(w, c) /\ y = [ x EXCEPT ![Len(x)] = v ]
    OBVIOUS
  <1>6. x[Len(x)] = w /\ Len(x) = Len(t) + 1 /\ Len(t) \in Nat
    BY <1>5
  <1>7. y = Append(t, v)
    <2>1. PICK T, z : T = Seq(C) /\ z = Append(t, v)
      OBVIOUS
    <2>2. v \in T /\ x \in Seq(T) /\ Len(x) \in 1..Len(x) /\ \A k \in 1..Len(t) : x[k] = t[k]
      <3>1. v \in T /\ w \in T /\ t \in Seq(T)
        BY <1>5, <2>1
      <3> QED BY <1>5, <1>6, <3>1
    <2>3. /\ y \in Seq(T) /\ Len(y) = Len(x)
          /\ \A k \in 1..Len(x) : y[k] = IF k = Len(x) THEN v ELSE x[k]
      <3>1. PICK i : i = Len(x)
        OBVIOUS
      <3>2. i \in 1..Len(x) /\ y = [ x EXCEPT ![i] = v ]
        BY <1>5, <2>2, <3>1
      <3> QED BY <2>2, <3>1, <3>2, ExceptSeq
    <2>4. /\ z \in Seq(T) /\ Len(z) = Len(x) /\ z[Len(x)] = v
          /\ \A k \in 1..Len(t) : z[k] = t[k]
      BY <1>6, <2>1, <2>2
    <2>5. \A k \in 1..Len(x) : k = Len(x) \/ k \in 1..Len(t)
      BY <1>6
    <2>6. \A k \in 1..Len(y) : y[k] = z[k]
      BY <2>2, <2>3, <2>4, <2>5
    <2>7. y = z
      BY <2>3, <2>4, <2>6, SeqEqual
    <2> QED BY <2>1, <2>7
  <1>8. [ s EXCEPT !.texts[Len(s.texts)] = Append(@, c), !.mode = "in" ] = At(shape, y, "in")
    <2>1. WithTexts(s, y, "in") = At(shape, y, "in")
      BY <1>1, TextsAndMode
    <2>2. y = [ s.texts EXCEPT ![Len(s.texts)] = Append(@, c) ]
      BY <1>2, <1>5, <1>6
    <2>3. [ s EXCEPT !.texts[Len(s.texts)] = Append(@, c), !.mode = "in" ]
            = WithTexts(s, y, "in")
      BY <2>2 DEF WithTexts
    <2> QED BY <2>1, <2>3
  <1> QED BY <1>1, <1>4, <1>5, <1>7, <1>8

\* The reader stays among its states.
LEMMA ReaderTyped ==
    ASSUME NEW C, NEW s \in ReaderStates(C), NEW c \in C
    PROVE  ReadChar(s, c) \in ReaderStates(C)
  <1>1. s.shape \in Seq(C) /\ s.texts \in Seq(Seq(C)) /\ s.mode \in ReaderModes
          /\ s = At(s.shape, s.texts, s.mode)
    BY DEF ReaderStates, At
  <1>2. Append(s.shape, c) \in Seq(C) /\ Append(s.texts, << >>) \in Seq(Seq(C))
    BY <1>1
  <1>3. CASE s.mode = "out" /\ c = Quote
    <2>1. ReadChar(s, c) = At(Append(s.shape, c), Append(s.texts, << >>), "in")
      BY <1>1, <1>3, ReadsOpening
    <2> QED BY <1>2, <2>1 DEF ReaderStates, At, ReaderModes
  <1>4. CASE s.mode = "in" /\ c = Quote
    <2>1. ReadChar(s, c) = At(s.shape, s.texts, "closing")
      BY <1>1, <1>4, ReadsClosing
    <2> QED BY <1>1, <2>1 DEF ReaderStates, At, ReaderModes
  <1>5. CASE s.mode \in { "out", "closing" } /\ c # Quote
    <2>1. ReadChar(s, c) = At(Append(s.shape, c), s.texts, "out")
      BY <1>1, <1>5, ReadsOut
    <2> QED BY <1>1, <1>2, <2>1 DEF ReaderStates, At, ReaderModes
  <1>6. CASE (s.mode = "in" /\ c # Quote) \/ (s.mode = "closing" /\ c = Quote)
    <2>1. ReadChar(s, c) = [ s EXCEPT !.texts[Len(s.texts)] = Append(@, c), !.mode = "in" ]
      BY <1>6, Zenon DEF ReadChar
    <2>2. PICK x, y : x = s.texts /\ y = [ x EXCEPT ![Len(x)] = Append(@, c) ]
      OBVIOUS
    <2>3. y \in Seq(Seq(C))
      <3>1. x \in Seq(Seq(C)) /\ Len(x) \in Nat
        BY <1>1, <2>2
      <3>2. CASE Len(x) = 0
        <4>1. x = << >> /\ DOMAIN x = {}
          BY <3>1, <3>2, EmptySeq, LenProperties
        <4>2. y = x
          BY <2>2, <4>1
        <4> QED BY <3>1, <4>2
      <3>3. CASE Len(x) # 0
        <4>1. Len(x) \in 1..Len(x) /\ x[Len(x)] \in Seq(C)
          BY <3>1, <3>3
        <4>2. Append(x[Len(x)], c) \in Seq(C)
          BY <4>1
        <4> QED BY <2>2, <3>1, <4>1, <4>2
      <3> QED BY <3>2, <3>3
    <2>4. ReadChar(s, c) = At(s.shape, y, "in")
      BY <1>1, <2>1, <2>2 DEF At
    <2> QED BY <1>1, <2>3, <2>4 DEF ReaderStates, At, ReaderModes
  <1> QED BY <1>1, <1>3, <1>4, <1>5, <1>6 DEF ReaderModes

Start == At(<< >>, << >>, "out")

\* The states along a path.
ReadsAlong(f, path, C) ==
    /\ f \in [ 0..Len(path) -> ReaderStates(C) ]
    /\ f[0] = Start
    /\ \A n \in 1..Len(path) : f[n] = ReadChar(f[n - 1], path[n])

\* Reading is the last of the states along the path.
LEMMA ReadingIs ==
    ASSUME NEW C, NEW path \in Seq(C)
    PROVE  \E f : ReadsAlong(f, path, C) /\ Reading(path) = f[Len(path)]
  <1>1. PICK N, T : N = Len(path) /\ T = ReaderStates(C)
    OBVIOUS
  <1>0. N \in Nat
    BY <1>1
  <1>2. PICK G : G = [ p \in (1..N) \X T |-> ReadChar(p[2], path[p[1]]) ]
    OBVIOUS
  <1>3. \A n \in 1..N : \A s \in T : G[<< n, s >>] = ReadChar(s, path[n]) /\ G[<< n, s >>] \in T
    <2> SUFFICES ASSUME NEW n \in 1..N, NEW s \in T
                 PROVE  G[<< n, s >>] = ReadChar(s, path[n]) /\ G[<< n, s >>] \in T
      OBVIOUS
    <2>1. G[<< n, s >>] = ReadChar(s, path[n])
      BY <1>2
    <2>2. path[n] \in C
      BY <1>1
    <2> QED BY <1>1, <2>1, <2>2, ReaderTyped
  <1>4. G \in [ (1..N) \X T -> T ]
    <2>1. \A p \in (1..N) \X T : G[p] \in T
      BY <1>3
    <2>2. G = [ p \in (1..N) \X T |-> G[p] ]
      BY <1>2
    <2> QED BY <2>1, <2>2
  <1>5. Start \in T
    BY <1>1 DEF Start, At, ReaderStates, ReaderModes
  <1>r. PICK f : Recurs(f, N, T, Start, G)
    BY <1>0, <1>4, <1>5, RecursionExists
  <1>6. /\ f \in [ 0..N -> T ] /\ f[0] = Start
        /\ \A n \in 1..N : f[n] = G[<< n, f[n - 1] >>]
    BY <1>r DEF Recurs
  <1>7. \A n \in 1..N : n - 1 \in 0..N
    BY <1>0
  <1>8. \A n \in 1..N : f[n] = ReadChar(f[n - 1], path[n])
    BY <1>3, <1>6, <1>7
  <1>9. ReadsAlong(f, path, C)
    BY <1>1, <1>6, <1>8 DEF ReadsAlong
  <1> DEFINE Reads(g) == g = [ n \in 0..N |-> IF n = 0 THEN Start ELSE ReadChar(g[n - 1], path[n]) ]
             F == CHOOSE g : Reads(g)
  <1>10. Reading(path) = F[N]
    BY <1>1 DEF Reading, Start, At
  <1>11. Reads(f)
    <2>1. f = [ n \in 0..N |-> f[n] ]
      BY <1>6
    <2>2. \A n \in 0..N : f[n] = IF n = 0 THEN Start ELSE ReadChar(f[n - 1], path[n])
      BY <1>0, <1>6, <1>8
    <2> QED BY <2>1, <2>2
  <1>12. Reads(F)
    <2> HIDE DEF Reads
    <2> QED BY <1>11
  <1> HIDE DEF F
  <1>13. \A n \in 0..N : F[n] = IF n = 0 THEN Start ELSE ReadChar(F[n - 1], path[n])
    BY <1>12
  <1> HIDE DEF Reads
  <1>14. AgreeUpTo(F, f, N)
    <2>1. F[0] = f[0]
      BY <1>0, <1>6, <1>13
    <2>2. \A n \in 1..N : F[n - 1] = f[n - 1] => F[n] = f[n]
      BY <1>0, <1>8, <1>13
    <2>3. GoTogether(F, f, N)
      BY <2>1, <2>2 DEF GoTogether
    <2> QED BY <1>0, <2>3, StayTogether
  <1>15. F[N] = f[N]
    BY <1>0, <1>14 DEF AgreeUpTo
  <1> QED BY <1>1, <1>9, <1>10, <1>15

\* One character more is one step of the reader more.
LEMMA ReadingGoesOn ==
    ASSUME NEW C, NEW path \in Seq(C), NEW c \in C
    PROVE  Reading(Append(path, c)) = ReadChar(Reading(path), c)
  <1>1. PICK f : ReadsAlong(f, path, C) /\ Reading(path) = f[Len(path)]
    BY ReadingIs
  <1>2. PICK longer, N : longer = Append(path, c) /\ N = Len(path)
    OBVIOUS
  <1>3. /\ longer \in Seq(C) /\ Len(longer) = N + 1 /\ longer[N + 1] = c /\ N \in Nat
        /\ \A n \in 1..N : longer[n] = path[n]
    BY <1>2
  <1>4. PICK g : ReadsAlong(g, longer, C) /\ Reading(longer) = g[Len(longer)]
    BY <1>3, ReadingIs
  <1>5. f[0] = Start /\ g[0] = Start
    BY <1>1, <1>4 DEF ReadsAlong
  <1>6. \A n \in 1..N : f[n] = ReadChar(f[n - 1], path[n]) /\ g[n] = ReadChar(g[n - 1], path[n])
    <2>1. \A n \in 1..N : n \in 1..N + 1
      BY <1>3
    <2> QED BY <1>1, <1>2, <1>3, <1>4, <2>1 DEF ReadsAlong
  <1>7. AgreeUpTo(g, f, N)
    <2>1. GoTogether(g, f, N)
      BY <1>5, <1>6 DEF GoTogether
    <2> QED BY <1>3, <2>1, StayTogether
  <1>8. g[N + 1] = ReadChar(g[N], longer[N + 1])
    <2>1. N + 1 \in 1..Len(longer) /\ (N + 1) - 1 = N
      BY <1>3
    <2>2. g[N + 1] = ReadChar(g[(N + 1) - 1], longer[N + 1])
      BY <1>4, <2>1 DEF ReadsAlong
    <2> QED BY <2>1, <2>2
  <1>9. g[N] = f[N]
    BY <1>3, <1>7 DEF AgreeUpTo
  <1> QED BY <1>1, <1>2, <1>3, <1>4, <1>8, <1>9

\* Putting sequences together, one character at a time or whole.
LEMMA AppendAcross ==
    ASSUME NEW R, NEW p \in Seq(R), NEW h \in Seq(R), NEW c \in R
    PROVE  h \o << c >> = Append(h, c) /\ p \o Append(h, c) = Append(p \o h, c)
  OBVIOUS

LEMMA TwoAcross ==
    ASSUME NEW R, NEW p \in Seq(R), NEW h \in Seq(R), NEW a \in R, NEW b \in R
    PROVE  p \o (h \o << a, b >>) = Append(Append(p \o h, a), b)
  <1>1. h \o << a, b >> = Append(Append(h, a), b)
    OBVIOUS
  <1>2. PICK x, y : x = Append(h, a) /\ y = p \o h
    OBVIOUS
  <1>3. x \in Seq(R) /\ p \o x = Append(y, a)
    BY <1>2, AppendAcross
  <1>4. p \o Append(x, b) = Append(p \o x, b)
    BY <1>3, AppendAcross, SMTT(40)
  <1> QED BY <1>1, <1>2, <1>3, <1>4

LEMMA Across ==
    ASSUME NEW R, NEW p \in Seq(R), NEW h \in Seq(R), NEW v \in Seq(R)
    PROVE  h \o v \in Seq(R) /\ p \o (h \o v) = (p \o h) \o v
  OBVIOUS

LEMMA ListIs ==
    ASSUME NEW R, NEW n \in Nat, NEW f \in [ 1..n -> R ]
    PROVE  f \in Seq(R) /\ Len(f) = n
  OBVIOUS

\* A prefix, one element longer.
LEMMA PrefixGrows ==
    ASSUME NEW R, NEW w \in Seq(R), NEW i \in 1..Len(w)
    PROVE  SubSeq(w, 1, i) = Append(SubSeq(w, 1, i - 1), w[i])
  <1>1. PICK m : m = i - 1
    OBVIOUS
  <1>2. m \in 0..Len(w) /\ i = m + 1 /\ w[i] \in R
    BY <1>1
  <1>3. PICK u, v : u = SubSeq(w, 1, m) /\ v = SubSeq(w, 1, i)
    OBVIOUS
  <1>4. u \in Seq(R) /\ v \in Seq(R) /\ Len(u) = m /\ Len(v) = m + 1
          /\ \A k \in 1..m : u[k] = w[k] /\ v[k] = w[k]
    BY <1>2, <1>3
  <1>5. v[m + 1] = w[i]
    BY <1>2, <1>3
  <1>6. v = Append(u, w[i])
    <2>1. PICK z : z = Append(u, w[i])
      OBVIOUS
    <2>2. z \in Seq(R) /\ Len(z) = m + 1 /\ z[m + 1] = w[i] /\ \A k \in 1..m : z[k] = u[k]
      BY <1>2, <1>4, <2>1
    <2>3. \A k \in 1..m + 1 : k = m + 1 \/ k \in 1..m
      BY <1>2
    <2>4. \A k \in 1..Len(v) : v[k] = z[k]
      BY <1>4, <1>5, <2>2, <2>3
    <2>5. v = z
      BY <1>4, <2>2, <2>4, SeqEqual
    <2> QED BY <2>1, <2>5
  <1> QED BY <1>1, <1>3, <1>6

\* Outside the literals, with no quote, a path says what it is.
LEMMA ReadsPlain ==
    ASSUME NEW C, NEW p \in Seq(C), NEW w \in Seq(C \ { Quote }), NEW shape \in Seq(C),
           NEW texts, Reading(p) = At(shape, texts, "out")
    PROVE  Reading(p \o w) = At(shape \o w, texts, "out")
  <1> DEFINE Up(i) == SubSeq(w, 1, i)
  <1>1. PICK good : good = { i \in 0..Len(w) : Reading(p \o Up(i)) = At(shape \o Up(i), texts, "out") }
    OBVIOUS
  <1>3. 0 \in good
    <2>1. Up(0) = << >>
      OBVIOUS
    <2>2. p \o << >> = p /\ shape \o << >> = shape
      OBVIOUS
    <2>3. Len(w) \in Nat
      OBVIOUS
    <2> HIDE DEF Up
    <2>4. Reading(p \o Up(0)) = At(shape \o Up(0), texts, "out")
      BY <2>1, <2>2
    <2>5. 0 \in 0..Len(w)
      BY <2>3
    <2> QED BY <1>1, <2>4, <2>5
  <1>4. ASSUME NEW k \in 1..Len(w), k - 1 \in good
        PROVE  k \in good
    <2>4. PICK m, c : m = k - 1 /\ c = w[k]
      OBVIOUS
    <2>5. m \in 0..Len(w) /\ k \in 0..Len(w) /\ c \in C /\ c # Quote
      BY <2>4
    <2>7. Reading(p \o Up(m)) = At(shape \o Up(m), texts, "out")
      BY <1>1, <1>4, <2>4
    <2>8. p \o Up(k) = Append(p \o Up(m), c) /\ shape \o Up(k) = Append(shape \o Up(m), c)
      <3>1. PICK u : u = Up(m)
        OBVIOUS
      <3>2. u \in Seq(C)
        BY <2>5, <3>1
      <3>3. SubSeq(w, 1, k) = Append(SubSeq(w, 1, k - 1), w[k])
        BY <2>5, PrefixGrows
      <3>4. Up(k) = Append(u, c)
        BY <2>4, <3>1, <3>3
      <3>5. p \o Append(u, c) = Append(p \o u, c)
        BY <2>5, <3>2, AppendAcross
      <3>6. shape \o Append(u, c) = Append(shape \o u, c)
        BY <2>5, <3>2, AppendAcross
      <3> HIDE DEF Up
      <3> QED BY <3>1, <3>4, <3>5, <3>6
    <2>9. PICK q : q = p \o Up(m)
      OBVIOUS
    <2>10. q \in Seq(C)
      <3>1. Up(m) \in Seq(C)
        BY <2>5
      <3> HIDE DEF Up
      <3> QED BY <2>9, <3>1
    <2> HIDE DEF Up
    <2>11. Reading(Append(q, c)) = ReadChar(Reading(q), c)
      BY <2>5, <2>10, ReadingGoesOn
    <2>12. ReadChar(At(shape \o Up(m), texts, "out"), c) = At(Append(shape \o Up(m), c), texts, "out")
      BY <2>5, ReadsOut
    <2> QED BY <1>1, <2>5, <2>7, <2>8, <2>9, <2>11, <2>12
  <1>2. Len(w) \in Nat /\ Up(Len(w)) = w
    OBVIOUS
  <1>5. \A k \in 0..Len(w) : k \in good
    BY <1>2, <1>3, <1>4, Climbs
  <1> HIDE DEF Up
  <1> QED BY <1>1, <1>2, <1>5

\* A key with its quotes is a path.
LEMMA QuotedIsPath ==
    ASSUME NEW C, Quote \in C, NEW key \in Seq(C)
    PROVE  QuoteKey(key) \in Seq(C)
  <1>1. PICK pieces : pieces = [ i \in 1..Len(key) |->
                                   IF key[i] = Quote THEN << Quote, Quote >> ELSE << key[i] >> ]
    OBVIOUS
  <1>0. Len(key) \in Nat
    OBVIOUS
  <1>2. pieces \in Seq(Seq(C)) /\ Len(pieces) = Len(key)
    <2>1. \A i \in 1..Len(key) : (IF key[i] = Quote THEN << Quote, Quote >> ELSE << key[i] >>) \in Seq(C)
      OBVIOUS
    <2>2. pieces \in [ 1..Len(key) -> Seq(C) ]
      BY <1>1, <2>1
    <2>3. PICK n, T : n = Len(key) /\ T = Seq(C)
      OBVIOUS
    <2>4. pieces \in Seq(T) /\ Len(pieces) = n
      BY <1>0, <2>2, <2>3, ListIs
    <2> QED BY <2>3, <2>4
  <1>3. PICK f : JoinedUpTo(f, pieces, C) /\ FlattenSeq(pieces) = f[Len(pieces)]
    BY <1>2, FlattenIs
  <1>4. PICK h : h = FlattenSeq(pieces)
    OBVIOUS
  <1>5. h \in Seq(C)
    BY <1>0, <1>2, <1>3, <1>4 DEF JoinedUpTo
  <1>6. << Quote >> \o h \o << Quote >> \in Seq(C)
    BY <1>5
  <1> QED BY <1>1, <1>4, <1>6 DEF QuoteKey

\* _quote_key's literal says the key, whatever the quotes in it.
LEMMA ReadsQuoted ==
    ASSUME NEW C, Quote \in C, NEW p \in Seq(C), NEW key \in Seq(C), NEW shape,
           NEW texts \in Seq(Seq(C)), Reading(p) = At(shape, texts, "out")
    PROVE  Reading(p \o QuoteKey(key)) = At(Append(shape, Quote), Append(texts, key), "closing")
  <1>1. PICK pieces : pieces = [ i \in 1..Len(key) |->
                                   IF key[i] = Quote THEN << Quote, Quote >> ELSE << key[i] >> ]
    OBVIOUS
  <1>0. Len(key) \in Nat
    OBVIOUS
  <1>2. pieces \in Seq(Seq(C)) /\ Len(pieces) = Len(key)
    <2>1. \A i \in 1..Len(key) : (IF key[i] = Quote THEN << Quote, Quote >> ELSE << key[i] >>) \in Seq(C)
      OBVIOUS
    <2>2. pieces \in [ 1..Len(key) -> Seq(C) ]
      BY <1>1, <2>1
    <2>3. PICK n, T : n = Len(key) /\ T = Seq(C)
      OBVIOUS
    <2>4. pieces \in Seq(T) /\ Len(pieces) = n
      BY <1>0, <2>2, <2>3, ListIs
    <2> QED BY <2>3, <2>4
  <1>3. PICK f : JoinedUpTo(f, pieces, C) /\ FlattenSeq(pieces) = f[Len(pieces)]
    BY <1>2, FlattenIs
  <1>4. /\ f[0] = << >> /\ \A n \in 0..Len(key) : f[n] \in Seq(C)
        /\ \A n \in 1..Len(key) : f[n] = f[n - 1] \o pieces[n]
    BY <1>2, <1>3 DEF JoinedUpTo
  <1>5. PICK q, open : q = Append(p, Quote) /\ open = Append(shape, Quote)
    OBVIOUS
  <1>6. q \in Seq(C)
    BY <1>5
  <1>7. Reading(q) = At(open, Append(texts, << >>), "in")
    <2>1. Reading(Append(p, Quote)) = ReadChar(Reading(p), Quote)
      BY ReadingGoesOn
    <2> QED BY <1>5, <2>1, ReadsOpening
  <1> DEFINE Up(i) == SubSeq(key, 1, i)
  <1>8. PICK good : good = { i \in 0..Len(key) :
                             Reading(q \o f[i]) = At(open, Append(texts, Up(i)), "in") }
    OBVIOUS
  <1>16. 0 \in good
    <2>1. Up(0) = << >>
      OBVIOUS
    <2>2. q \o << >> = q
      BY <1>6
    <2> HIDE DEF Up
    <2>3. Reading(q \o f[0]) = At(open, Append(texts, Up(0)), "in")
      BY <1>4, <1>7, <2>1, <2>2
    <2>4. 0 \in 0..Len(key)
      BY <1>0
    <2> QED BY <1>8, <2>3, <2>4
  <1>17. ASSUME NEW k \in 1..Len(key), k - 1 \in good
         PROVE  k \in good
    <2>4. PICK m, c : m = k - 1 /\ c = key[k]
      OBVIOUS
    <2>5. m \in 0..Len(key) /\ k \in 0..Len(key) /\ c \in C
      BY <2>4
    <2>7. Reading(q \o f[m]) = At(open, Append(texts, Up(m)), "in")
      BY <1>8, <1>17, <2>4
    <2>8. Up(k) = Append(Up(m), c)
      <3>1. SubSeq(key, 1, k) = Append(SubSeq(key, 1, k - 1), key[k])
        BY <2>5, PrefixGrows
      <3> QED BY <2>4, <3>1
    <2>9. Up(m) \in Seq(C)
      BY <2>5
    <2>10. f[k] = f[m] \o pieces[k] /\ f[m] \in Seq(C)
      BY <1>4, <2>4, <2>5
    <2>11. PICK r, u : r = q \o f[m] /\ u = Up(m)
      OBVIOUS
    <2> HIDE DEF Up
    <2>12. r \in Seq(C) /\ u \in Seq(C)
      BY <1>6, <2>9, <2>10, <2>11
    <2>13. CASE c = Quote
      <3>1. pieces[k] = << Quote, Quote >>
        BY <1>1, <2>4, <2>5, <2>13
      <3>2. PICK h : h = f[m]
        OBVIOUS
      <3>3. q \o (h \o << Quote, Quote >>) = Append(Append(q \o h, Quote), Quote)
        <4>1. q \in Seq(C) /\ h \in Seq(C) /\ Quote \in C
          BY <1>6, <2>5, <2>10, <2>13, <3>2
        <4> QED BY <4>1, TwoAcross, SMTT(40)
      <3>4. q \o f[k] = Append(Append(r, Quote), Quote)
        BY <2>10, <2>11, <3>1, <3>2, <3>3
      <3>5. Append(r, Quote) \in Seq(C)
        BY <2>12
      <3>6. Reading(Append(r, Quote)) = At(open, Append(texts, u), "closing")
        <4>1. Reading(Append(r, Quote)) = ReadChar(Reading(r), Quote)
          BY <2>12, ReadingGoesOn
        <4> QED BY <2>7, <2>11, <4>1, ReadsClosing
      <3>7. Reading(Append(Append(r, Quote), Quote)) = At(open, Append(texts, Append(u, Quote)), "in")
        <4>1. Reading(Append(Append(r, Quote), Quote)) = ReadChar(Reading(Append(r, Quote)), Quote)
          BY <3>5, ReadingGoesOn
        <4>2. ReadChar(At(open, Append(texts, u), "closing"), Quote)
                = At(open, Append(texts, Append(u, Quote)), "in")
          BY <2>12, ReadsInside
        <4> QED BY <3>6, <4>1, <4>2
      <3> QED BY <1>8, <2>5, <2>8, <2>11, <2>13, <3>4, <3>7
    <2>14. CASE c # Quote
      <3>1. pieces[k] = << c >>
        BY <1>1, <2>4, <2>5, <2>14
      <3>2. PICK h : h = f[m]
        OBVIOUS
      <3>3. q \o (h \o << c >>) = Append(q \o h, c)
        BY <1>6, <2>5, <2>10, <3>2, AppendAcross, SMTT(40)
      <3>4. q \o f[k] = Append(r, c)
        BY <2>10, <2>11, <3>1, <3>2, <3>3
      <3>5. Reading(Append(r, c)) = ReadChar(Reading(r), c)
        BY <2>5, <2>12, ReadingGoesOn
      <3>6. ReadChar(At(open, Append(texts, u), "in"), c)
              = At(open, Append(texts, Append(u, c)), "in")
        BY <2>5, <2>12, <2>14, ReadsInside
      <3> QED BY <1>8, <2>5, <2>7, <2>8, <2>11, <3>4, <3>5, <3>6
    <2> QED BY <2>13, <2>14
  <1>9. Len(key) \in 0..Len(key) /\ Up(Len(key)) = key
    OBVIOUS
  <1>18. \A k \in 0..Len(key) : k \in good
    BY <1>0, <1>16, <1>17, Climbs
  <1> HIDE DEF Up
  <1>10. PICK h : h = f[Len(key)]
    OBVIOUS
  <1>11. h \in Seq(C) /\ Reading(q \o h) = At(open, Append(texts, key), "in")
    BY <1>4, <1>8, <1>9, <1>10, <1>18
  <1>12. QuoteKey(key) = << Quote >> \o h \o << Quote >>
    BY <1>1, <1>2, <1>3, <1>10 DEF QuoteKey
  <1>13. p \o (<< Quote >> \o h \o << Quote >>) = Append(Append(p, Quote) \o h, Quote)
    BY <1>11
  <1>14. Reading(Append(q \o h, Quote)) = ReadChar(Reading(q \o h), Quote)
    <2>1. q \o h \in Seq(C)
      BY <1>6, <1>11
    <2> QED BY <2>1, ReadingGoesOn
  <1> QED BY <1>5, <1>11, <1>12, <1>13, <1>14, ReadsClosing

\* The strings among the parameters so far.
StringsUpTo(f, params, C) ==
    /\ f \in [ 0..Len(params) -> Seq(Seq(C)) ]
    /\ f[0] = << >>
    /\ \A n \in 1..Len(params) :
          f[n] = IF params[n][2] = "string" THEN Append(f[n - 1], params[n][3]) ELSE f[n - 1]

\* Strings is the last of them.
LEMMA StringsIs ==
    ASSUME NEW C, NEW params, Len(params) \in Nat,
           \A n \in 1..Len(params) : params[n][3] \in Seq(C)
    PROVE  \E f : StringsUpTo(f, params, C) /\ Strings(params) = f[Len(params)]
  <1>1. PICK N, T : N = Len(params) /\ T = Seq(Seq(C))
    OBVIOUS
  <1>0. N \in Nat
    BY <1>1
  <1> DEFINE Adds(n, x) == IF params[n][2] = "string" THEN Append(x, params[n][3]) ELSE x
  <1>2. PICK G : G = [ p \in (1..N) \X T |-> Adds(p[1], p[2]) ]
    OBVIOUS
  <1>3. \A n \in 1..N : \A x \in T : G[<< n, x >>] = Adds(n, x) /\ G[<< n, x >>] \in T
    <2> SUFFICES ASSUME NEW n \in 1..N, NEW x \in T
                 PROVE  G[<< n, x >>] = Adds(n, x) /\ G[<< n, x >>] \in T
      OBVIOUS
    <2>1. G[<< n, x >>] = Adds(n, x)
      <3> HIDE DEF Adds
      <3> QED BY <1>2
    <2>2. PICK y : y = params[n][3]
      OBVIOUS
    <2>3. y \in Seq(C) /\ x \in Seq(Seq(C))
      BY <1>1, <2>2
    <2>4. Append(x, y) \in Seq(Seq(C))
      BY <2>3
    <2> QED BY <1>1, <2>1, <2>2, <2>3, <2>4
  <1> HIDE DEF Adds
  <1>4. G \in [ (1..N) \X T -> T ]
    <2>1. \A p \in (1..N) \X T : G[p] \in T
      BY <1>3
    <2>2. G = [ p \in (1..N) \X T |-> G[p] ]
      BY <1>2
    <2> QED BY <2>1, <2>2
  <1>5. << >> \in T
    BY <1>1
  <1>r. PICK f : Recurs(f, N, T, << >>, G)
    BY <1>0, <1>4, <1>5, RecursionExists
  <1>6. /\ f \in [ 0..N -> T ] /\ f[0] = << >>
        /\ \A n \in 1..N : f[n] = G[<< n, f[n - 1] >>]
    BY <1>r DEF Recurs
  <1>7. \A n \in 1..N : n - 1 \in 0..N
    BY <1>0
  <1>8. \A n \in 1..N : f[n] = Adds(n, f[n - 1])
    BY <1>3, <1>6, <1>7
  <1>9. StringsUpTo(f, params, C)
    BY <1>1, <1>6, <1>8 DEF StringsUpTo, Adds
  <1> DEFINE Builds(g) == g = [ n \in 0..N |-> IF n = 0 THEN << >> ELSE Adds(n, g[n - 1]) ]
             F == CHOOSE g : Builds(g)
  <1>10. Strings(params) = F[N]
    BY <1>1 DEF Strings, Adds
  <1>11. Builds(f)
    <2>1. f = [ n \in 0..N |-> f[n] ]
      BY <1>6
    <2>2. \A n \in 0..N : f[n] = IF n = 0 THEN << >> ELSE Adds(n, f[n - 1])
      BY <1>0, <1>6, <1>8
    <2> QED BY <2>1, <2>2
  <1>12. Builds(F)
    <2> HIDE DEF Builds
    <2> QED BY <1>11
  <1> HIDE DEF F
  <1>13. \A n \in 0..N : F[n] = IF n = 0 THEN << >> ELSE Adds(n, F[n - 1])
    BY <1>12
  <1> HIDE DEF Builds
  <1>14. AgreeUpTo(F, f, N)
    <2>1. F[0] = f[0]
      BY <1>0, <1>6, <1>13
    <2>2. \A n \in 1..N : F[n - 1] = f[n - 1] => F[n] = f[n]
      BY <1>0, <1>8, <1>13
    <2>3. GoTogether(F, f, N)
      BY <2>1, <2>2 DEF GoTogether
    <2> QED BY <1>0, <2>3, StayTogether
  <1>15. F[N] = f[N]
    BY <1>0, <1>14 DEF AgreeUpTo
  <1> QED BY <1>1, <1>9, <1>10, <1>15

PathChars == Names \cup Chars \cup { Slash, Quote, "(", ")", ",", "=" }

Regrouped(C, p, h, a, b, v) ==
    /\ p \o (h \o (<< >> \o << a, b >> \o v)) = Append(Append(p \o h, a), b) \o v
    /\ \A c \in C : p \o (h \o (<< c >> \o << a, b >> \o v))
                      = Append(Append(Append(p \o h, c), a), b) \o v

\* The parts of a path may be put together in either order.
LEMMA RegroupedIs ==
    ASSUME NEW C, NEW p \in Seq(C), NEW h \in Seq(C), NEW a \in C, NEW b \in C, NEW v \in Seq(C)
    PROVE  Regrouped(C, p, h, a, b, v)
  <1>1. PICK ab : ab = << a, b >>
    OBVIOUS
  <1>2. ab \in Seq(C)
    BY <1>1
  <1>3. << >> \o ab = ab
    BY <1>2
  <1>4. PICK r : r = p \o h
    OBVIOUS
  <1>5. r \in Seq(C)
    BY <1>4
  <1>6. \A q \in Seq(C) : q \o ab = Append(Append(q, a), b)
    <2> SUFFICES ASSUME NEW q \in Seq(C) PROVE q \o ab = Append(Append(q, a), b)
      OBVIOUS
    <2> QED BY <1>1
  <1>7. \A w \in Seq(C) : p \o (h \o (w \o v)) = (r \o w) \o v
    <2> SUFFICES ASSUME NEW w \in Seq(C) PROVE p \o (h \o (w \o v)) = (r \o w) \o v
      OBVIOUS
    <2>1. PICK hw : hw = h \o w
      OBVIOUS
    <2>2. hw \in Seq(C) /\ h \o (w \o v) = hw \o v
      BY <2>1, Across
    <2>3. p \o (hw \o v) = (p \o hw) \o v
      BY <2>2, Across, SMTT(40)
    <2>4. p \o hw = r \o w
      BY <1>4, <2>1, Across, SMTT(40)
    <2> QED BY <2>2, <2>3, <2>4
  <1>8. p \o (h \o (<< >> \o ab \o v)) = Append(Append(r, a), b) \o v
    BY <1>2, <1>3, <1>5, <1>6, <1>7
  <1>9. ASSUME NEW c \in C
        PROVE  p \o (h \o (<< c >> \o ab \o v)) = Append(Append(Append(r, c), a), b) \o v
    <2>1. PICK w : w = << c >> \o ab
      OBVIOUS
    <2>2. w \in Seq(C)
      BY <1>2, <2>1
    <2>3. r \o w = Append(r, c) \o ab
      <3>1. PICK x : x = << c >>
        OBVIOUS
      <3>2. x \in Seq(C)
        BY <3>1
      <3>3. r \o x = Append(r, c)
        BY <1>5, <3>1, AppendAcross
      <3>4. r \o (x \o ab) = (r \o x) \o ab
        BY <1>2, <1>5, <3>2, Across, SMTT(40)
      <3> QED BY <2>1, <3>1, <3>3, <3>4
    <2>4. Append(r, c) \in Seq(C)
      BY <1>5
    <2> QED BY <1>6, <1>7, <2>1, <2>2, <2>3, <2>4
  <1> QED BY <1>1, <1>4, <1>8, <1>9 DEF Regrouped

\* A function's parameters: every string is read back as it was given, and
\* nothing of it as anything else.
LEMMA ReadsParams ==
    ASSUME NEW params \in Seq(Parameters), ~UnusableParam(params),
           NEW p \in Seq(PathChars), NEW shape \in Seq(PathChars),
           Reading(p) = At(shape, << >>, "out")
    PROVE  /\ RenderParams(params) \in Seq(PathChars)
           /\ \E s \in Seq(PathChars), mode \in { "out", "closing" } :
                 Reading(p \o RenderParams(params)) = At(s, Strings(params), mode)
  <1>C. PICK C, N : C = PathChars /\ N = Len(params)
    OBVIOUS
  <1>0. N \in Nat
    BY <1>C
  <1>l. PICK comma, equal, quote : comma = "," /\ equal = "=" /\ quote = Quote
    OBVIOUS
  <1>c. quote \in C /\ comma \in C /\ equal \in C /\ comma # Quote /\ equal # Quote
    BY <1>C, <1>l DEF PathChars, Quote
  <1>p. Plain \subseteq C /\ Chars \subseteq C /\ Quote \notin Plain
    BY <1>C, ToolConstants DEF PathChars, Names
  <1>1. ASSUME NEW i \in 1..N
        PROVE  /\ params[i][1] \in Plain /\ params[i][2] \in { "string", "number" }
               /\ params[i][3] \in Seq(C)
               /\ params[i][2] = "number" => params[i][3] \in Seq(C \ { Quote })
    <2>1. PICK q \in Parameters : q = params[i]
      BY <1>C
    <2>2. q[1] \in Plain /\ q[2] # "other"
      BY <1>C, <2>1 DEF UnusableParam
    <2>3. \/ q[2] = "string" /\ q[3] \in Seq(Chars)
          \/ q[2] \in { "number", "other" } /\ q[3] \in Seq(Chars \ { Quote })
      BY DEF Parameters
    <2>4. PICK w : w = q[3]
      OBVIOUS
    <2>5. w \in Seq(Chars) => w \in Seq(C)
      BY <1>p
    <2>6. w \in Seq(Chars \ { Quote }) => w \in Seq(C \ { Quote }) /\ w \in Seq(C)
      BY <1>p
    <2> QED BY <1>C, <2>1, <2>2, <2>3, <2>4, <2>5, <2>6
  <1>2. ASSUME NEW i \in 1..N
        PROVE  RenderValue(params[i]) \in Seq(C)
    <2>1. CASE params[i][2] = "string"
      <3>1. PICK key : key = params[i][3]
        OBVIOUS
      <3>2. key \in Seq(C)
        BY <1>1, <3>1
      <3>3. QuoteKey(key) \in Seq(C)
        BY <1>c, <1>l, <3>2, QuotedIsPath
      <3> QED BY <2>1, <3>1, <3>3 DEF RenderValue
    <2>2. CASE params[i][2] # "string"
      BY <1>1, <2>2 DEF RenderValue
    <2> QED BY <2>1, <2>2
  <1> DEFINE Written(i) == (IF i = 1 THEN << >> ELSE << comma >>)
                              \o << params[i][1], equal >> \o RenderValue(params[i])
  <1>3. PICK pieces : pieces = [ i \in 1..N |-> Written(i) ]
    OBVIOUS
  <1>4. ASSUME NEW i \in 1..N PROVE Written(i) \in Seq(C)
    <2>1. PICK a, v : a = params[i][1] /\ v = RenderValue(params[i])
      OBVIOUS
    <2>2. a \in C /\ v \in Seq(C)
      BY <1>1, <1>2, <1>p, <2>1
    <2>3. PICK w, ab : w = (IF i = 1 THEN << >> ELSE << comma >>) /\ ab = << a, equal >>
      OBVIOUS
    <2>4. w \in Seq(C) /\ ab \in Seq(C)
      BY <1>c, <2>2, <2>3
    <2>5. w \o ab \o v \in Seq(C)
      BY <2>2, <2>4
    <2> QED BY <2>1, <2>3, <2>5
  <1>5. RenderParams(params) = FlattenSeq(pieces)
    BY <1>C, <1>3, <1>l DEF RenderParams
  <1> HIDE DEF Written
  <1>6. pieces \in Seq(Seq(C)) /\ Len(pieces) = N
    <2>1. pieces \in [ 1..N -> Seq(C) ]
      BY <1>3, <1>4
    <2> QED BY <1>0, <2>1
  <1>7. PICK f : JoinedUpTo(f, pieces, C) /\ FlattenSeq(pieces) = f[Len(pieces)]
    BY <1>6, FlattenIs
  <1>8. /\ f[0] = << >> /\ \A n \in 0..N : f[n] \in Seq(C)
        /\ \A n \in 1..N : f[n] = f[n - 1] \o pieces[n]
    BY <1>6, <1>7 DEF JoinedUpTo
  <1>9. PICK g : StringsUpTo(g, params, C) /\ Strings(params) = g[Len(params)]
    BY <1>C, <1>0, <1>1, StringsIs
  <1>10. /\ g[0] = << >> /\ \A n \in 0..N : g[n] \in Seq(Seq(C))
         /\ \A n \in 1..N : g[n] = IF params[n][2] = "string" THEN Append(g[n - 1], params[n][3])
                                   ELSE g[n - 1]
    BY <1>C, <1>9 DEF StringsUpTo
  <1> DEFINE Reads(k) == \E s \in Seq(C), mode \in { "out", "closing" } :
                            /\ Reading(p \o f[k]) = At(s, g[k], mode)
                            /\ k = 0 => mode = "out"
  <1>11. PICK good : good = { k \in 0..N : Reads(k) }
    OBVIOUS
  <1>12. 0 \in good
    <2>1. p \o << >> = p
      OBVIOUS
    <2>2. Reading(p \o f[0]) = At(shape, g[0], "out")
      BY <1>8, <1>10, <2>1
    <2>3. shape \in Seq(C)
      BY <1>C
    <2>4. Reads(0)
      BY <2>2, <2>3
    <2> HIDE DEF Reads
    <2> QED BY <1>0, <1>11, <2>4
  <1>13. ASSUME NEW k \in 1..N, k - 1 \in good
         PROVE  k \in good
    <2>1. PICK m, r : m = k - 1 /\ r = p \o f[m]
      OBVIOUS
    <2>2. m \in 0..N /\ k \in 0..N /\ k # 0 /\ (k = 1 <=> m = 0)
      BY <1>0, <2>1
    <2>3. PICK s \in Seq(C), mode \in { "out", "closing" } :
             Reading(r) = At(s, g[m], mode) /\ (m = 0 => mode = "out")
      BY <1>11, <1>13, <2>1
    <2>4. PICK h, t : h = f[m] /\ t = g[m]
      OBVIOUS
    <2>5. h \in Seq(C) /\ t \in Seq(Seq(C)) /\ p \in Seq(C)
      BY <1>C, <1>8, <1>10, <2>2, <2>4
    <2>6. r \in Seq(C)
      BY <2>1, <2>4, <2>5
    <2>7. PICK a, v : a = params[k][1] /\ v = RenderValue(params[k])
      OBVIOUS
    <2>8. a \in C /\ a # Quote /\ v \in Seq(C)
      BY <1>1, <1>2, <1>p, <2>7
    <2>9. PICK r1 : r1 = IF k = 1 THEN r ELSE Append(r, comma)
      OBVIOUS
    <2>10. r1 \in Seq(C)
      BY <1>c, <2>6, <2>9
    <2>11. PICK s1 \in Seq(C) : Reading(r1) = At(s1, t, "out")
      <3>1. CASE k = 1
        BY <2>2, <2>3, <2>4, <2>9, <3>1
      <3>2. CASE k # 1
        <4>1. Reading(Append(r, comma)) = ReadChar(Reading(r), comma)
          BY <1>c, <2>6, ReadingGoesOn
        <4>2. ReadChar(At(s, t, mode), comma) = At(Append(s, comma), t, "out")
          BY <1>c, ReadsOut
        <4>3. Append(s, comma) \in Seq(C)
          BY <1>c
        <4> QED BY <2>3, <2>4, <2>9, <3>2, <4>1, <4>2, <4>3
      <3> QED BY <3>1, <3>2
    <2>12. PICK r2, s2 : r2 = Append(r1, a) /\ s2 = Append(s1, a)
      OBVIOUS
    <2>13. r2 \in Seq(C) /\ s2 \in Seq(C)
      BY <2>8, <2>10, <2>12
    <2>14. Reading(r2) = At(s2, t, "out")
      <3>1. Reading(Append(r1, a)) = ReadChar(Reading(r1), a)
        BY <2>8, <2>10, ReadingGoesOn
      <3>2. ReadChar(At(s1, t, "out"), a) = At(Append(s1, a), t, "out")
        BY <2>8, ReadsOut
      <3> QED BY <2>11, <2>12, <3>1, <3>2
    <2>15. PICK r3, s3 : r3 = Append(r2, equal) /\ s3 = Append(s2, equal)
      OBVIOUS
    <2>16. r3 \in Seq(C) /\ s3 \in Seq(C)
      BY <1>c, <2>13, <2>15
    <2>17. Reading(r3) = At(s3, t, "out")
      <3>1. Reading(Append(r2, equal)) = ReadChar(Reading(r2), equal)
        BY <1>c, <2>13, ReadingGoesOn
      <3>2. ReadChar(At(s2, t, "out"), equal) = At(Append(s2, equal), t, "out")
        BY <1>c, ReadsOut
      <3> QED BY <2>14, <2>15, <3>1, <3>2
    <2>18. p \o f[k] = r3 \o v
      <3>1. f[k] = h \o pieces[k]
        BY <1>8, <2>1, <2>4
      <3>2. pieces[k] = (IF k = 1 THEN << >> ELSE << comma >>) \o << a, equal >> \o v
        BY <1>3, <2>7 DEF Written
      <3>3. equal \in C /\ comma \in C
        BY <1>c
      <3>9. Regrouped(C, p, h, a, equal, v)
        BY <2>5, <2>8, <3>3, RegroupedIs
      <3>4. /\ p \o (h \o (<< >> \o << a, equal >> \o v)) = Append(Append(p \o h, a), equal) \o v
            /\ \A c \in C : p \o (h \o (<< c >> \o << a, equal >> \o v))
                              = Append(Append(Append(p \o h, c), a), equal) \o v
        BY <3>9 DEF Regrouped
      <3>5. r = p \o h
        BY <2>1, <2>4
      <3>6. CASE k = 1
        <4>1. r3 = Append(Append(p \o h, a), equal)
          BY <2>9, <2>12, <2>15, <3>5, <3>6
        <4>2. pieces[k] = << >> \o << a, equal >> \o v
          BY <3>2, <3>6
        <4> QED BY <3>1, <3>4, <4>1, <4>2
      <3>7. CASE k # 1
        <4>1. r3 = Append(Append(Append(p \o h, comma), a), equal)
          BY <2>9, <2>12, <2>15, <3>5, <3>7
        <4>2. pieces[k] = << comma >> \o << a, equal >> \o v
          BY <3>2, <3>7
        <4>3. p \o (h \o (<< comma >> \o << a, equal >> \o v))
                = Append(Append(Append(p \o h, comma), a), equal) \o v
          BY <3>3, <3>4
        <4> QED BY <3>1, <4>1, <4>2, <4>3
      <3> QED BY <3>6, <3>7
    <2>19. CASE params[k][2] = "string"
      <3>1. PICK key \in Seq(C) : key = params[k][3]
        BY <1>1
      <3>2. v = QuoteKey(key) /\ g[k] = Append(t, key)
        BY <1>10, <2>1, <2>4, <2>7, <2>19, <3>1 DEF RenderValue
      <3>3. Reading(r3 \o QuoteKey(key)) = At(Append(s3, Quote), Append(t, key), "closing")
        BY <1>c, <1>l, <2>5, <2>16, <2>17, ReadsQuoted, ZenonT(60)
      <3>4. Append(s3, quote) \in Seq(C)
        BY <1>c, <2>16
      <3>5. Reads(k)
        BY <1>l, <2>2, <2>18, <3>2, <3>3, <3>4
      <3> HIDE DEF Reads
      <3> QED BY <1>11, <2>2, <3>5
    <2>20. CASE params[k][2] # "string"
      <3>1. v \in Seq(C \ { Quote }) /\ v = params[k][3] /\ g[k] = t
        BY <1>1, <1>10, <2>1, <2>4, <2>7, <2>20 DEF RenderValue
      <3>2. Reading(r3 \o v) = At(s3 \o v, t, "out")
        BY <2>16, <2>17, <3>1, ReadsPlain
      <3>3. s3 \o v \in Seq(C)
        BY <2>8, <2>16
      <3>4. Reads(k)
        BY <2>2, <2>18, <3>1, <3>2, <3>3
      <3> HIDE DEF Reads
      <3> QED BY <1>11, <2>2, <3>4
    <2> QED BY <2>19, <2>20
  <1>14. \A k \in 0..N : k \in good
    BY <1>0, <1>12, <1>13, Climbs
  <1>15. Reads(N)
    BY <1>0, <1>11, <1>14
  <1>16. RenderParams(params) = f[N] /\ f[N] \in Seq(C)
    BY <1>0, <1>5, <1>6, <1>7, <1>8
  <1> QED BY <1>C, <1>9, <1>15, <1>16

\* Tuples, put together.
LEMMA ThreeAndOne ==
    ASSUME NEW C, NEW a \in C, NEW b \in C, NEW c \in C, NEW d \in C
    PROVE  Append(<< a, b, c >>, d) = << a, b, c, d >>
  <1>1. PICK x, y, z : x = << a, b, c >> /\ y = Append(x, d) /\ z = << a, b, c, d >>
    OBVIOUS
  <1>2. x \in Seq(C) /\ Len(x) = 3 /\ x[1] = a /\ x[2] = b /\ x[3] = c
    BY <1>1
  <1>3. z \in Seq(C) /\ Len(z) = 4 /\ z[1] = a /\ z[2] = b /\ z[3] = c /\ z[4] = d
    BY <1>1
  <1>4. y \in Seq(C) /\ Len(y) = 4 /\ y[1] = a /\ y[2] = b /\ y[3] = c /\ y[4] = d
    BY <1>1, <1>2
  <1>5. \A i \in 1..4 : i = 1 \/ i = 2 \/ i = 3 \/ i = 4
    OBVIOUS
  <1>6. \A i \in 1..Len(y) : y[i] = z[i]
    BY <1>3, <1>4, <1>5
  <1>7. y = z
    BY <1>3, <1>4, <1>6, SeqEqual
  <1> QED BY <1>1, <1>7

\* The same of four,
LEMMA FourAndOne ==
    ASSUME NEW C, NEW a \in C, NEW b \in C, NEW c \in C, NEW d \in C, NEW e \in C
    PROVE  Append(<< a, b, c, d >>, e) = << a, b, c, d, e >>
  <1>1. PICK x, y, z : x = << a, b, c, d >> /\ y = Append(x, e) /\ z = << a, b, c, d, e >>
    OBVIOUS
  <1>2. x \in Seq(C) /\ Len(x) = 4 /\ x[1] = a /\ x[2] = b /\ x[3] = c /\ x[4] = d
    BY <1>1
  <1>3. z \in Seq(C) /\ Len(z) = 5 /\ z[1] = a /\ z[2] = b /\ z[3] = c /\ z[4] = d /\ z[5] = e
    BY <1>1
  <1>4. y \in Seq(C) /\ Len(y) = 5 /\ y[1] = a /\ y[2] = b /\ y[3] = c /\ y[4] = d /\ y[5] = e
    BY <1>1, <1>2
  <1>5. \A i \in 1..5 : i = 1 \/ i = 2 \/ i = 3 \/ i = 4 \/ i = 5
    OBVIOUS
  <1>6. \A i \in 1..Len(y) : y[i] = z[i]
    BY <1>3, <1>4, <1>5
  <1>7. y = z
    BY <1>3, <1>4, <1>6, SeqEqual
  <1> QED BY <1>1, <1>7

\* and of five and two more.
LEMMA FiveAndTwo ==
    ASSUME NEW C, NEW a \in C, NEW b \in C, NEW c \in C, NEW d \in C, NEW e \in C,
           NEW f \in C, NEW g \in C
    PROVE  << a, b, c, d, e >> \o << f, g >> = << a, b, c, d, e, f, g >>
  <1>1. PICK x, w, y, z : /\ x = << a, b, c, d, e >> /\ w = << f, g >> /\ y = x \o w
                          /\ z = << a, b, c, d, e, f, g >>
    OBVIOUS
  <1>2. /\ x \in Seq(C) /\ Len(x) = 5 /\ x[1] = a /\ x[2] = b /\ x[3] = c /\ x[4] = d /\ x[5] = e
        /\ w \in Seq(C) /\ Len(w) = 2 /\ w[1] = f /\ w[2] = g
    BY <1>1
  <1>3. /\ z \in Seq(C) /\ Len(z) = 7 /\ z[1] = a /\ z[2] = b /\ z[3] = c /\ z[4] = d
        /\ z[5] = e /\ z[6] = f /\ z[7] = g
    BY <1>1
  <1>4. /\ y \in Seq(C) /\ Len(y) = 7 /\ y[1] = a /\ y[2] = b /\ y[3] = c /\ y[4] = d
        /\ y[5] = e /\ y[6] = f /\ y[7] = g
    BY <1>1, <1>2
  <1>5. \A i \in 1..7 : i = 1 \/ i = 2 \/ i = 3 \/ i = 4 \/ i = 5 \/ i = 6 \/ i = 7
    OBVIOUS
  <1>6. \A i \in 1..Len(y) : y[i] = z[i]
    BY <1>3, <1>4, <1>5
  <1>7. y = z
    BY <1>3, <1>4, <1>6, SeqEqual
  <1> QED BY <1>1, <1>7

\* An empty path.
LEMMA ReadsNothing ==
    ASSUME NEW C
    PROVE  Reading(<< >>) = At(<< >>, << >>, "out")
  <1>1. PICK path : path = << >>
    OBVIOUS
  <1>2. path \in Seq(C) /\ Len(path) = 0
    BY <1>1
  <1>3. PICK f : ReadsAlong(f, path, C) /\ Reading(path) = f[Len(path)]
    BY <1>2, ReadingIs
  <1> QED BY <1>1, <1>2, <1>3 DEF ReadsAlong, Start

\* Of a path that begins with the name of an entity set or a function.
LEMMA ReadsName ==
    ASSUME NEW e \in Plain, NEW w, w = << Slash, e, "(" >>
    PROVE  w \in Seq(PathChars) /\ Reading(w) = At(w, << >>, "out")
  <1>1. PICK C : C = PathChars
    OBVIOUS
  <1>2. PICK a, b : a = Slash /\ b = "("
    OBVIOUS
  <1>3. a \in C /\ b \in C /\ e \in C /\ a # Quote /\ b # Quote /\ e # Quote
    BY <1>1, <1>2, ToolConstants DEF PathChars, Names, Slash, Quote
  <1>4. w \in Seq(C \ { Quote }) /\ w \in Seq(C)
    BY <1>2, <1>3
  <1>5. PICK empty : empty = << >>
    OBVIOUS
  <1>6. empty \in Seq(C) /\ empty \o w = w
    BY <1>4, <1>5
  <1>7. Reading(empty) = At(empty, << >>, "out")
    BY <1>5, ReadsNothing
  <1>8. Reading(empty \o w) = At(empty \o w, << >>, "out")
    BY <1>4, <1>6, <1>7, ReadsPlain
  <1> QED BY <1>1, <1>4, <1>6, <1>8

\* A record's path: the key is read back whole, whatever its quotes.
LEMMA ReadsRecord ==
    ASSUME NEW a, a.entity \in Plain, a.key \in Seq(Chars)
    PROVE  /\ Record(a) \in Seq(PathChars)
           /\ Reading(Record(a)) = At(<< Slash, a.entity, "(", Quote, ")" >>, << a.key >>, "out")
  <1>1. PICK C, e, key, w, q : C = PathChars /\ e = a.entity /\ key = a.key
                                /\ w = << Slash, e, "(" >> /\ q = QuoteKey(key)
    OBVIOUS
  <1>2. w \in Seq(C) /\ Reading(w) = At(w, << >>, "out")
    BY <1>1, ReadsName
  <1>3. PICK quote, close : quote = Quote /\ close = ")"
    OBVIOUS
  <1>4. quote \in C /\ close \in C /\ close # Quote
    BY <1>1, <1>3 DEF PathChars, Quote
  <1>5. key \in Seq(C)
    <2>1. Chars \subseteq C
      BY <1>1 DEF PathChars
    <2>2. key \in Seq(Chars)
      BY <1>1
    <2> QED BY <2>1, <2>2
  <1>6. q \in Seq(C)
    BY <1>1, <1>3, <1>4, <1>5, QuotedIsPath
  <1>7. PICK none, r, s, t : none = << >> /\ r = w \o q /\ s = Append(w, quote) /\ t = Append(none, key)
    OBVIOUS
  <1>8. none \in Seq(Seq(C)) /\ r \in Seq(C) /\ s \in Seq(C) /\ t = << key >>
    BY <1>2, <1>4, <1>5, <1>6, <1>7
  <1>9. Reading(w \o QuoteKey(key)) = At(Append(w, Quote), Append(none, key), "closing")
    <2>1. Quote \in C
      BY <1>3, <1>4
    <2>2. none \in Seq(Seq(C)) /\ Reading(w) = At(w, none, "out")
      BY <1>2, <1>7, <1>8
    <2> QED BY <1>2, <1>5, <2>1, <2>2, ReadsQuoted
  <1>10. Reading(r) = At(s, t, "closing")
    BY <1>1, <1>3, <1>7, <1>9
  <1>11. Reading(Append(r, close)) = ReadChar(Reading(r), close)
    BY <1>4, <1>8, ReadingGoesOn
  <1>12. ReadChar(At(s, t, "closing"), close) = At(Append(s, close), t, "out")
    BY <1>4, ReadsOut
  <1>13. Record(a) = Append(r, close)
    <2>1. Record(a) = w \o q \o << ")" >>
      BY <1>1 DEF Record
    <2>2. r \o << close >> = Append(r, close)
      BY <1>8
    <2> QED BY <1>3, <1>7, <2>1, <2>2
  <1>14. Append(s, close) = << Slash, a.entity, "(", Quote, ")" >>
    <2>1. PICK x, open : x = Slash /\ open = "("
      OBVIOUS
    <2>2. w = << x, e, open >>
      BY <1>1, <2>1
    <2>5. x \in C /\ e \in C /\ open \in C
      BY <1>1, <2>1 DEF PathChars, Names
    <2>3. s = << x, e, open, quote >>
      BY <1>4, <1>7, <2>2, <2>5, ThreeAndOne
    <2>4. Append(s, close) = << x, e, open, quote, close >>
      BY <1>4, <2>3, <2>5, FourAndOne
    <2> QED BY <1>1, <1>3, <2>1, <2>4
  <1>15. Append(r, close) \in Seq(C)
    BY <1>4, <1>8
  <1> QED BY <1>1, <1>8, <1>10, <1>11, <1>12, <1>13, <1>14, <1>15

\* What is said of the path of a tool that writes its own, once received.
PathReads(a, path) ==
    LET read == Reading(path)
    IN  /\ read.mode = "out"
        /\ a.tool = "sap_navigate" =>
             read.shape = << Slash, a.entity, "(", Quote, ")", Slash, a.nav >>
        /\ a.tool = "sap_lookup" =>
             read.shape = << Slash, a.entity, "(", Quote, ")" >>
        /\ read.texts = IF a.tool = "sap_invoke_function" THEN Strings(a.params)
                        ELSE << a.key >>

\* What is said of its parameters.
RawOptions(a, u) ==
    /\ a.tool = "sap_navigate" => PageAsked(a, u.params.top)
    /\ a.tool = "sap_lookup" =>
         /\ Has(u.params, "select") <=> a.select # << >>
         /\ Has(u.params, "select") => u.params.select = SplitCsv(a.select)

\* The number of rows is the one of the range nearest to the one asked for.
LEMMA ClampIsNearest ==
    ASSUME NEW a, a.top \in Int
    PROVE  PageAsked(a, Clamp(a.top))
  <1>1. PICK t : t = a.top
    OBVIOUS
  <1>2. t \in Int /\ MaxTop \in Nat \ {0}
    BY <1>1, ToolConstants
  <1>3. Clamp(t) \in 1..MaxTop
    BY <1>2 DEF Clamp
  <1>4. \A other \in 1..MaxTop : Distance(Clamp(t), t) <= Distance(other, t)
    BY <1>2 DEF Clamp, Distance
  <1> QED BY <1>1, <1>3, <1>4 DEF PageAsked

\* The paths that are written without build_url say what was asked.
LEMMA RawAsAsked ==
    ASSUME NEW a \in Asks, a.tool \in RawTools, ~ToolRefuses(a)
    PROVE  PathReads(a, Shape(a).path) /\ RawOptions(a, Shape(a))
  <1>0. PICK u : u = Shape(a)
    OBVIOUS
  <1>1. CASE a.tool = "sap_navigate"
    <2>1. u = NavigateRequest(a)
      BY <1>0, <1>1, Zenon DEF Shape
    <2>2. a.entity \in Plain /\ a.nav \in Plain
      <3>1. ToolRefuses(a) <=> a.entity \notin Plain \/ a.nav \notin Plain \/ a.key = << >>
        BY <1>1, Zenon DEF ToolRefuses
      <3> QED BY <3>1
    <2>3. a.key \in Seq(Chars) /\ a.top \in Int
      <3>1. Has(a, "key") /\ Has(a, "top")
        <4>1. DOMAIN a = { "tool", "caller" } \cup Arguments[a.tool]
          BY AsksAreCalls DEF IsCall
        <4> QED BY <1>1, <4>1 DEF Arguments, Has
      <3> QED BY <3>1, AsksAreCalls DEF IsCall
    <2>4. PICK C, r, s, t : C = PathChars /\ r = Record(a) /\ t = << a.key >>
                              /\ s = << Slash, a.entity, "(", Quote, ")" >>
      OBVIOUS
    <2>5. r \in Seq(C) /\ Reading(r) = At(s, t, "out")
      BY <2>2, <2>3, <2>4, ReadsRecord
    <2>6. PICK x, n, w : x = Slash /\ n = a.nav /\ w = << x, n >>
      OBVIOUS
    <2>7. x \in C /\ n \in C /\ x # Quote /\ n # Quote
      BY <2>2, <2>4, <2>6, ToolConstants DEF PathChars, Names, Slash, Quote
    <2>8. w \in Seq(C \ { Quote })
      BY <2>6, <2>7
    <2>9. s \in Seq(C)
      <3>1. PICK e, open, quote, close : e = a.entity /\ open = "(" /\ quote = Quote /\ close = ")"
        OBVIOUS
      <3>2. e \in C /\ open \in C /\ quote \in C /\ close \in C
        BY <2>2, <2>4, <3>1 DEF PathChars, Names
      <3>3. s = << x, e, open, quote, close >>
        BY <2>4, <2>6, <3>1
      <3> QED BY <2>7, <3>2, <3>3
    <2>10. Reading(r \o w) = At(s \o w, t, "out")
      BY <2>5, <2>8, <2>9, ReadsPlain
    <2>11. u.path = r \o w /\ u.params.top = Clamp(a.top)
      BY <2>1, <2>4, <2>6 DEF NavigateRequest
    <2>12. s \o w = << Slash, a.entity, "(", Quote, ")", Slash, a.nav >>
      <3>1. PICK e, open, quote, close : e = a.entity /\ open = "(" /\ quote = Quote /\ close = ")"
        OBVIOUS
      <3>2. s = << x, e, open, quote, close >>
        BY <2>4, <2>6, <3>1
      <3>4. e \in C /\ open \in C /\ quote \in C /\ close \in C
        BY <2>2, <2>4, <3>1 DEF PathChars, Names
      <3>3. s \o w = << x, e, open, quote, close, x, n >>
        BY <2>6, <2>7, <3>2, <3>4, FiveAndTwo
      <3> QED BY <2>6, <3>1, <3>3
    <2>13. PICK read : read = Reading(u.path)
      OBVIOUS
    <2>14. read.mode = "out" /\ read.shape = s \o w /\ read.texts = t
      BY <2>10, <2>11, <2>13 DEF At
    <2>15. PageAsked(a, u.params.top)
      BY <2>3, <2>11, ClampIsNearest
    <2>16. PathReads(a, u.path)
      BY <1>1, <2>4, <2>12, <2>13, <2>14 DEF PathReads
    <2>17. RawOptions(a, u)
      BY <1>1, <2>15 DEF RawOptions
    <2> QED BY <1>0, <2>16, <2>17
  <1>2. CASE a.tool = "sap_lookup"
    <2>1. u.path = Record(a)
      <3>1. u = LookupRequest(a)
        BY <1>0, <1>2, Zenon DEF Shape
      <3> QED BY <3>1 DEF LookupRequest
    <2>2. a.entity \in Plain
      <3>1. ToolRefuses(a) <=> a.entity \notin Plain \/ a.key = << >>
        BY <1>2, Zenon DEF ToolRefuses
      <3> QED BY <3>1
    <2>3. a.key \in Seq(Chars)
      <3>1. Has(a, "key")
        BY <1>2, ArgumentsAre
      <3> QED BY <3>1, AsksAreCalls DEF IsCall
    <2>4. PICK s, t : s = << Slash, a.entity, "(", Quote, ")" >> /\ t = << a.key >>
      OBVIOUS
    <2>5. PICK read : read = Reading(u.path)
      OBVIOUS
    <2>6. read = At(s, t, "out")
      BY <2>1, <2>2, <2>3, <2>4, <2>5, ReadsRecord
    <2>7. read.mode = "out" /\ read.shape = s /\ read.texts = t
      BY <2>6 DEF At
    <2>8. PathReads(a, u.path)
      BY <1>2, <2>4, <2>5, <2>7 DEF PathReads
    <2>9. u.params = IF a.select = << >> THEN << >> ELSE [ select |-> SplitCsv(a.select) ]
      <3>1. u = LookupRequest(a)
        BY <1>0, <1>2, Zenon DEF Shape
      <3> QED BY <3>1 DEF LookupRequest
    <2>10. RawOptions(a, u)
      <3>1. CASE a.select = << >>
        <4>1. u.params = << >>
          BY <2>9, <3>1
        <4>2. DOMAIN u.params = {}
          BY <4>1
        <4> QED BY <1>2, <3>1, <4>2 DEF RawOptions, Has
      <3>2. CASE a.select # << >>
        <4>1. PICK names : names = SplitCsv(a.select)
          OBVIOUS
        <4>2. u.params = [ select |-> names ]
          BY <2>9, <3>2, <4>1
        <4>3. "select" \in DOMAIN u.params /\ u.params.select = names
          BY <4>2
        <4> QED BY <1>2, <3>2, <4>1, <4>3 DEF RawOptions, Has
      <3> QED BY <3>1, <3>2
    <2> QED BY <1>0, <2>8, <2>10
  <1>3. CASE a.tool = "sap_invoke_function"
    <2>1. u = FunctionRequest(a)
      BY <1>0, <1>3, Zenon DEF Shape
    <2>2. a.entity \in Plain /\ ~UnusableParam(a.params)
      <3>1. ToolRefuses(a) <=> a.entity \notin Plain \/ UnusableParam(a.params)
        BY <1>3, Zenon DEF ToolRefuses
      <3> QED BY <3>1
    <2>3. a.params \in Seq(Parameters)
      <3>1. Has(a, "params")
        BY <1>3, ArgumentsAre
      <3> QED BY <3>1, AsksAreCalls DEF IsCall
    <2>4. PICK C, w, p : C = PathChars /\ w = << Slash, a.entity, "(" >> /\ p = a.params
      OBVIOUS
    <2>5. w \in Seq(C) /\ Reading(w) = At(w, << >>, "out")
      BY <2>2, <2>4, ReadsName
    <2>6. PICK q : q = RenderParams(p)
      OBVIOUS
    <2>7. q \in Seq(C) /\ \E s \in Seq(C), mode \in { "out", "closing" } :
                             Reading(w \o q) = At(s, Strings(p), mode)
      BY <2>2, <2>3, <2>4, <2>5, <2>6, ReadsParams
    <2>8. PICK s \in Seq(C), mode \in { "out", "closing" } : Reading(w \o q) = At(s, Strings(p), mode)
      BY <2>7
    <2>9. PICK r, close : r = w \o q /\ close = ")"
      OBVIOUS
    <2>10. r \in Seq(C) /\ close \in C /\ close # Quote
      <3>1. r \in Seq(C)
        BY <2>5, <2>7, <2>9
      <3>2. close \in C /\ close # Quote
        BY <2>4, <2>9 DEF PathChars, Quote
      <3> QED BY <3>1, <3>2
    <2>11. Reading(Append(r, close)) = ReadChar(Reading(r), close)
      BY <2>10, ReadingGoesOn
    <2>12. ReadChar(At(s, Strings(p), mode), close) = At(Append(s, close), Strings(p), "out")
      BY <2>10, ReadsOut
    <2>13. u.path = Append(r, close)
      <3>1. u.path = w \o q \o << ")" >>
        BY <2>1, <2>4, <2>6 DEF FunctionRequest
      <3>2. r \o << close >> = Append(r, close)
        BY <2>10
      <3> QED BY <2>9, <3>1, <3>2
    <2>14. PICK read : read = Reading(u.path)
      OBVIOUS
    <2>15. read = At(Append(s, close), Strings(p), "out")
      BY <2>8, <2>9, <2>11, <2>12, <2>13, <2>14
    <2>16. read.mode = "out" /\ read.texts = Strings(p)
      BY <2>15 DEF At
    <2>17. PathReads(a, u.path)
      BY <1>3, <2>4, <2>14, <2>16 DEF PathReads
    <2>18. RawOptions(a, u)
      BY <1>3 DEF RawOptions
    <2> QED BY <1>0, <2>17, <2>18
  <1> QED BY <1>1, <1>2, <1>3 DEF RawTools

\* The characters of a path whose keys and strings have none of the UrlMarks.
CleanChars == { c \in PathChars : c \notin { "?", "#", "%" } }

\* The URL layer leaves such a path as it is.
LEMMA ReceivedAsWritten ==
    ASSUME NEW path \in Seq(CleanChars)
    PROVE  Received(path) = path
  <1>1. \A i \in 1..Len(path) : path[i] \notin { "?", "#", "%" }
    <2>1. \A i \in 1..Len(path) : path[i] \in CleanChars
      OBVIOUS
    <2> QED BY <2>1 DEF CleanChars
  <1>2. PathOnly(path) = path
    BY <1>1 DEF PathOnly
  <1>3. \A i \in 1..Len(path) - 2 : i \in 1..Len(path)
    OBVIOUS
  <1>4. { i \in 1..Len(path) - 2 :
            path[i] = "%" /\ path[i + 1] \in HexDigits /\ path[i + 2] \in HexDigits } = {}
    BY <1>1, <1>3
  <1> QED BY <1>2, <1>4, Zenon DEF Received

\* A name, a delimiter and the characters of an unmarked text are clean.
LEMMA CleanParts ==
    /\ Plain \subseteq CleanChars
    /\ { Slash, Quote, "(", ")", ",", "=" } \subseteq CleanChars
    /\ \A text \in Seq(Chars) : Unmarked(text) => text \in Seq(CleanChars)
  <1>1. Plain \subseteq CleanChars
    BY ToolConstants DEF CleanChars, PathChars, Names, UrlMarks
  <1>2. { Slash, Quote, "(", ")", ",", "=" } \subseteq CleanChars
    BY DEF CleanChars, PathChars, Slash, Quote
  <1>3. ASSUME NEW text \in Seq(Chars), Unmarked(text)
        PROVE  text \in Seq(CleanChars)
    <2>1. \A i \in 1..Len(text) : text[i] \in Chars /\ text[i] \notin UrlMarks
      BY <1>3 DEF Unmarked
    <2>2. \A i \in 1..Len(text) : text[i] \in CleanChars
      BY <2>1 DEF CleanChars, PathChars, UrlMarks
    <2> QED BY <2>2
  <1> QED BY <1>1, <1>2, <1>3

\* Parameters written without a mark make a clean path.
LEMMA CleanParams ==
    ASSUME NEW params \in Seq(Parameters), ~UnusableParam(params),
           \A i \in 1..Len(params) : Unmarked(params[i][3])
    PROVE  RenderParams(params) \in Seq(CleanChars)
  <1>C. PICK C, N : C = CleanChars /\ N = Len(params)
    OBVIOUS
  <1>0. N \in Nat
    BY <1>C
  <1>l. PICK comma, equal, quote : comma = "," /\ equal = "=" /\ quote = Quote
    OBVIOUS
  <1>c. quote \in C /\ comma \in C /\ equal \in C /\ Plain \subseteq C
    BY <1>C, <1>l, CleanParts
  <1>1. ASSUME NEW i \in 1..N
        PROVE  params[i][1] \in C /\ params[i][3] \in Seq(C)
    <2>1. PICK q \in Parameters : q = params[i]
      BY <1>C
    <2>2. q[1] \in Plain
      BY <1>C, <2>1 DEF UnusableParam
    <2>3. PICK w : w = q[3]
      OBVIOUS
    <2>4. w \in Seq(Chars) \/ w \in Seq(Chars \ { Quote })
      BY <2>3 DEF Parameters
    <2>5. w \in Seq(Chars)
      BY <2>4
    <2>6. Unmarked(w)
      BY <1>C, <2>1, <2>3
    <2> QED BY <1>C, <1>c, <2>1, <2>2, <2>3, <2>5, <2>6, CleanParts
  <1>2. ASSUME NEW i \in 1..N
        PROVE  RenderValue(params[i]) \in Seq(C)
    <2>1. PICK key : key = params[i][3]
      OBVIOUS
    <2>2. key \in Seq(C)
      BY <1>1, <2>1
    <2>3. QuoteKey(key) \in Seq(C)
      BY <1>c, <1>l, <2>2, QuotedIsPath
    <2> QED BY <2>1, <2>2, <2>3 DEF RenderValue
  <1> DEFINE Written(i) == (IF i = 1 THEN << >> ELSE << comma >>)
                              \o << params[i][1], equal >> \o RenderValue(params[i])
  <1>3. PICK pieces : pieces = [ i \in 1..N |-> Written(i) ]
    OBVIOUS
  <1>4. ASSUME NEW i \in 1..N PROVE Written(i) \in Seq(C)
    <2>1. PICK a, v : a = params[i][1] /\ v = RenderValue(params[i])
      OBVIOUS
    <2>2. a \in C /\ v \in Seq(C)
      BY <1>1, <1>2, <2>1
    <2>3. PICK w, ab : w = (IF i = 1 THEN << >> ELSE << comma >>) /\ ab = << a, equal >>
      OBVIOUS
    <2>4. w \in Seq(C) /\ ab \in Seq(C)
      BY <1>c, <2>2, <2>3
    <2>5. w \o ab \o v \in Seq(C)
      BY <2>2, <2>4
    <2> QED BY <2>1, <2>3, <2>5
  <1>5. RenderParams(params) = FlattenSeq(pieces)
    BY <1>C, <1>3, <1>l DEF RenderParams
  <1> HIDE DEF Written
  <1>6. pieces \in Seq(Seq(C)) /\ Len(pieces) = N
    <2>1. pieces \in [ 1..N -> Seq(C) ]
      BY <1>3, <1>4
    <2> QED BY <1>0, <2>1
  <1>7. PICK f : JoinedUpTo(f, pieces, C) /\ FlattenSeq(pieces) = f[Len(pieces)]
    BY <1>6, FlattenIs
  <1>8. FlattenSeq(pieces) \in Seq(C)
    BY <1>0, <1>6, <1>7 DEF JoinedUpTo
  <1> QED BY <1>C, <1>5, <1>8

\* What the caller says without a mark makes a clean path.
LEMMA RawIsClean ==
    ASSUME NEW a \in Asks, a.tool \in RawTools, ~ToolRefuses(a), UrlSafe(a)
    PROVE  Shape(a).path \in Seq(CleanChars)
  <1>0. PICK C, u, e, slash, open, close :
           /\ C = CleanChars /\ u = Shape(a) /\ e = a.entity
           /\ slash = Slash /\ open = "(" /\ close = ")"
    OBVIOUS
  <1>1. /\ slash \in C /\ open \in C /\ close \in C /\ Quote \in C
        /\ Plain \subseteq C
    BY <1>0, CleanParts
  <1>2. e \in Plain /\ (a.tool = "sap_navigate" => a.nav \in Plain)
          /\ (a.tool = "sap_invoke_function" => ~UnusableParam(a.params))
    <2>1. CASE a.tool = "sap_navigate"
      <3>1. ToolRefuses(a) <=> a.entity \notin Plain \/ a.nav \notin Plain \/ a.key = << >>
        BY <2>1, Zenon DEF ToolRefuses
      <3> QED BY <1>0, <2>1, <3>1
    <2>2. CASE a.tool = "sap_lookup"
      <3>1. ToolRefuses(a) <=> a.entity \notin Plain \/ a.key = << >>
        BY <2>2, Zenon DEF ToolRefuses
      <3> QED BY <1>0, <2>2, <3>1
    <2>3. CASE a.tool = "sap_invoke_function"
      <3>1. ToolRefuses(a) <=> a.entity \notin Plain \/ UnusableParam(a.params)
        BY <2>3, Zenon DEF ToolRefuses
      <3> QED BY <1>0, <2>3, <3>1
    <2> QED BY <2>1, <2>2, <2>3 DEF RawTools
  <1>3. << slash, e, open >> \in Seq(C)
    BY <1>1, <1>2
  <1>4. ASSUME a.tool \in { "sap_navigate", "sap_lookup" }
        PROVE  Record(a) \in Seq(C)
    <2>1. Has(a, "key")
      BY <1>4, ArgumentsAre
    <2>2. a.key \in Seq(Chars) /\ Unmarked(a.key)
      BY <2>1, AsksAreCalls DEF IsCall, UrlSafe
    <2>3. PICK q : q = QuoteKey(a.key)
      OBVIOUS
    <2>4. q \in Seq(C)
      <3>1. PICK key : key = a.key
        OBVIOUS
      <3>2. key \in Seq(C)
        BY <1>0, <2>2, <3>1, CleanParts
      <3> QED BY <1>1, <2>3, <3>1, <3>2, QuotedIsPath
    <2>5. << slash, e, open >> \o q \o << close >> \in Seq(C)
      BY <1>1, <1>3, <2>4
    <2>6. Record(a) = << slash, e, open >> \o q \o << close >>
      BY <1>0, <2>3 DEF Record
    <2> QED BY <2>5, <2>6
  <1>5. CASE a.tool = "sap_navigate"
    <2>1. u = NavigateRequest(a)
      BY <1>0, <1>5, Zenon DEF Shape
    <2>2. PICK r, n : r = Record(a) /\ n = a.nav
      OBVIOUS
    <2>3. u.path = r \o << slash, n >>
      BY <1>0, <2>1, <2>2 DEF NavigateRequest
    <2>4. r \in Seq(C) /\ n \in C
      BY <1>1, <1>2, <1>4, <1>5, <2>2
    <2> QED BY <1>0, <1>1, <2>3, <2>4
  <1>6. CASE a.tool = "sap_lookup"
    <2>1. u = LookupRequest(a)
      BY <1>0, <1>6, Zenon DEF Shape
    <2>2. u.path = Record(a)
      BY <2>1 DEF LookupRequest
    <2> QED BY <1>0, <1>4, <1>6, <2>2
  <1>7. CASE a.tool = "sap_invoke_function"
    <2>1. u = FunctionRequest(a)
      BY <1>0, <1>7, Zenon DEF Shape
    <2>2. Has(a, "params")
      BY <1>7, ArgumentsAre
    <2>3. a.params \in Seq(Parameters) /\ \A i \in 1..Len(a.params) : Unmarked(a.params[i][3])
      BY <2>2, AsksAreCalls DEF IsCall, UrlSafe
    <2>4. PICK q : q = RenderParams(a.params)
      OBVIOUS
    <2>5. q \in Seq(C)
      BY <1>0, <1>2, <1>7, <2>3, <2>4, CleanParams
    <2>6. u.path = << slash, e, open >> \o q \o << close >>
      BY <1>0, <2>1, <2>4 DEF FunctionRequest
    <2> QED BY <1>0, <1>1, <1>3, <2>5, <2>6
  <1> QED BY <1>5, <1>6, <1>7 DEF RawTools

\* What is said of the URL of a tool that has a query.
QueryReads(a, v, u) ==
    LET p == u.params
        counts == a.tool = "sap_count"
    IN  /\ u.path = << Slash, a.entity >>
                      \o (IF counts /\ v = "v2" THEN << Slash, "$count" >> ELSE << >>)
        /\ Has(p, "count") <=> counts /\ v = "v4"
        /\ Has(p, "filter") <=> a.filter # None
        /\ Has(p, "filter") => p.filter = a.filter
        /\ Has(p, "apply") <=> Has(a, "items")
        /\ Has(p, "apply") => p.apply = a.items
        /\ Has(p, "select") <=> Has(a, "select") /\ Words(a.select) # {}
        /\ Has(p, "select") => p.select = SplitCsv(a.select)
        /\ Has(p, "order") <=> Has(a, "order") /\ Words(a.order) # {}
        /\ Has(p, "order") =>
             /\ Len(p.order) = Len(SplitCsv(a.order))
             /\ \A i \in 1..Len(p.order) :
                  LET item == SplitCsv(a.order)[i]
                  IN  /\ p.order[i][1] = item[1]
                      /\ (p.order[i][2] = "desc")
                           = (Len(item) > 1 /\ item[2] \in { "desc", "DESC" })
        /\ Has(p, "top") <=> Has(a, "top")
        /\ Has(p, "top") => PageAsked(a, p.top)

\* The parameters, one by one.
Sends(p, q, v, option) ==
    /\ option \in DOMAIN p <=> q[option] # None /\ ~(option = "count" /\ CountSegment(q, v))
    /\ option \in DOMAIN p => p[option] = q[option]

\* A parameter that is sent is the option of the query.
LEMMA SendsGiven ==
    ASSUME NEW v, NEW q, NEW p, p = Params(q, v)
    PROVE  \A option \in Options : Sends(p, q, v, option)
  <1>1. TakenFrom(p, q, v)
    BY ParamsAre
  <1>2. "format" \notin Options
    BY DEF Options
  <1>3. ASSUME NEW option \in Options
        PROVE  Sends(p, q, v, option)
    <2>1. CASE CountSegment(q, v)
      BY <1>1, <2>1 DEF TakenFrom, Sends
    <2>2. CASE ~CountSegment(q, v)
      BY <1>1, <1>2, <2>2 DEF TakenFrom, Sends
    <2> QED BY <2>1, <2>2
  <1> QED BY <1>3

\* What is said of the order.
OrderReads(a, pairs) ==
    /\ pairs # None /\ (pairs = << >> <=> Words(a.order) = {})
    /\ Len(pairs) = Len(SplitCsv(a.order))
    /\ \A i \in 1..Len(pairs) :
         LET item == SplitCsv(a.order)[i]
         IN  /\ pairs[i][1] = item[1]
             /\ (pairs[i][2] = "desc") = (Len(item) > 1 /\ item[2] \in { "desc", "DESC" })

\* The order sent has the items of the caller, each with its direction.
LEMMA OrderAsAsked ==
    ASSUME NEW a \in Asks, Has(a, "order"), NEW pairs, pairs = OrderPairs(a.order)
    PROVE  OrderReads(a, pairs)
  <1>1. PICK s, raw, S : s = SplitCsv(a.order) /\ raw = a.order /\ S = Seq(Names \cup OrderWords)
    OBVIOUS
  <1>2. raw \in Seq(S)
    BY <1>1, AsksAreCalls DEF IsCall
  <1>3. s \in Seq(S) /\ (s = << >> <=> Words(raw) = {})
    <2>1. s = SplitCsv(raw)
      BY <1>1
    <2> QED BY <1>2, <2>1, SplitIsWords
  <1>4. Len(s) \in Nat
    BY <1>3
  <1>5. PICK w : w = [ i \in 1..Len(s) |-> IF Len(s[i]) > 1 THEN Lower(s[i][2]) ELSE "asc" ]
    OBVIOUS
  <1>6. pairs = [ i \in 1..Len(s) |-> << s[i][1], w[i] >> ]
    BY <1>1, <1>5 DEF OrderPairs
  <1>7. Len(pairs) = Len(s) /\ DOMAIN pairs = 1..Len(s)
    BY <1>4, <1>6
  <1>8. \A i \in 1..Len(s) : pairs[i][1] = s[i][1] /\ pairs[i][2] = w[i]
    BY <1>6
  <1>9. \A i \in 1..Len(s) :
           (w[i] = "desc") = (Len(s[i]) > 1 /\ s[i][2] \in { "desc", "DESC" })
    <2> SUFFICES ASSUME NEW i \in 1..Len(s)
                 PROVE  (w[i] = "desc") = (Len(s[i]) > 1 /\ s[i][2] \in { "desc", "DESC" })
      OBVIOUS
    <2>1. w[i] = IF Len(s[i]) > 1 THEN Lower(s[i][2]) ELSE "asc"
      BY <1>5
    <2>2. (Lower(s[i][2]) = "desc") = (s[i][2] \in { "desc", "DESC" })
      BY DEF Lower
    <2> QED BY <2>1, <2>2
  <1>10. pairs = << >> <=> s = << >>
    <2>1. pairs = << >> => Len(s) = 0
      BY <1>7
    <2>2. Len(s) = 0 => s = << >>
      BY <1>3, EmptySeq
    <2>3. s = << >> => pairs = << >>
      BY <1>6
    <2> QED BY <2>1, <2>2, <2>3
  <1>11. pairs # None
    BY NoneStandsApart
  <1>12. SplitCsv(a.order) = s /\ (pairs = << >> <=> Words(a.order) = {})
    BY <1>1, <1>3, <1>10
  <1>13. \A i \in 1..Len(pairs) :
           /\ pairs[i][1] = s[i][1]
           /\ (pairs[i][2] = "desc") = (Len(s[i]) > 1 /\ s[i][2] \in { "desc", "DESC" })
    BY <1>7, <1>8, <1>9
  <1> QED BY <1>7, <1>11, <1>12, <1>13 DEF OrderReads

\* The URL that build_url writes says what was asked.
LEMMA QueryAsAsked ==
    ASSUME NEW a \in Asks, a.tool \notin SnapshotTools \cup RawTools, NEW v \in Versions
    PROVE  QueryReads(a, v, Url(Shape(a), v))
  <1>1. PICK q, u, p : q = Shape(a) /\ u = Url(q, v) /\ p = Params(q, v)
    OBVIOUS
  <1>2. u.params = p /\ u.path = UrlPath(q, v)
    BY <1>1 DEF Url
  <1>3. \A option \in Options : Sends(p, q, v, option)
    BY <1>1, SendsGiven
  <1>4. /\ "select" \in Options /\ "filter" \in Options /\ "order" \in Options
        /\ "top" \in Options /\ "count" \in Options /\ "apply" \in Options
    BY DEF Options
  <1>5. None # TRUE
    BY NoneStandsApart
  <1>d. DOMAIN a = { "tool", "caller" } \cup Arguments[a.tool] /\ (Has(a, "top") => a.top \in Int)
    BY AsksAreCalls DEF IsCall
  <1>6. CASE a.tool \in { "sap_select", "sap_top_n" }
    <2>1. Has(a, "filter") /\ Has(a, "select") /\ Has(a, "order") /\ ~Has(a, "items")
      BY <1>6, ArgumentsAre
    <2>2. q = SelectQuery(a)
      BY <1>1, <1>6, Zenon DEF Shape, TopNQuery
    <2>3. PICK s, o, t : s = SplitCsv(a.select) /\ o = OrderPairs(a.order) /\ t = Clamp(a.top)
      OBVIOUS
    <2>4. Holds(q, a.entity, Given(s), a.filter, Given(o), t, None, None)
      BY <2>2, <2>3, QueriesAre
    <2>5. Has(a, "top") /\ t # None /\ PageAsked(a, t)
      <3>1. Has(a, "top")
        BY <1>6, <1>d DEF Arguments, Has
      <3> QED BY <1>d, <2>3, <3>1, ClampInRange, ClampIsNearest
    <2>6. s # None /\ (s = << >> <=> Words(a.select) = {})
      <3>1. a.select \in Seq(Names \cup { Blank })
        BY <2>1, AsksAreCalls DEF IsCall
      <3>2. s # None
        BY <2>1, <2>3, NoneStandsApart
      <3> QED BY <2>3, <3>1, <3>2, SplitIsWords
    <2>7. /\ o # None /\ (o = << >> <=> Words(a.order) = {})
          /\ Len(o) = Len(SplitCsv(a.order))
          /\ \A i \in 1..Len(o) :
               LET item == SplitCsv(a.order)[i]
               IN  /\ o[i][1] = item[1]
                   /\ (o[i][2] = "desc") = (Len(item) > 1 /\ item[2] \in { "desc", "DESC" })
      <3>1. OrderReads(a, o)
        BY <2>1, <2>3, OrderAsAsked
      <3> QED BY <3>1, Zenon DEF OrderReads
    <2>8. ~CountSegment(q, v)
      BY <2>4 DEF Holds, CountSegment
    <2>9. u.path = << Slash, a.entity >> \o << >>
      BY <1>2, <2>4, <2>8 DEF UrlPath, Holds
    <2>10. /\ Has(p, "count") <=> FALSE
           /\ Has(p, "apply") <=> FALSE
           /\ Has(p, "filter") <=> a.filter # None
           /\ Has(p, "filter") => p.filter = a.filter
           /\ Has(p, "select") <=> s # << >>
           /\ Has(p, "select") => p.select = s
           /\ Has(p, "order") <=> o # << >>
           /\ Has(p, "order") => p.order = o
           /\ Has(p, "top") /\ p.top = t
      BY <1>3, <1>4, <2>4, <2>5, <2>6, <2>7 DEF Sends, Holds, Has, Given
    <2>11. a.tool # "sap_count"
      BY <1>6
    <2> QED BY <1>1, <1>2, <2>1, <2>3, <2>5, <2>6, <2>7, <2>9, <2>10, <2>11 DEF QueryReads
  <1>7. CASE a.tool = "sap_count"
    <2>1. Has(a, "filter") /\ ~Has(a, "select") /\ ~Has(a, "order") /\ ~Has(a, "items")
      BY <1>7, ArgumentsAre
    <2>2. q = CountQuery(a)
      BY <1>1, <1>7, Zenon DEF Shape
    <2>3. Holds(q, a.entity, None, a.filter, None, None, TRUE, None)
      BY <2>2, QueriesAre
    <2>4. CountSegment(q, v) = (v = "v2")
      BY <1>5, <2>3 DEF Holds, CountSegment
    <2>5. u.path = << Slash, a.entity >>
                     \o (IF v = "v2" THEN << Slash, "$count" >> ELSE << >>)
      BY <1>2, <2>3, <2>4 DEF UrlPath, Holds
    <2>6. /\ Has(p, "count") <=> v # "v2"
          /\ ~Has(p, "apply") /\ ~Has(p, "select") /\ ~Has(p, "order") /\ ~Has(p, "top")
          /\ Has(p, "filter") <=> a.filter # None
          /\ Has(p, "filter") => p.filter = a.filter
      BY <1>3, <1>4, <1>5, <2>3, <2>4 DEF Sends, Holds, Has
    <2>7. ~Has(a, "top")
      BY <1>7, <1>d DEF Arguments, Has
    <2>8. v # "v2" <=> v = "v4"
      BY DEF Versions
    <2> QED BY <1>1, <1>2, <1>7, <2>1, <2>5, <2>6, <2>7, <2>8 DEF QueryReads
  <1>8. CASE a.tool = "sap_aggregate"
    <2>1. Has(a, "filter") /\ ~Has(a, "select") /\ ~Has(a, "order") /\ Has(a, "items")
      BY <1>8, ArgumentsAre
    <2>2. q = AggregateQuery(a)
      BY <1>1, <1>8, Zenon DEF Shape
    <2>3. Holds(q, a.entity, None, a.filter, None, None, None, a.items)
      BY <2>2, QueriesAre
    <2>4. a.items # None
      BY <2>1, NoneStandsApart
    <2>5. ~CountSegment(q, v)
      BY <2>3 DEF Holds, CountSegment
    <2>6. u.path = << Slash, a.entity >> \o << >>
      BY <1>2, <2>3, <2>5 DEF UrlPath, Holds
    <2>7. /\ Has(p, "apply") /\ p.apply = a.items
          /\ ~Has(p, "count") /\ ~Has(p, "select") /\ ~Has(p, "order") /\ ~Has(p, "top")
          /\ Has(p, "filter") <=> a.filter # None
          /\ Has(p, "filter") => p.filter = a.filter
      BY <1>3, <1>4, <2>3, <2>4 DEF Sends, Holds, Has
    <2>8. ~Has(a, "top") /\ a.tool # "sap_count"
      BY <1>8, <1>d DEF Arguments, Has
    <2> QED BY <1>1, <1>2, <2>1, <2>6, <2>7, <2>8 DEF QueryReads
  <1> QED BY <1>6, <1>7, <1>8, ArgumentsAre DEF SnapshotTools, RawTools

-----------------------------------------------------------------------------
(* The search of the snapshot.                                             *)

\* The matches among the first n rows, as many as the limit lets.
Found(f, n, a) ==
    /\ f \in Seq({ Snapshot[i] : i \in 1..Len(Snapshot) }) /\ Len(f) <= a.limit
    /\ \A k \in 1..Len(f) : a.words \in f[k].words
    /\ \A i \in 1..n : a.words \in Snapshot[i].words =>
          Len(f) = a.limit \/ \E k \in 1..Len(f) : f[k] = Snapshot[i]

\* Matches, the loop over the snapshot, after the last row it reads.
LEMMA MatchesAreFound ==
    ASSUME NEW a, a.limit \in 1..MaxMatches
    PROVE  Found(Matches(a), RowsRead, a)
  <1>1. PICK N, S : N = RowsRead /\ S = { Snapshot[i] : i \in 1..Len(Snapshot) }
    OBVIOUS
  <1>2. PICK T, limit : T = Seq(S) /\ limit = a.limit
    OBVIOUS
  <1>0. N \in Nat /\ limit \in Nat \ {0} /\ \A n \in 1..N : Snapshot[n] \in S
    BY <1>1, <1>2, ToolConstants DEF RowsRead
  <1> DEFINE Adds(n, x) == IF a.words \in Snapshot[n].words /\ Len(x) < a.limit
                           THEN Append(x, Snapshot[n]) ELSE x
  <1>3. PICK G : G = [ p \in (1..N) \X T |-> Adds(p[1], p[2]) ]
    OBVIOUS
  <1>4. \A n \in 1..N : \A x \in T : G[<< n, x >>] = Adds(n, x) /\ G[<< n, x >>] \in T
    <2> SUFFICES ASSUME NEW n \in 1..N, NEW x \in T
                 PROVE  G[<< n, x >>] = Adds(n, x) /\ G[<< n, x >>] \in T
      OBVIOUS
    <2>1. G[<< n, x >>] = Adds(n, x)
      <3> HIDE DEF Adds
      <3> QED BY <1>3
    <2>2. PICK row \in S : row = Snapshot[n]
      BY <1>0
    <2>3. Append(x, row) \in Seq(S)
      BY <1>2
    <2> QED BY <1>2, <2>1, <2>2, <2>3
  <1> HIDE DEF Adds
  <1>5. G \in [ (1..N) \X T -> T ]
    <2>1. \A p \in (1..N) \X T : G[p] \in T
      BY <1>4
    <2>2. G = [ p \in (1..N) \X T |-> G[p] ]
      BY <1>3
    <2> QED BY <2>1, <2>2
  <1>6. << >> \in T
    BY <1>2
  <1>r. PICK f : Recurs(f, N, T, << >>, G)
    BY <1>0, <1>5, <1>6, RecursionExists
  <1> DEFINE Builds(g) == g = [ n \in 0..N |-> IF n = 0 THEN << >> ELSE Adds(n, g[n - 1]) ]
             F == CHOOSE g : Builds(g)
  <1>m. Matches(a) = F[N]
    BY <1>1 DEF Matches, Adds
  <1>8. Builds(f)
    <2>1. /\ f \in [ 0..N -> T ] /\ f[0] = << >>
          /\ \A n \in 1..N : f[n] = G[<< n, f[n - 1] >>]
      BY <1>r DEF Recurs
    <2>2. \A n \in 1..N : n - 1 \in 0..N
      BY <1>0
    <2>3. f = [ n \in 0..N |-> f[n] ]
      BY <2>1
    <2>4. \A n \in 1..N : f[n] = Adds(n, f[n - 1])
      BY <1>4, <2>1, <2>2
    <2>5. \A n \in 0..N : f[n] = IF n = 0 THEN << >> ELSE Adds(n, f[n - 1])
      BY <1>0, <2>1, <2>4
    <2> QED BY <2>3, <2>5
  <1>9. Builds(F)
    <2> HIDE DEF Builds
    <2> QED BY <1>8
  <1> HIDE DEF F
  <1>10. \A n \in 0..N : F[n] = IF n = 0 THEN << >> ELSE Adds(n, F[n - 1])
    BY <1>9
  <1> HIDE DEF Builds
  <1>11. PICK good : good = { n \in 0..N : Found(F[n], n, a) }
    OBVIOUS
  <1>12. 0 \in good
    <2>1. F[0] = << >>
      BY <1>0, <1>10
    <2>2. Found(F[0], 0, a)
      BY <1>0, <1>2, <2>1 DEF Found
    <2> QED BY <1>0, <1>11, <2>2
  <1>13. ASSUME NEW n \in 1..N, n - 1 \in good
         PROVE  n \in good
    <2>1. PICK m : m = n - 1
      OBVIOUS
    <2>2. m \in 0..N /\ n \in 0..N /\ n # 0 /\ n = m + 1 /\ m \in Nat
      BY <1>0, <2>1
    <2>3. PICK x, y, row : x = F[m] /\ y = F[n] /\ row = Snapshot[n]
      OBVIOUS
    <2>4. /\ x \in Seq(S) /\ Len(x) <= limit /\ Len(x) \in Nat
          /\ \A k \in 1..Len(x) : a.words \in x[k].words
          /\ \A i \in 1..m : a.words \in Snapshot[i].words =>
                Len(x) = limit \/ \E k \in 1..Len(x) : x[k] = Snapshot[i]
      BY <1>1, <1>2, <1>11, <1>13, <2>1, <2>3 DEF Found
    <2>5. y = Adds(n, x)
      BY <1>10, <2>1, <2>2, <2>3
    <2>6. \A i \in 1..n : i \in 1..m \/ i = n
      BY <2>2
    <2>7. CASE a.words \in row.words /\ Len(x) < limit
      <3>1. y = Append(x, row) /\ row \in S
        BY <1>0, <1>2, <2>3, <2>5, <2>7 DEF Adds
      <3>2. /\ y \in Seq(S) /\ Len(y) = Len(x) + 1 /\ y[Len(x) + 1] = row
            /\ \A k \in 1..Len(x) : y[k] = x[k]
        BY <2>4, <3>1
      <3>3. /\ Len(y) <= limit /\ Len(x) + 1 \in 1..Len(y)
            /\ \A k \in 1..Len(x) : k \in 1..Len(y)
            /\ \A k \in 1..Len(y) : k \in 1..Len(x) \/ k = Len(x) + 1
        BY <1>0, <2>4, <2>7, <3>2
      <3>4. \A k \in 1..Len(y) : a.words \in y[k].words
        BY <2>4, <2>7, <3>2, <3>3
      <3>5. ASSUME NEW i \in 1..n, a.words \in Snapshot[i].words
            PROVE  \E k \in 1..Len(y) : y[k] = Snapshot[i]
        <4>1. CASE i = n
          BY <2>3, <3>2, <3>3, <4>1
        <4>2. CASE i # n
          <5>1. Len(x) # limit
            BY <1>0, <2>4, <2>7
          <5>2. PICK k \in 1..Len(x) : x[k] = Snapshot[i]
            BY <2>4, <2>6, <3>5, <4>2, <5>1
          <5> QED BY <3>2, <3>3, <5>2
        <4> QED BY <4>1, <4>2
      <3>6. Found(y, n, a)
        BY <1>1, <1>2, <3>2, <3>3, <3>4, <3>5 DEF Found
      <3> QED BY <1>11, <2>2, <2>3, <3>6
    <2>8. CASE ~(a.words \in row.words /\ Len(x) < limit)
      <3>1. y = x
        BY <1>2, <2>3, <2>5, <2>8 DEF Adds
      <3>2. a.words \in Snapshot[n].words => Len(x) = limit
        BY <1>0, <2>3, <2>4, <2>8
      <3>3. Found(y, n, a)
        BY <1>1, <1>2, <2>4, <2>6, <3>1, <3>2 DEF Found
      <3> QED BY <1>11, <2>2, <2>3, <3>3
    <2> QED BY <2>7, <2>8
  <1>14. \A n \in 0..N : n \in good
    BY <1>0, <1>12, <1>13, Climbs
  <1>15. Found(F[N], N, a)
    BY <1>0, <1>11, <1>14
  <1> QED BY <1>1, <1>m, <1>15

\* What is said of the rows returned.
SearchReads(a, f) ==
    /\ \A row \in Range(f) : a.words \in row.words
    /\ \A i \in 1..Len(Snapshot) :
          a.words \in Snapshot[i].words =>
             Snapshot[i] \in Range(f) \/ Len(f) = a.limit \/ i > SnapshotLimit

\* A search returns matches only, and all that its two limits let it reach.
LEMMA SearchAsAsked ==
    ASSUME NEW a, a.limit \in 1..MaxMatches
    PROVE  SearchReads(a, Matches(a))
  <1>1. PICK f, S : f = Matches(a) /\ S = { Snapshot[i] : i \in 1..Len(Snapshot) }
    OBVIOUS
  <1>2. Found(f, RowsRead, a)
    BY <1>1, MatchesAreFound
  <1>3. f \in Seq(S)
    BY <1>1, <1>2 DEF Found
  <1>4. Range(f) = { f[k] : k \in 1..Len(f) }
    BY <1>3, LenProperties DEF Range
  <1>5. \A i \in 1..Len(Snapshot) : i \in 1..RowsRead \/ i > SnapshotLimit
    BY ToolConstants DEF RowsRead
  <1>6. /\ \A k \in 1..Len(f) : a.words \in f[k].words
        /\ \A i \in 1..RowsRead : a.words \in Snapshot[i].words =>
              Len(f) = a.limit \/ \E k \in 1..Len(f) : f[k] = Snapshot[i]
    BY <1>2 DEF Found
  <1> QED BY <1>1, <1>4, <1>5, <1>6 DEF SearchReads

FoundIsMatches ==
    ask.tool = "sap_search_entity" /\ found # None => ~ToolRefuses(ask) /\ found = Matches(ask)

\* A search that was not refused returns Matches.
LEMMA FoundStays == Spec => []FoundIsMatches
  <1>1. Init => FoundIsMatches
    BY DEF Init, FoundIsMatches
  <1>2. FoundIsMatches /\ [Next]_vars => FoundIsMatches'
    <2> SUFFICES ASSUME FoundIsMatches, [Next]_vars PROVE FoundIsMatches'
      OBVIOUS
    <2>1. CASE SearchEntity
      <3>1. ask' = ask /\ ~ToolRefuses(ask) /\ found' = Matches(ask)
        BY <2>1 DEF SearchEntity, Answer
      <3>2. ToolRefuses(ask)' = ToolRefuses(ask) /\ Matches(ask)' = Matches(ask)
        BY <3>1
      <3> QED BY <3>1, <3>2 DEF FoundIsMatches
    <2>2. CASE DescribeEntity
      <3>1. ask' = ask /\ ask.tool = "sap_describe_entity"
        BY <2>2 DEF DescribeEntity, Answer
      <3> QED BY <3>1 DEF FoundIsMatches
    <2>3. CASE UNCHANGED << ask, found >>
      <3>1. ToolRefuses(ask)' = ToolRefuses(ask) /\ Matches(ask)' = Matches(ask)
        BY <2>3
      <3> QED BY <2>3, <3>1 DEF FoundIsMatches
    <2>4. SearchEntity \/ DescribeEntity \/ UNCHANGED << ask, found >>
      BY DEF Next, vars, Answer, Forbidden, SessionUnknown, RejectArguments, Prepare, NotResolved,
             Resolve, RejectQuery, Send, Return
    <2> QED BY <2>1, <2>2, <2>3, <2>4
  <1> QED BY <1>1, <1>2, PTL DEF Spec

\* Whatever the arguments: the options of the request are those of the call and
\* no others, item by item; a server that reads the path of a raw tool, after
\* the URL layer, finds the key or the strings of the caller in it and nothing
\* of them outside their quotes, if they have no character that means something
\* in a URL; and a search returns matches, all of them within its two limits.
THEOREM SentIsAsAsked == Spec => []SentAsAsked
  <1>1. IInv /\ FoundIsMatches => SentAsAsked
    <2> SUFFICES ASSUME IInv, FoundIsMatches PROVE SentAsAsked
      OBVIOUS
    <2>0. ask \in Asks /\ (url # None => version \in Versions)
      BY DEF IInv, TypeOK
    <2>1. ASSUME url # None, ask.tool \notin RawTools
          PROVE  QueryReads(ask, version, url)
      <3>1. ask.tool \notin SnapshotTools /\ query = Shape(ask)
        BY <2>1 DEF IInv, Shaped
      <3>2. url = Url(query, version)
        BY <2>1 DEF IInv, UrlIsQuery
      <3> QED BY <2>0, <2>1, <3>1, <3>2, QueryAsAsked
    <2>2. ASSUME url # None, ask.tool \in RawTools
          PROVE  RawOptions(ask, url) /\ (UrlSafe(ask) => PathReads(ask, Received(url.path)))
      <3>1. ~ToolRefuses(ask) /\ query = Shape(ask)
        BY <2>2 DEF IInv, Shaped
      <3>2. url = query
        BY <2>2 DEF IInv, UrlIsQuery
      <3>3. PathReads(ask, url.path) /\ RawOptions(ask, url)
        BY <2>0, <2>2, <3>1, <3>2, RawAsAsked
      <3>4. UrlSafe(ask) => Received(url.path) = url.path
        BY <2>0, <2>2, <3>1, <3>2, RawIsClean, ReceivedAsWritten
      <3> QED BY <3>3, <3>4
    <2>3. ASSUME ask.tool = "sap_search_entity", found # None
          PROVE  SearchReads(ask, found)
      <3>1. ~ToolRefuses(ask) /\ found = Matches(ask)
        BY <2>3 DEF FoundIsMatches
      <3>2. ToolRefuses(ask) <=> ask.words = None \/ ask.limit \notin 1..MaxMatches
        BY <2>3, Zenon DEF ToolRefuses
      <3> QED BY <3>1, <3>2, SearchAsAsked
    <2> QED BY <2>1, <2>2, <2>3, Zenon DEF SentAsAsked, QueryReads, RawOptions, PathReads, SearchReads
  <1> QED BY <1>1, Invariance, FoundStays, PTL
=============================================================================
