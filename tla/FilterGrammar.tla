---------------------------- MODULE FilterGrammar ---------------------------
(***************************************************************************)
(* The $filter sublanguage of odata_validator.py: the recursive-descent    *)
(* parser as it walks a list of tokens, and beside it the language its     *)
(* module comment promises, built from the shortest sentences up.          *)
(*                                                                         *)
(* A token stands for its class.  "operand" is a property name, a string,  *)
(* a number, null, true or false; "eq" is any of the six comparisons;      *)
(* "stray" is a comma, which the tokenizer lets through and no rule takes, *)
(* or a character the tokenizer itself refuses.                            *)
(***************************************************************************)
EXTENDS Integers, Sequences

Versions == { "v2", "v4" }

Tokens == { "operand", "datetime", "eq", "and", "or", "not", "(", ")", "stray" }

\* datetime'...' literals are refused in v4.
Operands(v) ==
    IF v = "v2" THEN { "operand", "datetime" } ELSE { "operand" }

Rules == { "or_expr", "and_expr", "not_expr", "comparison", "primary" }

Rejected == 0

-----------------------------------------------------------------------------
(* The parser.                                                             *)

\* A bug the runs must catch: comparisons chain, as in  a eq b eq c.
InfixRulesChaining ==
    [ or_expr    |-> << "and_expr", "or", "or_expr" >>,
      and_expr   |-> << "not_expr", "and", "and_expr" >>,
      comparison |-> << "primary", "eq", "comparison" >> ]

\* An operand, a connective, and what must follow the connective.  The loops of
\* _or_expr and _and_expr go on while theirs does, a comparison takes one more
\* primary and no more.
InfixRules ==
    [ or_expr    |-> << "and_expr", "or", "or_expr" >>,
      and_expr   |-> << "not_expr", "and", "and_expr" >>,
      comparison |-> << "primary", "eq", "primary" >> ]

\* The token at p; past the last one there is no token.
TokenAt(tokens, p) == IF p \in 1..Len(tokens) THEN tokens[p] ELSE "end"

\* Reach[rule, p] is the position after the longest phrase of the rule that
\* starts at p, or Rejected when the method raises.
Parser(tokens, v) ==
    LET At(p) == TokenAt(tokens, p)
        Reach[at \in Rules \X (1..Len(tokens) + 1)] ==
            LET rule == at[1]
                p == at[2]
            IN  CASE rule \in DOMAIN InfixRules ->
                       LET q == Reach[<< InfixRules[rule][1], p >>]
                       IN  IF q # Rejected /\ At(q) = InfixRules[rule][2]
                           THEN Reach[<< InfixRules[rule][3], q + 1 >>] ELSE q
                  [] rule = "not_expr" ->
                       IF At(p) = "not" THEN Reach[<< "not_expr", p + 1 >>]
                       ELSE Reach[<< "comparison", p >>]
                  [] rule = "primary" /\ At(p) = "(" ->
                       LET q == Reach[<< "or_expr", p + 1 >>]
                       IN  IF q # Rejected /\ At(q) = ")" THEN q + 1 ELSE Rejected
                  [] rule = "primary" /\ At(p) \in Operands(v) ->
                       \* An identifier before "(" is a function call, which is refused.
                       IF At(p + 1) = "(" THEN Rejected ELSE p + 1
                  [] OTHER -> Rejected
    IN  Reach

\* _validate_filter: not empty, parsed from the first token, and to the end.
Accepts(tokens, v) ==
    /\ tokens # << >>
    /\ Parser(tokens, v)[<< "or_expr", 1 >>] = Len(tokens) + 1

-----------------------------------------------------------------------------
(* The language promised.                                                  *)

\* The phrases of n tokens that each category of the grammar has:
\*   Primary ::= operand | "(" Or ")"     Comparison ::= Primary [ eq Primary ]
\*   Not ::= "not" Not | Comparison       And ::= Not { "and" Not }
\*   Or ::= And { "or" And }
Infix(Left, mark, Right, n) ==
    UNION { { pair[1] \o << mark >> \o pair[2] : pair \in Left[i] \X Right[n - 1 - i] }
            : i \in 1..n - 2 }

\* Of n tokens, from all the shorter ones.
NextPhrases(v, n, shorter) ==
    LET Cat(c) == [ i \in 1..n - 1 |-> shorter[i][c] ]
        prim == IF n = 1 THEN { << o >> : o \in Operands(v) }
                ELSE IF n = 2 THEN {}
                ELSE { << "(" >> \o d \o << ")" >> : d \in shorter[n - 2].disj }
        comp == prim \cup Infix(Cat("prim"), "eq", Cat("prim"), n)
        neg  == comp \cup (IF n = 1 THEN {}
                           ELSE { << "not" >> \o s : s \in shorter[n - 1].neg })
        conj == neg \cup Infix(Cat("neg"), "and", Cat("conj"), n)
        disj == conj \cup Infix(Cat("conj"), "or", Cat("disj"), n)
    IN  [ prim |-> prim, comp |-> comp, neg |-> neg, conj |-> conj, disj |-> disj ]

Phrases(v, length) ==
    LET Of[n \in 0..length] ==
            IF n = 0 THEN << >> ELSE Append(Of[n - 1], NextPhrases(v, n, Of[n - 1]))
    IN  Of[length]

Language(v, length) ==
    UNION { Phrases(v, length)[n].disj : n \in 1..length }
=============================================================================
