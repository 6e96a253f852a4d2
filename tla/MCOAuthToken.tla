----------------------------- MODULE MCOAuthToken ---------------------------
(***************************************************************************)
(* Three coroutines and four apply() calls between them, four ticks of the *)
(* clock, a buffer of one: tokens of undeclared life (three ticks), of too *)
(* short a life to be used again, and of one that is reused and runs out.  *)
(***************************************************************************)
EXTENDS OAuthToken

CONSTANTS a, b, c, none, noToken

MCCoroutines == { a, b, c }
MCLives == { 0, 1, 2 }
=============================================================================
