--------------------------- MODULE MCRateLimiter ----------------------------
(***************************************************************************)
(* Two companies side by side, a limit of two, half-second ticks.          *)
(***************************************************************************)
EXTENDS RateLimiter, TLC

CONSTANTS acme, globex, none

MCCompanies == { acme, globex }
MCBuckets == { "heavy" }
MCLimit == "heavy" :> 2
=============================================================================
