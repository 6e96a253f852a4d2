------------------------- MODULE MCConnectionRoutes -------------------------
(***************************************************************************)
(* Two tenants; acme creates connections and works on them, globex meddles *)
(* with them.                                                              *)
(***************************************************************************)
EXTENDS ConnectionRoutes, TLC

CONSTANTS r1, r2, r3, legacy, acme, globex, none

ThreeRequests == { r1, r2, r3 }
MCCompanies == { acme, globex }
RequestSymmetry == Permutations(ThreeRequests)

Asking(kind, company, change, creds) ==
    [ kind |-> kind, company |-> company, change |-> change, creds |-> creds ]

Basic == FormFields("basic")
OAuth == FormFields("oauth_client_credentials")

MCAsks ==
    { Asking("create", acme, "basic", Basic),
      Asking("create", acme, "oauth_client_credentials", OAuth),
      Asking("create", acme, "basic", { "basic_password" }),
      Asking("patch", acme, "label", none),
      Asking("patch", acme, "oauth_client_credentials", OAuth),
      Asking("patch", acme, "label", { "basic_password" }),
      Asking("patch", acme, none, { "basic_password" }),
      Asking("patch", acme, none, Basic),
      Asking("patch", globex, "label", Basic) }
    \cup { Asking(kind, acme, none, none) : kind \in { "delete", "test", "sync" } }
    \cup { Asking(kind, globex, none, none) : kind \in { "delete", "test" } }
=============================================================================
