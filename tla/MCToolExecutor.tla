--------------------------- MODULE MCToolExecutor ---------------------------
(***************************************************************************)
(* Instances of ToolExecutor.  Solo: one tenant, one session, one OAuth    *)
(* connection, so that two calls meet on the same budget and the same row. *)
(* Tenants: two tenants with a session each; acme has an OAuth connection  *)
(* and one whose credentials row carries username / password, globex has   *)
(* one stored the way POST /connections stores basic credentials.          *)
(***************************************************************************)
EXTENDS ToolExecutorRefinement, TLC

CONSTANTS k1, k2, s1, s2, c1, c2, c3, acme, globex, none

MCCalls == { k1, k2 }
OneCall == { k1 }
MCCompanies == { acme, globex }
CallSymmetry == Permutations(MCCalls)

SoloSessions == { s1 }
SoloConnections == { c1 }
SoloSessionCompany == s1 :> acme
SoloConnCompany == c1 :> acme
SoloAuthMode == c1 :> "oauth_client_credentials"
SoloStoredKeys == c1 :> RequiredKeys("oauth_client_credentials")

TenantsSessions == { s1, s2 }
TenantsConnections == { c1, c2, c3 }
TenantsSessionCompany == s1 :> acme @@ s2 :> globex
TenantsConnCompany == c1 :> acme @@ c2 :> acme @@ c3 :> globex
TenantsAuthMode ==
    c1 :> "oauth_client_credentials" @@ c2 :> "basic" @@ c3 :> "basic"
TenantsStoredKeys ==
    c1 :> RequiredKeys("oauth_client_credentials")
        @@ c2 :> RequiredKeys("basic")
        @@ c3 :> FormFields("basic")
=============================================================================
