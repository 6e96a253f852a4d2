---------------------------- MODULE Credentials -----------------------------
(***************************************************************************)
(* The two readings of a connection's credentials: the fields the HTTP     *)
(* routes insist on before they store them, and the keys the resolver      *)
(* insists on when it reads them back.                                     *)
(***************************************************************************)

AuthModes == { "basic", "oauth_client_credentials" }

OAuthFields == { "oauth_token_url", "oauth_client_id", "oauth_client_secret" }

\* _validate_credentials, and what _credentials_to_dict stores.
FormFields(mode) ==
    IF mode = "basic" THEN { "basic_username", "basic_password" } ELSE OAuthFields

\* _build_auth.
RequiredKeys(mode) ==
    IF mode = "basic" THEN { "username", "password" } ELSE OAuthFields

=============================================================================
