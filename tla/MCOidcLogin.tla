----------------------------- MODULE MCOidcLogin -----------------------------
(* Two logins and two callbacks of one process. *)
EXTENDS OidcLogin
=============================================================================
