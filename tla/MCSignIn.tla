------------------------------- MODULE MCSignIn -------------------------------
(* SignIn for TLC.  Boot may act on every tenant, a later user on none. *)
EXTENDS SignIn

MCReach == [u \in Users |-> IF u = Boot THEN Tenants ELSE {}]
===============================================================================
