----------------------------- MODULE MCAuthzClient -----------------------------
(* AuthzClient for TLC.  Boot may act on every tenant, a later user on none. *)
EXTENDS AuthzClient, TLC

MCReach == [u \in Users |-> IF u = Boot THEN Tenants ELSE {}]

\* Checks are interchangeable.
Interchangeable == Permutations(Checks)
===============================================================================
