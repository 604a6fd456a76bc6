--------------------------- MODULE MCRefreshSession ---------------------------
(* RefreshSession for TLC: the calls of a run are the model values its .cfg *)
(* declares.                                                                *)
EXTENDS RefreshSession, TLC

\* Calls of one kind are interchangeable (used by runs without liveness).
Interchangeable ==
    UNION {Permutations(K) : K \in {RestCalls, GrpcCalls, OidcCalls, RefreshCalls,
                                    LoginCalls, LogoutCalls, DeviceCalls} \ {{}}}
===============================================================================
