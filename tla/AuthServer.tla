------------------------------ MODULE AuthServer ------------------------------
(***************************************************************************)
(* What the SDK's session code relies on of the AXIAM server.  The server  *)
(* is not part of this repository: the module states the behaviour that    *)
(* rest/auth.ts, rest/interceptors.ts and CONTRACT.md section 9 assume of  *)
(* it.  A completed login starts a session and sets its cookies; the       *)
(* refresh token of a session is opaque, single-use and rotated by every   *)
(* refresh; an access token is accepted until it expires or its session    *)
(* ends; a device login mints an access token with nothing behind it.      *)
(*                                                                         *)
(* A set of cookies (axiam_access, axiam_refresh, axiam_csrf rotate        *)
(* together) is one token [s |-> session, n |-> rotation].  A session is   *)
(* named by the login call that started it, Boot being the one a process   *)
(* may already hold when the model starts; a device token is named by the  *)
(* authenticateDevice call that minted it.                                 *)
(***************************************************************************)
EXTENDS Naturals

CONSTANTS LoginCalls,   \* calls of login()
          DeviceCalls,  \* calls of authenticateDevice()
          Boot,         \* the session already held at the start, if any
          None          \* undefined / null

ASSUME ServerAssumption ==
    /\ LoginCalls \cap DeviceCalls = {}
    /\ Boot \notin LoginCalls \cup DeviceCalls
    /\ None \notin LoginCalls \cup DeviceCalls \cup {Boot}

VARIABLES live,     \* [session -> rotation its refresh token is at, 0 if ended]
          fresh,    \* access tokens of cookie sessions the server accepts
          devLive   \* device tokens the server accepts

serverVars == <<live, fresh, devLive>>

Sessions == LoginCalls \cup {Boot}
NoToken  == [s |-> None, n |-> 0]
Token    == [s : Sessions, n : Nat \ {0}] \cup {NoToken}

\* The refresh token of t is the one its session is at: not spent, not ended.
Redeemable(t) == t.s \in Sessions /\ live[t.s] = t.n

\* The cookies a refresh that spends t is answered with.
Successor(t) == [s |-> t.s, n |-> t.n + 1]

\* POST /api/v1/auth/refresh with the refresh cookie of t, accepted.
Rotate(t) ==
    /\ Redeemable(t)
    /\ live' = [live EXCEPT ![t.s] = t.n + 1]
    /\ fresh' = fresh \cup {Successor(t)}
    /\ UNCHANGED devLive

\* POST /api/v1/auth/login, accepted: the call's session starts.
StartSession(c) ==
    /\ live' = [live EXCEPT ![c] = 1]
    /\ fresh' = fresh \cup {[s |-> c, n |-> 1]}
    /\ UNCHANGED devLive

\* POST /api/v1/auth/logout on session s.
EndSession(s) ==
    /\ live' = [live EXCEPT ![s] = 0]
    /\ fresh' = {t \in fresh : t.s # s}
    /\ UNCHANGED devLive

\* An access token reaches its expiry.
ExpireAccess ==
    /\ \/ \E t \in fresh : fresh' = fresh \ {t} /\ UNCHANGED devLive
       \/ \E d \in devLive : devLive' = devLive \ {d} /\ UNCHANGED fresh
    /\ UNCHANGED live

ServerTypeOK ==
    /\ live \in [Sessions -> Nat]
    /\ fresh \subseteq Token \ {NoToken}
    /\ devLive \subseteq DeviceCalls
===============================================================================
