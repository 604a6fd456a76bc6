---------------------------- MODULE RefreshSession ----------------------------
(***************************************************************************)
(* One NodeSession: the state every handle, transport and OIDC client of   *)
(* a process shares, and the calls that read it before an await and write  *)
(* it after.  REST requests with the reactive 401 refresh                  *)
(* (rest/interceptors.ts), gRPC calls (grpc/callWithRefresh.ts,            *)
(* grpc/interceptor.ts), oidcRefresh (node/oidc.ts) - these three behind   *)
(* the session's single-flight guard (core/singleFlightRefresh.ts) - and   *)
(* refresh(), login(), logout(), authenticateDevice() (rest/auth.ts).      *)
(*                                                                         *)
(* An action is one turn of the event loop: an application calls the SDK,  *)
(* or an answer arrives, with every promise continuation it sets off.  A   *)
(* successful answer takes two: its headers put the cookies in the jar     *)
(* ("posted" -> "landed"), the end of its body resolves the request.       *)
(* Each member of a *Calls constant is one call, made at most once.  What  *)
(* these calls do to the decision memo, the principal's scope and close()  *)
(* is in AuthzClient.                                                      *)
(***************************************************************************)
EXTENDS AuthServer, FiniteSets

CONSTANTS RestCalls,     \* state-changing REST requests outside SKIP_REFRESH
          GrpcCalls,     \* unary RPCs made through callWithRefresh
          OidcCalls,     \* oidcRefresh() on one OidcClient of the session
          RefreshCalls,  \* explicit AxiamClient.refresh()
          LogoutCalls,   \* logout()
          Lossy          \* may requests or answers be lost in the network?

Requests == RestCalls \cup GrpcCalls
Guarded  == Requests \cup OidcCalls
Calls    == Guarded \cup RefreshCalls \cup LoginCalls \cup LogoutCalls \cup DeviceCalls

\* Every call is of one kind.
ASSUME SessionAssumption ==
    /\ RestCalls \cap (GrpcCalls \cup OidcCalls \cup RefreshCalls) = {}
    /\ GrpcCalls \cap (OidcCalls \cup RefreshCalls) = {}
    /\ OidcCalls \cap RefreshCalls = {}
    /\ LogoutCalls \cap (Guarded \cup RefreshCalls) = {}
    /\ (LoginCalls \cup DeviceCalls) \cap (Guarded \cup RefreshCalls \cup LogoutCalls) = {}
    /\ None \notin Calls
    /\ Boot \notin Calls
    /\ Lossy \in BOOLEAN

VARIABLES auth,     \* session.authenticated
          csrf,     \* session.csrfToken
          cached,   \* tokenManager.#cachedAccess
          device,   \* session.deviceAccessToken
          jar,      \* the axiam_* cookies in the tough-cookie jar
          guard,    \* refreshPromise: the call whose closure runs, or None
          phase,    \* how far that closure's POST has come
          runTok,   \* the refresh cookie that POST carries
          pending,  \* OidcClient.#pendingRefresh: the leading call, or None
          pc,       \* where each call is
          wire,     \* the credentials each call's request carries, until it ends
          retried,  \* config._retry / the catch branch of callWithRefresh
          tries,    \* refreshUnderGuard's attempt counter
          prev,     \* previousDeviceToken of an authenticateDevice call
          \* history, read by properties only:
          attempts, \* requests each REST or gRPC call has put on the wire
          shown,    \* refresh tokens the guard's runs have presented, but for
                    \* those of runs that failed with only RPCs waiting
          torn,     \* an answer broke off behind its cookies, and nothing has
                    \* read the jar since
          risked    \* the session may be gone: there was none, a refresh lost
                    \* its answer, an oidcRefresh failed, or the application
                    \* called refresh() or signed in or out

sesVars   == <<auth, csrf, cached, device, jar>>
guardVars == <<guard, phase, runTok>>
oidcVars  == <<pending, tries>>
callVars  == <<wire, retried, prev, attempts>>
histVars  == <<shown, torn, risked>>
vars      == <<serverVars, sesVars, guardVars, oidcVars, pc, callVars, histVars>>

PC == {"idle", "sent", "waiting", "discovering", "joined", "posted", "landed",
       "ok", "failed"}

Done == {"ok", "failed"}

Wire   == [dev : DeviceCalls \cup {None}, tok : Token, csrf : Token]
NoWire == [dev |-> None, tok |-> NoToken, csrf |-> NoToken]

MAX_TRIES == 3   \* the bound of refreshUnderGuard's loop

\* Fault: a 401 of the refresh endpoint is refreshed like any other.
SKIP_REFRESH_LoginOnly == {"login", "logout"}

\* The endpoints whose 401s the interceptor does not answer with a refresh.
SKIP_REFRESH == {"login", "logout", "refresh"}

-------------------------------------------------------------------------------
(* Credentials on the wire *)

\* The CSRF, device-token and cookie-agent layers on a new REST request: a
\* device token displaces the jar's cookies.
RestCred == [dev  |-> device,
             tok  |-> IF device = None THEN jar ELSE NoToken,
             csrf |-> csrf]

\* The same layers on a replayed config: it still has the headers and the
\* jar-free agents of its first attempt, and the interceptors overwrite only
\* what the session holds now.  sentCsrf is the session's csrf at the replay.
ReplayCred(c, sentCsrf) ==
    LET d == IF device # None THEN device ELSE wire[c].dev
    IN  [dev  |-> d,
         tok  |-> IF d = None THEN jar ELSE NoToken,
         csrf |-> IF sentCsrf # NoToken THEN sentCsrf ELSE wire[c].csrf]

\* authInterceptor: the device token, else the cached access token tok.
GrpcCred(tok) == [dev  |-> device,
                  tok  |-> IF device = None THEN tok ELSE NoToken,
                  csrf |-> NoToken]

\* The refresh cookie a POST to the refresh endpoint carries now.
RefreshCookie == IF device = None THEN jar ELSE NoToken
RefreshWire   == [dev |-> None, tok |-> RefreshCookie, csrf |-> NoToken]

\* Server's view of a request: authenticated, and the double-submit check.
Accepted(w) == IF w.dev # None THEN w.dev \in devLive ELSE w.tok \in fresh
CsrfOk(c)   == c \in GrpcCalls \/ wire[c].dev # None \/ wire[c].csrf = wire[c].tok

-------------------------------------------------------------------------------
(* The guard: createRefreshGuard() *)

\* Fault: the guard starts a closure without looking whether one is running.
EnterGuard_Unshared(c) ==
    /\ pc' = [pc EXCEPT ![c] = "waiting"]
    /\ guard' = c
    /\ phase' = "posted"
    /\ runTok' = IF c \in OidcCalls THEN NoToken ELSE RefreshCookie
    /\ shown' = shown \cup {runTok'}

\* Fault: the refresh presents the token the failed request was sent with.
EnterGuard_RequestToken(c) ==
    /\ pc' = [pc EXCEPT ![c] = "waiting"]
    /\ IF guard = None
       THEN /\ guard' = c
            /\ phase' = "posted"
            /\ runTok' = IF c \in OidcCalls THEN NoToken ELSE wire[c].tok
            /\ shown' = shown \cup {runTok'}
       ELSE UNCHANGED <<guardVars, shown>>

\* session.refreshGuard(closure) called by c.  A free guard runs the closure,
\* whose POST leaves at once; a busy one is joined.
EnterGuard(c) ==
    /\ pc' = [pc EXCEPT ![c] = "waiting"]
    /\ IF guard = None
       THEN /\ guard' = c
            /\ phase' = "posted"
            /\ runTok' = IF c \in OidcCalls THEN NoToken ELSE RefreshCookie
            /\ shown' = shown \cup {runTok'}
       ELSE UNCHANGED <<guardVars, shown>>

\* The leading oidcRefresh is one of those the running closure will release.
LeaderWaits == pending # None /\ pc[pending] = "waiting"

\* ... and its own closure did not run, so it takes the guard again.
LeaderRestarts ==
    LeaderWaits /\ pending # guard /\ tries[pending] + 1 < MAX_TRIES

\* Fault: oidcRefresh returns after any refresh that resolved.
LeaderAfterOk_AnyRun == "ok"

\* pc of the leading oidcRefresh once the running closure has resolved.
LeaderAfterOk ==
    IF pending = guard THEN "ok" ELSE IF LeaderRestarts THEN "waiting" ELSE "failed"

\* The promise resolves: REST requests are replayed, RPCs called again with a
\* cache resynced from the jar, and oidcRefresh returns only what its own
\* closure produced.
ReleaseOk ==
    /\ guard' = IF LeaderRestarts THEN pending ELSE None
    /\ phase' = IF LeaderRestarts THEN "posted" ELSE "none"
    /\ runTok' = NoToken
    /\ tries' = [c \in OidcCalls |->
                    IF LeaderWaits /\ c = pending /\ c # guard
                    THEN tries[c] + 1 ELSE tries[c]]
    /\ pending' = IF LeaderWaits /\ ~LeaderRestarts THEN None ELSE pending
    /\ pc' = [c \in Calls |->
                IF c \in Requests
                THEN IF pc[c] = "waiting" THEN "sent" ELSE pc[c]
                ELSE IF LeaderWaits /\ c = pending
                THEN LeaderAfterOk
                ELSE IF LeaderWaits /\ ~LeaderRestarts /\ pc[c] = "joined"
                THEN LeaderAfterOk
                ELSE pc[c]]
    /\ wire' = [c \in Calls |->
                IF c \in RestCalls /\ pc[c] = "waiting"
                THEN ReplayCred(c, csrf')
                ELSE IF c \in GrpcCalls /\ pc[c] = "waiting"
                THEN GrpcCred(jar)
                ELSE wire[c]]
    /\ attempts' = [c \in Requests |->
                IF pc[c] = "waiting" THEN attempts[c] + 1 ELSE attempts[c]]
    /\ UNCHANGED <<retried, prev>>

\* Fault: a failed refresh leaves the session authenticated.
ReleaseFail_StaysAuthenticated ==
    /\ guard' = None
    /\ phase' = "none"
    /\ runTok' = NoToken
    /\ pending' = IF LeaderWaits THEN None ELSE pending
    /\ pc' = [c \in Calls |->
                IF pc[c] = "waiting" \/ (LeaderWaits /\ pc[c] = "joined")
                THEN "failed" ELSE pc[c]]
    /\ UNCHANGED <<tries, callVars, sesVars>>

\* The promise rejects: every caller rejects, a REST one clearing the
\* session's auth state on its way.
ReleaseFail ==
    /\ guard' = None
    /\ phase' = "none"
    /\ runTok' = NoToken
    /\ pending' = IF LeaderWaits THEN None ELSE pending
    /\ pc' = [c \in Calls |->
                IF pc[c] = "waiting" \/ (LeaderWaits /\ pc[c] = "joined")
                THEN "failed" ELSE pc[c]]
    /\ IF \E c \in RestCalls : pc[c] = "waiting"
       THEN auth' = FALSE /\ csrf' = NoToken
       ELSE UNCHANGED <<auth, csrf>>
    /\ UNCHANGED <<tries, callVars, cached, device, jar>>

-------------------------------------------------------------------------------
(* The closure that holds the guard *)

CookieRun == guard # None /\ guard \notin OidcCalls
OidcRun   == guard # None /\ guard \in OidcCalls

\* The refresh POST is accepted; its Set-Cookie headers reach the jar.
RunLands ==
    /\ CookieRun /\ phase = "posted"
    /\ Rotate(runTok)
    /\ jar' = Successor(runTok)
    /\ phase' = "landed"
    /\ UNCHANGED <<auth, csrf, cached, device, guard, runTok, oidcVars, pc,
                   callVars, histVars>>

\* onAuthenticated()/doRefresh(): cached token and CSRF token are read back
\* out of the jar, then the guard resolves.
RunResolves ==
    /\ CookieRun /\ phase = "landed"
    /\ cached' = jar
    /\ csrf' = jar
    /\ ReleaseOk
    /\ torn' = FALSE
    /\ UNCHANGED <<serverVars, auth, device, jar, shown, risked>>

\* A 401 that the interceptor hands to a refresh of its own never rejects: it
\* joins the guard's promise, whose closure is the one that waits for it.
RefusalIsFinal == "refresh" \in SKIP_REFRESH \/ ~auth \/ device # None

\* The refresh POST fails: it is refused (a refusal that is lost comes to the
\* same), it never arrives, its answer is lost, or the answer breaks off when its
\* cookies are in the jar already.
RunRejects ==
    /\ CookieRun
    /\ \/ /\ phase = "posted" /\ ~Redeemable(runTok) /\ RefusalIsFinal
          /\ UNCHANGED <<serverVars, torn, risked>>
       \/ /\ phase = "posted" /\ Redeemable(runTok) /\ Lossy
          /\ UNCHANGED serverVars \/ Rotate(runTok)
          /\ risked' = TRUE /\ UNCHANGED torn
       \/ /\ phase = "landed" /\ Lossy
          /\ risked' = TRUE /\ torn' = TRUE
          /\ UNCHANGED serverVars
    /\ ReleaseFail
    /\ shown' = IF \E c \in RestCalls : pc[c] = "waiting" THEN shown ELSE shown \ {runTok}

\* An oidcRefresh closure resolves.  It holds no cookies; a waiting RPC still
\* resyncs the cache.
OidcRunResolves ==
    /\ OidcRun
    /\ cached' = IF \E c \in GrpcCalls : pc[c] = "waiting" THEN jar ELSE cached
    /\ csrf' = csrf
    /\ ReleaseOk
    /\ UNCHANGED <<serverVars, auth, device, jar, histVars>>

\* An oidcRefresh closure rejects (invalid_grant, a transport failure, an ID
\* token that fails validation).
OidcRunRejects ==
    /\ OidcRun
    /\ ReleaseFail
    /\ risked' = TRUE
    /\ UNCHANGED <<serverVars, shown, torn>>

-------------------------------------------------------------------------------
(* REST requests and gRPC calls *)

Send(c) ==
    /\ pc[c] = "idle"
    /\ pc' = [pc EXCEPT ![c] = "sent"]
    /\ wire' = [wire EXCEPT ![c] = IF c \in RestCalls THEN RestCred ELSE GrpcCred(cached)]
    /\ attempts' = [attempts EXCEPT ![c] = 1]
    /\ UNCHANGED <<serverVars, sesVars, guardVars, oidcVars, retried, prev, histVars>>

Answer(c, result) ==
    /\ pc' = [pc EXCEPT ![c] = result]
    /\ wire' = [wire EXCEPT ![c] = NoWire]
    /\ UNCHANGED <<serverVars, sesVars, guardVars, oidcVars, retried, prev, attempts,
                   histVars>>

Succeeds(c) ==
    /\ pc[c] = "sent" /\ Accepted(wire[c]) /\ CsrfOk(c)
    /\ Answer(c, "ok")

\* Anything but a 401: 403 on the CSRF check, 5xx, transport.
Fails(c) ==
    /\ pc[c] = "sent"
    /\ Lossy \/ ~CsrfOk(c)
    /\ Answer(c, "failed")

\* Fault: a replayed request may refresh again.
MayRefresh_NoRetryFlag(c) ==
    /\ device = None
    /\ c \in RestCalls => auth

\* The condition under which a 401 / UNAUTHENTICATED enters the guard, read
\* when the answer arrives.
MayRefresh(c) ==
    /\ ~retried[c]
    /\ device = None
    /\ c \in RestCalls => auth

Unauthenticated(c) ==
    /\ pc[c] = "sent" /\ ~Accepted(wire[c])
    /\ MayRefresh(c)
    /\ retried' = [retried EXCEPT ![c] = TRUE]
    /\ EnterGuard(c)
    /\ UNCHANGED <<serverVars, sesVars, oidcVars, wire, prev, attempts,
                   torn, risked>>

UnauthenticatedFinal(c) ==
    /\ pc[c] = "sent" /\ ~Accepted(wire[c])
    /\ ~MayRefresh(c)
    /\ Answer(c, "failed")

-------------------------------------------------------------------------------
(* oidcRefresh() *)

\* No refresh pending: this call leads; its configuration is at hand, or has
\* to be discovered first.
OidcLeads(c) ==
    /\ pc[c] = "idle" /\ pending = None
    /\ pending' = c
    /\ \/ EnterGuard(c)
       \/ pc' = [pc EXCEPT ![c] = "discovering"] /\ UNCHANGED <<guardVars, shown>>
    /\ UNCHANGED <<serverVars, sesVars, tries, callVars, torn, risked>>

\* A refresh is pending: its promise is returned.
OidcJoins(c) ==
    /\ pc[c] = "idle" /\ pending # None
    /\ Answer(c, "joined")

OidcDiscovered(c) ==
    /\ pc[c] = "discovering"
    /\ EnterGuard(c)
    /\ UNCHANGED <<serverVars, sesVars, oidcVars, callVars, torn, risked>>

\* Fault: a discovery that fails leaves #pendingRefresh set.
OidcDiscoveryFails_KeepsPending(c) ==
    /\ pc[c] = "discovering" /\ Lossy
    /\ pc' = [d \in Calls |-> IF d = c \/ pc[d] = "joined" THEN "failed" ELSE pc[d]]
    /\ UNCHANGED <<serverVars, sesVars, guardVars, oidcVars, callVars, histVars>>

OidcDiscoveryFails(c) ==
    /\ pc[c] = "discovering" /\ Lossy
    /\ pending' = None
    /\ pc' = [d \in Calls |-> IF d = c \/ pc[d] = "joined" THEN "failed" ELSE pc[d]]
    /\ UNCHANGED <<serverVars, sesVars, guardVars, tries, callVars, histVars>>

-------------------------------------------------------------------------------
(* refresh(): the explicit, unguarded refresh *)

RefreshCall(c) ==
    /\ pc[c] = "idle"
    /\ pc' = [pc EXCEPT ![c] = "posted"]
    /\ wire' = [wire EXCEPT ![c] = RefreshWire]
    /\ risked' = TRUE
    /\ UNCHANGED <<serverVars, sesVars, guardVars, oidcVars, retried, prev,
                   attempts, shown, torn>>

RefreshLands(c) ==
    /\ pc[c] = "posted"
    /\ Rotate(wire[c].tok)
    /\ jar' = Successor(wire[c].tok)
    /\ pc' = [pc EXCEPT ![c] = "landed"]
    /\ UNCHANGED <<auth, csrf, cached, device, guardVars, oidcVars, callVars, histVars>>

\* Fault: refresh() leaves the in-memory copies alone.
RefreshReturns_NoSync(c) ==
    /\ pc[c] = "landed"
    /\ pc' = [pc EXCEPT ![c] = "ok"]
    /\ UNCHANGED <<serverVars, sesVars, guardVars, oidcVars, callVars, histVars>>

\* onAuthenticated() after the answer.
RefreshReturns(c) ==
    /\ pc[c] = "landed"
    /\ cached' = jar
    /\ csrf' = jar
    /\ torn' = FALSE
    /\ pc' = [pc EXCEPT ![c] = "ok"]
    /\ wire' = [wire EXCEPT ![c] = NoWire]
    /\ UNCHANGED <<serverVars, auth, device, jar, guardVars, oidcVars, retried, prev, attempts,
                   shown, risked>>

\* It fails, the last way with the new cookies in the jar already.  refresh()
\* itself changes nothing in the session then.
RefreshThrows(c) ==
    /\ \/ /\ pc[c] = "posted" /\ ~Redeemable(wire[c].tok)
          /\ UNCHANGED <<serverVars, torn>>
       \/ /\ pc[c] = "posted" /\ Lossy
          /\ UNCHANGED serverVars \/ Rotate(wire[c].tok)
          /\ UNCHANGED torn
       \/ /\ pc[c] = "landed" /\ Lossy
          /\ torn' = TRUE
          /\ UNCHANGED serverVars
    /\ pc' = [pc EXCEPT ![c] = "failed"]
    /\ wire' = [wire EXCEPT ![c] = NoWire]
    /\ UNCHANGED <<sesVars, guardVars, oidcVars, retried, prev, attempts, shown, risked>>

-------------------------------------------------------------------------------
(* login() *)

LoginCall(c) ==
    /\ pc[c] = "idle"
    /\ device' = None
    /\ pc' = [pc EXCEPT ![c] = "posted"]
    /\ risked' = TRUE
    /\ UNCHANGED <<serverVars, auth, csrf, cached, jar, guardVars, oidcVars,
                   callVars, shown, torn>>

LoginLands(c) ==
    /\ pc[c] = "posted"
    /\ StartSession(c)
    /\ jar' = [s |-> c, n |-> 1]
    /\ pc' = [pc EXCEPT ![c] = "landed"]
    /\ UNCHANGED <<auth, csrf, cached, device, guardVars, oidcVars, callVars, histVars>>

LoginReturns(c) ==
    /\ pc[c] = "landed"
    /\ auth' = TRUE
    /\ cached' = jar
    /\ csrf' = jar
    /\ torn' = FALSE
    /\ pc' = [pc EXCEPT ![c] = "ok"]
    /\ UNCHANGED <<serverVars, device, jar, guardVars, oidcVars, callVars, shown,
                   risked>>

\* Refused, a second factor is asked for (202, 403), or lost: no session.  An
\* answer that breaks off behind its headers leaves the new session's cookies
\* in the jar, and nothing else of it.
LoginThrows(c) ==
    /\ \/ pc[c] = "posted" /\ UNCHANGED torn
       \/ pc[c] = "landed" /\ Lossy /\ torn' = TRUE
    /\ pc' = [pc EXCEPT ![c] = "failed"]
    /\ UNCHANGED <<serverVars, sesVars, guardVars, oidcVars, callVars, shown,
                   risked>>

-------------------------------------------------------------------------------
(* logout() *)

LogoutCall(c) ==
    /\ pc[c] = "idle"
    /\ pc' = [pc EXCEPT ![c] = "posted"]
    /\ wire' = [wire EXCEPT ![c] = RestCred]
    /\ risked' = TRUE
    /\ UNCHANGED <<serverVars, sesVars, guardVars, oidcVars, retried, prev,
                   attempts, shown, torn>>

\* Accepted: the session the request named ends, and its cookies are
\* expired out of the jar the request went through.
LogoutLands(c) ==
    /\ pc[c] = "posted" /\ Accepted(wire[c]) /\ CsrfOk(c)
    /\ IF wire[c].dev # None
       THEN devLive' = devLive \ {wire[c].dev} /\ UNCHANGED <<live, fresh, jar>>
       ELSE EndSession(wire[c].tok.s) /\ jar' = NoToken
    /\ pc' = [pc EXCEPT ![c] = "landed"]
    /\ UNCHANGED <<auth, csrf, cached, device, guardVars, oidcVars, callVars, histVars>>

\* The finally block, after success and after every failure.
LogoutReturns(c) ==
    /\ \/ pc[c] = "landed" /\ pc' = [pc EXCEPT ![c] = "ok"]
       \/ /\ IF pc[c] = "landed" THEN Lossy
             ELSE pc[c] = "posted" /\ (Lossy \/ ~Accepted(wire[c]) \/ ~CsrfOk(c))
          /\ pc' = [pc EXCEPT ![c] = "failed"]
    /\ auth' = FALSE
    /\ csrf' = NoToken
    /\ device' = None
    /\ wire' = [wire EXCEPT ![c] = NoWire]
    /\ UNCHANGED <<serverVars, cached, jar, guardVars, oidcVars, retried, prev, attempts, shown,
                   torn, risked>>

-------------------------------------------------------------------------------
(* authenticateDevice() *)

DeviceCall(c) ==
    /\ pc[c] = "idle"
    /\ prev' = [prev EXCEPT ![c] = device]
    /\ device' = None
    /\ pc' = [pc EXCEPT ![c] = "posted"]
    /\ risked' = TRUE
    /\ UNCHANGED <<serverVars, auth, csrf, cached, jar, guardVars, oidcVars,
                   wire, retried, attempts, shown, torn>>

DeviceReturns(c) ==
    /\ pc[c] = "posted"
    /\ device' = c
    /\ auth' = TRUE
    /\ devLive' = devLive \cup {c}
    /\ pc' = [pc EXCEPT ![c] = "ok"]
    /\ prev' = [prev EXCEPT ![c] = None]
    /\ UNCHANGED <<live, fresh, csrf, cached, jar, guardVars, oidcVars,
                   wire, retried, attempts, shown, torn, risked>>

DeviceThrows(c) ==
    /\ pc[c] = "posted"
    /\ device' = prev[c]
    /\ pc' = [pc EXCEPT ![c] = "failed"]
    /\ prev' = [prev EXCEPT ![c] = None]
    /\ UNCHANGED <<serverVars, auth, csrf, cached, jar, guardVars, oidcVars,
                   wire, retried, attempts, histVars>>

-------------------------------------------------------------------------------

\* A new client, or one that has logged in and been idle since.
Init ==
    /\ \E tok \in {NoToken, [s |-> Boot, n |-> 1]} :
         /\ jar = tok /\ csrf = tok /\ cached = tok
         /\ auth = (tok # NoToken)
         /\ risked = (tok = NoToken)
         /\ live = [s \in Sessions |-> IF s = tok.s THEN 1 ELSE 0]
         /\ fresh = {tok} \ {NoToken}
    /\ device = None /\ devLive = {}
    /\ guard = None /\ phase = "none" /\ runTok = NoToken
    /\ pending = None /\ tries = [c \in OidcCalls |-> 0]
    /\ pc = [c \in Calls |-> "idle"]
    /\ wire = [c \in Calls |-> NoWire]
    /\ retried = [c \in Requests |-> FALSE]
    /\ attempts = [c \in Requests |-> 0]
    /\ prev = [c \in DeviceCalls |-> None]
    /\ shown = {} /\ torn = FALSE

Expire == ExpireAccess /\ UNCHANGED <<sesVars, guardVars, oidcVars, pc, callVars, histVars>>

\* What the application calls.
Invoke ==
    \/ \E c \in Requests : Send(c)
    \/ \E c \in OidcCalls : OidcLeads(c) \/ OidcJoins(c)
    \/ \E c \in RefreshCalls : RefreshCall(c)
    \/ \E c \in LoginCalls : LoginCall(c)
    \/ \E c \in LogoutCalls : LogoutCall(c)
    \/ \E c \in DeviceCalls : DeviceCall(c)

\* Answers that axios delivers, or gives up on after requestTimeoutMs.
RestAnswer ==
    \/ RunLands \/ RunResolves \/ RunRejects \/ OidcRunResolves \/ OidcRunRejects
    \/ \E c \in RestCalls :
         Succeeds(c) \/ Fails(c) \/ Unauthenticated(c) \/ UnauthenticatedFinal(c)
    \/ \E c \in OidcCalls : OidcDiscovered(c) \/ OidcDiscoveryFails(c)
    \/ \E c \in RefreshCalls : RefreshLands(c) \/ RefreshReturns(c) \/ RefreshThrows(c)
    \/ \E c \in LoginCalls : LoginLands(c) \/ LoginReturns(c) \/ LoginThrows(c)
    \/ \E c \in LogoutCalls : LogoutLands(c) \/ LogoutReturns(c)
    \/ \E c \in DeviceCalls : DeviceReturns(c) \/ DeviceThrows(c)

\* Answers to RPCs, which carry no deadline.
GrpcAnswer ==
    \E c \in GrpcCalls :
        Succeeds(c) \/ Fails(c) \/ Unauthenticated(c) \/ UnauthenticatedFinal(c)

Next == Invoke \/ RestAnswer \/ GrpcAnswer \/ Expire

Spec == Init /\ [][Next]_vars

\* The axios timeout settles every REST request; nothing settles an RPC.
FairSpec == Spec /\ WF_vars(RestAnswer)
-------------------------------------------------------------------------------
(* Properties *)

\* Every variable holds values the code's types allow.
TypeOK ==
    /\ ServerTypeOK
    /\ auth \in BOOLEAN
    /\ {csrf, cached, jar, runTok} \subseteq Token
    /\ device \in DeviceCalls \cup {None}
    /\ guard \in Guarded \cup {None}
    /\ phase \in {"none", "posted", "landed"}
    /\ pending \in OidcCalls \cup {None}
    /\ pc \in [Calls -> PC]
    /\ wire \in [Calls -> Wire]
    /\ retried \in [Requests -> BOOLEAN]
    /\ tries \in [OidcCalls -> Nat]
    /\ prev \in [DeviceCalls -> DeviceCalls \cup {None}]
    /\ attempts \in [Requests -> Nat]
    /\ shown \subseteq Token
    /\ torn \in BOOLEAN /\ risked \in BOOLEAN

\* Nobody waits on a guard that nobody runs: whenever a call awaits the
\* refresh promise the guard is held, by a call that awaits it too and whose
\* POST is on its way (createRefreshGuard's set-then-clear-on-settle).
WaitersHaveARun ==
    /\ \A c \in Calls : pc[c] = "waiting" => guard # None
    /\ guard # None => pc[guard] = "waiting" /\ phase # "none"

\* A request goes out at most twice: the replay after a refresh never opens a
\* second refresh cycle (the _retry flag of the interceptor, the one retry of
\* callWithRefresh).
ReplayedOnce == \A c \in Requests : attempts[c] <= 2

\* What makes the two properties above inductive.  A request's history fits its
\* state: it has gone out once before it waits and twice after it was released.
RequestHistory(c) ==
    /\ pc[c] \in {"idle", "sent", "waiting"} \cup Done
    /\ pc[c] = "idle" => attempts[c] = 0 /\ ~retried[c]
    /\ pc[c] = "sent" => attempts[c] = (IF retried[c] THEN 2 ELSE 1)
    /\ pc[c] = "waiting" => attempts[c] = 1 /\ retried[c]
    /\ attempts[c] \in 0 .. 2
    /\ attempts[c] = 2 => retried[c]

\* The oidcRefresh that is under way is the one #pendingRefresh stands for, and
\* no call is left joined to a promise that has settled.
OneOidcLeader ==
    /\ \A c \in OidcCalls : pc[c] \in {"waiting", "discovering"} => pending = c
    /\ pending # None => pc[pending] \in {"waiting", "discovering"}
    /\ \A c \in Calls : pc[c] = "joined" => c \in OidcCalls /\ pending # None

\* The inductive invariant of the guard: only guarded calls wait, on a run that
\* exists, with the history and the OIDC leader that go with it.
GuardInv ==
    /\ WaitersHaveARun
    /\ \A c \in Requests : RequestHistory(c)
    /\ OneOidcLeader
    /\ \A c \in Calls : pc[c] \in {"waiting", "joined"} => c \in Guarded

\* No answer's cookies are in the jar while the call that fetched them has yet
\* to run its continuation.
JarSettled ==
    /\ phase # "landed"
    /\ \A c \in Calls : pc[c] # "landed"

\* Once the answers that set cookies have been processed, the in-memory copies
\* agree with the jar whatever order they came in: X-CSRF-Token is the jar's or
\* none is sent, and RPCs present the jar's access token
\* (NodeSession.onAuthenticated / doRefresh).  The exception is the code's own:
\* an answer that breaks off behind its headers has set cookies nobody reads
\* back, until the next one that is complete.
CopiesFollowJar ==
    JarSettled /\ ~torn => /\ csrf \in {NoToken, jar}
                           /\ jar # NoToken => cached = jar

\* A burst of expired requests costs nobody the session: as long as no refresh
\* loses its answer, no oidcRefresh fails and the application neither calls
\* refresh() nor signs in or out, a client that was logged in stays authenticated
\* and holds a refresh token the server will redeem, although refresh tokens are
\* single-use (CONTRACT.md section 9 rule 2).
SessionKept == ~risked => auth /\ Redeemable(jar)

\* After a refresh that failed, or whose answer was lost, no request or RPC of a
\* client that still counts as authenticated opens a refresh with the spent
\* token again (CONTRACT.md section 9 rule 3 and its note on lost answers).  The
\* exceptions are the code's own: refresh() and a run that only RPCs wait for
\* fail without giving the session up, so what they presented is presented again
\* (it is not in "shown"); and callWithRefresh does not look at the flag at all.
SpentTokenNeverPresented ==
    [][(guard = None /\ guard' \in Requests /\ auth)
          => runTok' \notin shown \ {NoToken}]_vars

\* oidcRefresh returns a token set only when the closure that just ran was the
\* leading oidcRefresh's own, never off a cookie-session refresh it joined
\* (refreshUnderGuard's "if (refreshed)").
OidcReturnsItsOwnTokens ==
    [][\A c \in OidcCalls :
          (pc[c] # "ok" /\ pc'[c] = "ok") => OidcRun /\ guard = pending]_vars

\* Every REST-side call that was made ends, whatever else is in flight or fails.
CallsSettle == \A c \in Calls \ GrpcCalls : pc[c] # "idle" ~> pc[c] \in Done

\* The calls that await the refresh promise, and the outcome of the refresh a
\* request was released with, as far as its own state tells.
Waiting == {c \in Calls : pc[c] = "waiting"}
Told    == [c \in Requests |->
              IF attempts[c] = 2 THEN "ok"
              ELSE IF retried[c] /\ pc[c] = "failed" THEN "fail"
              ELSE "none"]

\* The session's guard, as REST, gRPC and OIDC use it, is a single-flight
\* guard with result sharing.
Flight == INSTANCE SingleFlight WITH
    Callers <- Guarded,
    Sharers <- Requests,
    owner   <- guard,
    waiting <- Waiting,
    told    <- Told

\* Concurrent 401s and UNAUTHENTICATEDs produce one refresh at a time, and every
\* call that waited acts on that refresh's outcome: all are replayed or all
\* fail (CONTRACT.md section 9 rules 1 and 2, createRefreshGuard).
SharesOneRefresh == Flight!FlightSpec

-------------------------------------------------------------------------------
(* Why CopiesFollowJar, SessionKept and SpentTokenNeverPresented hold *)

\* Somebody has yet to read back the cookies its answer put in the jar.
Syncing ==
    \/ phase = "landed"
    \/ \E c \in RefreshCalls \cup LoginCalls : pc[c] = "landed"

\* A copy is stale only while somebody is about to replace it, or after an answer
\* that broke off; a logout that is about to return drops the CSRF token only.
CopiesInv ==
    /\ phase = "landed" => CookieRun
    /\ jar # NoToken => cached = jar \/ Syncing \/ torn
    /\ \/ csrf \in {NoToken, jar} \/ Syncing \/ torn
       \/ \E c \in LogoutCalls : pc[c] = "landed"

\* The calls that do not change whom the client acts for.
SessionStays == LoginCalls \cup LogoutCalls \cup DeviceCalls = {}

\* The run under way presents the jar's own token, which nobody else can spend as
\* long as the application has not called refresh().
KeptInv ==
    ~risked =>
        /\ auth /\ device = None /\ Redeemable(jar)
        /\ CookieRun /\ phase = "posted" => runTok = jar
        /\ \A c \in RefreshCalls : pc[c] = "idle"

\* The jar is ahead of every token in "shown", but for the one that is being
\* presented, or that was when the session was given up; everything presented is
\* of the jar's session, which the server never has at an older token.
SpentInv ==
    /\ device = None
    /\ jar # NoToken => jar.n <= live[jar.s]
    /\ \A t \in shown \ {NoToken} : t.s = jar.s /\ t.n <= jar.n
    /\ CookieRun /\ phase = "posted" => runTok.s = jar.s
    /\ \A c \in RefreshCalls : pc[c] = "posted" => wire[c].tok.s = jar.s
    /\ jar \in shown \ {NoToken} => ~auth \/ (CookieRun /\ phase = "posted" /\ runTok = jar)
===============================================================================
