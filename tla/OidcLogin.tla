------------------------------ MODULE OidcLogin ------------------------------
(***************************************************************************)
(* The relying party's login (middleware/oidcLoginCore.ts and the handlers *)
(* of express.ts and fastify.ts, over node/oidc.ts and node/oidcState.ts). *)
(* A login discovers the provider, builds the authorization request, pushes*)
(* it where the application does (oidcPar), saves its state and redirects; *)
(* the callback consumes the state, exchanges the code and verifies the ID *)
(* token.  All calls share one discovery cache and one state store.  The   *)
(* authorization server, the browsers and the network are external: the    *)
(* browsers bring any code with any state, again and late.                 *)
(*                                                                         *)
(* The state, the nonce, the verifier and the challenge of a login are     *)
(* fresh random values: the login itself stands for each of them.  Time is *)
(* counted down, so it is unbounded and the states are finite.             *)
(***************************************************************************)
EXTENDS Integers

CONSTANTS Logins,          \* calls of the login handler
          Visits,          \* calls of the callback handler
          ttlMs,           \* the argument of MemoryOidcStateStore
          OIDC_STATE_TTL_MS,
          discoveryTtlMs,  \* the option of OidcClient
          MIN_DISCOVERY_TTL_MS,
          Timeout          \* the session's request timeout

Calls == Logins \cup Visits

Unknown == "unknown"     \* a state, or a code, this server never made

ASSUME LoginAssumption ==
    /\ Logins \cap Visits = {} /\ Unknown \notin Logins
    /\ {ttlMs, OIDC_STATE_TTL_MS, discoveryTtlMs, MIN_DISCOVERY_TTL_MS, Timeout}
          \subseteq Nat \ {0}

VARIABLES pc,        \* where each call is, or the status it was answered with
          visit,     \* what each callback brought, and whether in ten minutes of the redirect
          conf,      \* the discovery document a call uses
          wire,      \* its request, or the answer on its way back
          store,     \* #entries: saved login |-> time left
          document,  \* #documents, for the one origin
          fetch,     \* #inFlight
          server,    \* the authorization server
          codes,     \* the codes it has issued, each for a login, and redeemed
          \* history, read by properties only:
          landed,    \* the fetch has settled
          failed,    \* calls a request of theirs, or one they waited for, failed
          presented, \* how often each login's verifier was sent
          age,       \* time since each state in the store was saved
          since      \* time since the server's document changed, while an old one is held

vars == <<pc, visit, conf, wire, store, document, fetch, server, codes, landed,
          failed, presented, age, since>>

Old == "old"             \* the server's documents, and what they name
New == "new"
Versions == {Old, New}
Documents == Versions \cup {"bad"}   \* "bad": a 200 that is no discovery document

Held       == [is : Documents \cup {"none"}, left : Nat]
NoDocument == [is |-> "none", left |-> 0]
Fetching   == [is : Documents \cup {"none", "asked", "nothing", "refused"}, left : 0 .. Timeout]
NoFetch    == [is |-> "none", left |-> 0]

\* "ok" and "hollow" are one answer to the browser, a 200 or on to returnTo: "hollow"
\* where the token endpoint's 200 had no ID token and vouched for nothing.
Successes == {"ok", "hollow"}
Statuses  == Successes \cup {"302", "400", "401", "503"}
Inside   == {"discovering", "pushing", "exchanging"}

\* An ID token: the nonce and the issuer it names, and whether its signature, its
\* audience and its times are as they should be.
IdTokens == [nonce : Logins \cup {Unknown}, iss : Versions, good : BOOLEAN]
NoIdToken == [nonce |-> Unknown, iss |-> Old, good |-> FALSE]

Brought == [state : Logins \cup {Unknown}, code : Logins \cup {Unknown}, inTime : BOOLEAN]
NoVisit == [state |-> Unknown, code |-> Unknown, inTime |-> TRUE]

Wire == [is : {"quiet", "request", "nothing", "refused", "tokens", "opaque", "hollow",
                "pushed"},
         id : IdTokens]
Answer(is) == [is |-> is, id |-> NoIdToken]
Tokens(t)  == [is |-> "tokens", id |-> t]
Quiet      == Answer("quiet")
Request    == Answer("request")

\* "refused" stands for the answers mapOidcError() makes an AuthError, an
\* AuthzError or an OAuthProtocolError of, "nothing" for its NetworkErrors.  Without
\* an ID token there is "opaque", of a server that has checked the verifier, and
\* "hollow": of one that has not, or a page that is no token response at all.

TypeOK ==
    /\ pc \in [Calls -> {"idle"} \cup Inside \cup Statuses]
    /\ visit \in [Visits -> Brought]
    /\ conf \in [Calls -> Documents \cup {"none"}]
    /\ wire \in [Calls -> Wire]
    /\ DOMAIN store \subseteq Logins
    /\ \A l \in DOMAIN store : store[l] \in 0 .. OIDC_STATE_TTL_MS
    /\ document \in Held
    /\ fetch \in Fetching
    /\ server \in [version : Versions, checks : {"verifier", "nonce"}]
    /\ codes \in [issued : SUBSET Logins, redeemed : SUBSET Logins]
    /\ landed \in BOOLEAN /\ failed \subseteq Calls
    /\ presented \in [Logins -> Nat] /\ age \in [Logins -> Nat] /\ since \in Nat

\* The server checks the verifier, or puts the nonce of the request in its ID
\* tokens; AXIAM does both.
Init ==
    /\ pc = [c \in Calls |-> "idle"]
    /\ visit = [v \in Visits |-> NoVisit]
    /\ conf = [c \in Calls |-> "none"]
    /\ wire = [c \in Calls |-> Quiet]
    /\ store = [l \in {} |-> 0]
    /\ document = NoDocument /\ fetch = NoFetch
    /\ server \in [version : {Old}, checks : {"verifier", "nonce"}]
    /\ codes = [issued |-> {}, redeemed |-> {}]
    /\ landed = TRUE /\ failed = {}
    /\ presented = [l \in Logins |-> 0]
    /\ age = [l \in Logins |-> 0] /\ since = 0

-------------------------------------------------------------------------------
(* MemoryOidcStateStore *)

Lower(a, b) == IF a < b THEN a ELSE b
Upper(a, b) == IF a > b THEN a ELSE b

\* A shorter lifetime is honoured, a longer one is reduced.
lifetime(ttl) == Lower(ttl, OIDC_STATE_TTL_MS)

Sweep(s) == [l \in {k \in DOMAIN s : s[k] > 0} |-> s[l]]

Saved(l) ==
    LET swept == Sweep(store) IN
    [k \in DOMAIN swept \cup {l} |-> IF k = l THEN lifetime(ttlMs) ELSE swept[k]]

Forget(s, l) == [k \in DOMAIN s \ {l} |-> s[k]]

\* Fault: an entry is left for its lifetime to end.
Consumed_Kept(s, l) == s

\* consume(): the entry is deleted before its expiry is looked at.
Consumed(s, l) == Forget(s, l)

Live(l) == l \in DOMAIN store /\ store[l] > 0

-------------------------------------------------------------------------------
(* oidcDiscover() and DiscoveryCache *)

\* Fault: a document is served until another replaces it.
Fresh_Always == document.is # "none"

Fresh == document.is # "none" /\ document.left > 0

\* get(): a document that has not expired, the fetch under way, or a new one.
Discover(c) ==
    \/ /\ Fresh
       /\ conf' = [conf EXCEPT ![c] = document.is]
       /\ UNCHANGED <<fetch, landed>>
    \/ /\ ~Fresh /\ fetch # NoFetch
       /\ UNCHANGED <<conf, fetch, landed>>
    \/ /\ ~Fresh /\ fetch = NoFetch
       /\ fetch' = [is |-> "asked", left |-> Timeout]
       /\ landed' = FALSE
       /\ UNCHANGED conf

\* The server's answer, or what stands in its way: a page that is no document, a
\* refusal (401, 403), or what mapOidcError() makes a NetworkError.
DiscoveryAnswered ==
    /\ fetch.is = "asked"
    /\ \E a \in {server.version, "bad", "refused", "nothing"} :
         fetch' = [fetch EXCEPT !.is = a]
    /\ UNCHANGED <<pc, visit, conf, wire, store, document, server, codes, landed, failed,
                   presented, age, since>>

Waiting(c) == pc[c] = "discovering" /\ conf[c] = "none"

\* Fault: a fetch is forgotten only where it succeeds.
Settled_IfFetched(f) == IF f.is \in Documents THEN NoFetch ELSE f

\* The finally of the fetch.
Settled(f) == NoFetch

discoveryLifetime == Upper(discoveryTtlMs, MIN_DISCOVERY_TTL_MS)

\* Fault: a call that joined another's fetch is not told.
Told_First(c) == \A d \in Calls : Waiting(d) => d = c

Told(c) == Waiting(c)

\* Whoever waits when the fetch settles shares its document or its failure; the
\* lifetime of a document runs from here.
DiscoveryLands ==
    /\ fetch.is \notin {"none", "asked"}
    /\ fetch' = Settled(fetch)
    /\ landed' = TRUE
    /\ failed' = IF landed THEN failed ELSE
                 failed \cup {c \in Calls : Waiting(c) /\ fetch.is \notin Versions}
    /\ \/ /\ fetch.is \in Documents
          /\ document' = [is |-> fetch.is, left |-> discoveryLifetime]
          /\ conf' = [c \in Calls |-> IF Told(c) THEN fetch.is ELSE conf[c]]
          /\ UNCHANGED <<pc, visit>>
       \/ /\ fetch.is \notin Documents
          /\ pc' = [c \in Calls |->
                      IF ~Told(c) THEN pc[c]
                      ELSE IF c \in Visits /\ fetch.is = "refused" THEN "401" ELSE "503"]
          /\ visit' = [v \in Visits |-> IF Told(v) THEN NoVisit ELSE visit[v]]
          /\ UNCHANGED <<document, conf>>
    /\ UNCHANGED <<wire, store, server, codes, presented, age, since>>

-------------------------------------------------------------------------------
(* beginOidcLogin() *)

Login(l) ==
    /\ pc[l] = "idle"
    /\ pc' = [pc EXCEPT ![l] = "discovering"]
    /\ Discover(l)
    /\ UNCHANGED <<visit, wire, store, document, server, codes, failed, presented, age,
                   since>>

\* The state is saved, then the browser is sent away.
Redirect(l) ==
    /\ pc' = [pc EXCEPT ![l] = "302"]
    /\ store' = Saved(l)
    /\ age' = [age EXCEPT ![l] = 0]

\* oidcBegin(), which throws on what is no document.
Begin(l) ==
    /\ pc[l] = "discovering" /\ conf[l] # "none"
    /\ \/ /\ conf[l] = "bad"
          /\ pc' = [pc EXCEPT ![l] = "503"]
          /\ UNCHANGED <<store, age>>
       \/ /\ conf[l] # "bad"
          /\ Redirect(l)
    /\ conf' = [conf EXCEPT ![l] = "none"]
    /\ UNCHANGED <<visit, wire, document, fetch, server, codes, landed, failed, presented,
                   since>>

\* oidcPar(), by an application that pushes the request it has built, or its
\* refusal where the server names no endpoint for it.
Push(l) ==
    /\ pc[l] = "discovering" /\ conf[l] \in Versions
    /\ \/ /\ pc' = [pc EXCEPT ![l] = "pushing"]
          /\ wire' = [wire EXCEPT ![l] = Request]
       \/ /\ pc' = [pc EXCEPT ![l] = "401"]
          /\ UNCHANGED wire
    /\ conf' = [conf EXCEPT ![l] = "none"]
    /\ UNCHANGED <<visit, store, document, fetch, server, codes, landed, failed,
                   presented, age, since>>

\* The redirect names the request_uri; the state saved is the one pushed.
Pushed(l) ==
    /\ pc[l] = "pushing"
    /\ \/ /\ wire[l].is = "pushed"
          /\ Redirect(l)
          /\ UNCHANGED failed
       \/ /\ wire[l].is \in {"nothing", "refused"}
          /\ pc' = [pc EXCEPT ![l] = IF wire[l].is = "nothing" THEN "503" ELSE "401"]
          /\ failed' = failed \cup {l}
          /\ UNCHANGED <<store, age>>
    /\ wire' = [wire EXCEPT ![l] = Quiet]
    /\ UNCHANGED <<visit, conf, document, fetch, server, codes, landed, presented, since>>

-------------------------------------------------------------------------------
(* completeOidcLogin() *)

\* A callback that carries an error, or lacks a parameter, touches no state.
CallbackRefused(v) ==
    /\ pc[v] = "idle"
    /\ \E status \in {"400", "401"} : pc' = [pc EXCEPT ![v] = status]
    /\ UNCHANGED <<visit, conf, wire, store, document, fetch, server, codes, landed,
                   failed, presented, age, since>>

Sent == {l \in Logins : pc[l] = "302"}

\* The entry is consumed before anything is asked of the server, and lost with
\* whatever fails after it.
Callback(v, s, k) ==
    /\ pc[v] = "idle"
    /\ s \in Sent \cup {Unknown} /\ k \in codes.issued \cup {Unknown}
    /\ store' = Consumed(store, s)
    /\ \/ /\ ~Live(s)
          /\ pc' = [pc EXCEPT ![v] = "401"]
          /\ UNCHANGED <<visit, conf, fetch, landed>>
       \/ /\ Live(s)
          /\ visit' = [visit EXCEPT ![v] = [state |-> s, code |-> k,
                                            inTime |-> age[s] < OIDC_STATE_TTL_MS]]
          /\ pc' = [pc EXCEPT ![v] = "discovering"]
          /\ Discover(v)
    /\ UNCHANGED <<wire, document, server, codes, failed, presented, age, since>>

\* oidcExchange(): what is no document names no token endpoint.
Exchange(v) ==
    /\ pc[v] = "discovering" /\ conf[v] # "none"
    /\ \/ /\ conf[v] = "bad"
          /\ pc' = [pc EXCEPT ![v] = "401"]
          /\ conf' = [conf EXCEPT ![v] = "none"]
          /\ visit' = [visit EXCEPT ![v] = NoVisit]
          /\ UNCHANGED <<wire, presented>>
       \/ /\ conf[v] # "bad"
          /\ pc' = [pc EXCEPT ![v] = "exchanging"]
          /\ wire' = [wire EXCEPT ![v] = Request]
          /\ presented' = [presented EXCEPT ![visit[v].state] = @ + 1]
          /\ UNCHANGED <<visit, conf>>
    /\ UNCHANGED <<store, document, fetch, server, codes, landed, failed, age,
                   since>>

\* Fault: the nonce of the login is not passed on.
nonceMatches_Any(t, v) == TRUE

nonceMatches(t, v) == t.nonce = visit[v].state

\* verifyIdToken() and checkIdTokenClaims().
verifyIdToken(t, v) == nonceMatches(t, v) /\ t.iss = conf[v] /\ t.good

\* A token set is taken without an ID token where the answer has none.  Anything
\* but a NetworkError is a 401, the keys that could not be fetched included.
Exchanged(v) ==
    LET a == wire[v] IN
    /\ pc[v] = "exchanging" /\ a.is \notin {"quiet", "request"}
    /\ \/ /\ a.is = "nothing"
          /\ pc' = [pc EXCEPT ![v] = "503"]
          /\ failed' = failed \cup {v}
          /\ visit' = [visit EXCEPT ![v] = NoVisit]
       \/ /\ a.is \in {"refused", "tokens"}
          /\ pc' = [pc EXCEPT ![v] = "401"]
          /\ visit' = [visit EXCEPT ![v] = NoVisit]
          /\ UNCHANGED failed
       \/ /\ \/ a.is \in {"opaque", "hollow"}
             \/ a.is = "tokens" /\ verifyIdToken(a.id, v)
          /\ pc' = [pc EXCEPT ![v] = IF a.is = "hollow" THEN "hollow" ELSE "ok"]
          /\ UNCHANGED <<visit, failed>>
    /\ wire' = [wire EXCEPT ![v] = Quiet]
    /\ conf' = [conf EXCEPT ![v] = "none"]
    /\ UNCHANGED <<store, document, fetch, server, codes, landed, presented, age,
                   since>>

-------------------------------------------------------------------------------
(* The authorization server, the user and the network (external) *)

\* Someone approves the request of a login, and a code comes back with its state.
Authorize(l) ==
    /\ l \in Sent /\ l \notin codes.issued
    /\ codes' = [codes EXCEPT !.issued = @ \cup {l}]
    /\ UNCHANGED <<pc, visit, conf, wire, store, document, fetch, server, landed, failed,
                   presented, age, since>>

ServerPushes(l) ==
    /\ pc[l] = "pushing" /\ wire[l] = Request
    /\ \E a \in {"pushed", "refused", "nothing"} : wire' = [wire EXCEPT ![l] = Answer(a)]
    /\ UNCHANGED <<pc, visit, conf, store, document, fetch, server, codes, landed, failed,
                   presented, age, since>>

\* The token endpoint redeems a code once, and any code may be answered with a 200
\* that says nothing.
ServerExchanges(v) ==
    LET k == visit[v].code IN
    /\ pc[v] = "exchanging" /\ wire[v] = Request
    /\ \/ /\ \E a \in {"refused", "hollow"} : wire' = [wire EXCEPT ![v] = Answer(a)]
          /\ UNCHANGED codes
       \/ /\ k \in codes.issued \ codes.redeemed
          /\ server.checks = "verifier" => visit[v].state = k
          /\ codes' = [codes EXCEPT !.redeemed = @ \cup {k}]
          /\ \/ \E good \in BOOLEAN :
                  wire' = [wire EXCEPT ![v] =
                             Tokens([nonce |-> k, iss |-> server.version, good |-> good])]
             \/ wire' = [wire EXCEPT ![v] =
                           Answer(IF server.checks = "verifier" THEN "opaque" ELSE "hollow")]
    /\ UNCHANGED <<pc, visit, conf, store, document, fetch, server, landed, failed,
                   presented, age, since>>

\* A token request or its answer is lost.
Lost(v) ==
    /\ pc[v] = "exchanging" /\ wire[v].is # "nothing"
    /\ wire' = [wire EXCEPT ![v] = Answer("nothing")]
    /\ UNCHANGED <<pc, visit, conf, store, document, fetch, server, codes, landed, failed,
                   presented, age, since>>

\* The server's document changes: another issuer name, other endpoints.
ServerMoves ==
    /\ server.version = Old
    /\ server' = [server EXCEPT !.version = New]
    /\ UNCHANGED <<pc, visit, conf, wire, store, document, fetch, codes, landed, failed,
                   presented, age, since>>

Down(t) == IF t > 0 THEN t - 1 ELSE 0

\* Time passes, but not past the timeout of the request.  The ages are counted as
\* far as the properties look.
Tick ==
    /\ fetch # NoFetch => fetch.left > 0
    /\ fetch' = [fetch EXCEPT !.left = Down(@)]
    /\ store' = [l \in DOMAIN store |-> Down(store[l])]
    /\ document' = [document EXCEPT !.left = Down(@)]
    /\ age' = [l \in Logins |-> IF l \in DOMAIN store THEN Lower(age[l] + 1, OIDC_STATE_TTL_MS)
                                                      ELSE 0]
    /\ since' = IF server.version = Old \/ Old \notin {document.is, fetch.is} THEN 0
                ELSE Lower(since + 1, discoveryLifetime + Timeout + 1)
    /\ UNCHANGED <<pc, visit, conf, wire, server, codes, landed, failed, presented>>

Next ==
    \/ \E l \in Logins : Login(l) \/ Begin(l) \/ Push(l) \/ Pushed(l)
    \/ \E v \in Visits :
         \/ CallbackRefused(v)
         \/ \E s \in Logins \cup {Unknown}, k \in Logins \cup {Unknown} : Callback(v, s, k)
         \/ Exchange(v) \/ Exchanged(v)
    \/ DiscoveryAnswered \/ DiscoveryLands
    \/ \E l \in Logins : Authorize(l) \/ ServerPushes(l)
    \/ \E v \in Visits : ServerExchanges(v) \/ Lost(v)
    \/ ServerMoves
    \/ Tick

Spec == Init /\ [][Next]_vars

\* Every request is answered or fails, and the code goes on from what it awaits.
Fairness ==
    /\ WF_vars(DiscoveryAnswered) /\ WF_vars(DiscoveryLands)
    /\ \A l \in Logins : WF_vars(Begin(l)) /\ WF_vars(Pushed(l)) /\ WF_vars(ServerPushes(l))
    /\ \A v \in Visits : WF_vars(Exchange(v)) /\ WF_vars(Exchanged(v)) /\ WF_vars(Lost(v))

FairSpec == Spec /\ Fairness

-------------------------------------------------------------------------------
(* Properties *)

\* A callback succeeds only within ten minutes of the redirect whose state it
\* brought and, but for one answer, with the code of that very login, however codes
\* and states are crossed, replayed or delayed and whatever lifetime the store was
\* given: the verifier stops it at a server that enforces PKCE, the nonce at one
\* that does not.  The exception is a 200 without an ID token from where no verifier
\* was checked: #toTokenSet() takes it, no nonce is compared, and any code succeeds
\* (completeOidcLogin, MemoryOidcStateStore, checkIdTokenClaims).
SuccessIsItsOwn ==
    \A v \in Visits : pc[v] \in Successes =>
        visit[v].inTime /\ (visit[v].state = visit[v].code \/ pc[v] = "hollow")

\* No login's verifier is sent twice: of two callbacks that bring the same state,
\* in whatever order they and the discovery they wait for are answered, one at most
\* reaches the token endpoint (consume() before the exchange).
VerifierSentOnce == \A l \in Logins : presented[l] <= 1

\* A login or a callback is answered 503 only for a failure of its own request, or
\* of the discovery it was waiting for when that failed: a failure is shared by those
\* who waited and met by nobody after.  The exception is a page that is no discovery
\* document: it is cached like one, and answers 503 to every login that is given it
\* until its lifetime ends (DiscoveryCache, mapOidcError, beginOidcLogin).
UnavailableIsTrue ==
    [][\A c \in Calls : pc[c] # "503" /\ pc'[c] = "503" =>
            c \in failed' \/ (c \in Logins /\ conf[c] = "bad")]_vars

\* A document the server has replaced is used no later than its lifetime and one
\* request's timeout after, although every login reads it (DiscoveryCache.get).
OldDocumentForgotten ==
    [][\A c \in Calls : conf'[c] = Old /\ conf[c] # Old =>
            since <= discoveryLifetime + Timeout]_vars

\* Every login and every callback that is begun is answered, whoever else waits for
\* the same discovery: each runs once, so in the end none is left inside
\* (beginOidcLogin, completeOidcLogin).
CallsAnswered == <>[](\A c \in Calls : pc[c] \notin Inside)

-------------------------------------------------------------------------------
(* Why they hold *)

\* A state is in the store from its redirect until one callback takes it, and
\* its verifier is unsent until that callback sends it.
StateTakenOnce ==
    /\ \A l \in Logins :
          /\ pc[l] # "302" => l \notin DOMAIN store
          /\ (pc[l] # "302" \/ l \in DOMAIN store) =>
                presented[l] = 0 /\ \A v \in Visits : visit[v].state # l
    /\ \A v, w \in Visits :
          visit[v].state = visit[w].state => v = w \/ visit[v].state = Unknown
    /\ \A v \in Visits : pc[v] = "discovering" =>
          visit[v].state \in Logins /\ presented[visit[v].state] = 0

\* A state that is live is young, and a callback goes on only with one that was.
StateInTime ==
    /\ \A l \in DOMAIN store : store[l] > 0 => age[l] + store[l] <= OIDC_STATE_TTL_MS
    /\ \A v \in Visits : pc[v] \in Successes \cup {"discovering", "exchanging"} => visit[v].inTime

\* What the token endpoint answers is about the code it was sent, and without an
\* ID token only where the verifier was that code's.
AnswerFits ==
    \A v \in Visits :
        /\ pc[v] # "exchanging" => wire[v] = Quiet
        /\ pc[v] = "exchanging" => visit[v].state \in Logins
        /\ wire[v].is = "tokens" => wire[v].id.nonce = visit[v].code
        /\ wire[v].is = "opaque" => visit[v].state = visit[v].code

\* A replaced document on its way, or held, is as young as its time left says.
OldIsYoung ==
    /\ document.left <= discoveryLifetime
    /\ server.version = Old => since = 0
    /\ fetch.is = Old => since + fetch.left <= Timeout
    /\ document.is = Old /\ document.left > 0 =>
          since + document.left <= discoveryLifetime + Timeout

\* A fetch that is joined has not settled yet.
FailureIsKnown == fetch.is # "none" => ~landed

\* The inductive invariant behind the safety properties.
LoginInv ==
    /\ StateTakenOnce /\ StateInTime /\ AnswerFits /\ OldIsYoung /\ FailureIsKnown
    /\ SuccessIsItsOwn /\ VerifierSentOnce
=============================================================================
