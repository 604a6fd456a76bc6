----------------------------- MODULE ResourceGuard -----------------------------
(***************************************************************************)
(* The guard a resource server puts before its routes.  A request passes   *)
(* axiamMiddleware (middleware/express.ts; fastify.ts has the same steps), *)
(* or a guard of the application's own built on verifyDpopProof and        *)
(* authenticateRequest; its token is verified (node/jwks.ts), its session  *)
(* looked up in the revocation feed (node/revocationFeed.ts), then the     *)
(* route asks for a role and for a decision (authzCore.ts,                 *)
(* nestjs/guard.ts) and the handler runs or the client is answered.        *)
(*                                                                         *)
(* An action is one turn of the event loop: what a request does from one   *)
(* await to the next.  The issuer of the tokens, the feed's server, the    *)
(* authorization service and jose are outside src; they appear as what     *)
(* they may answer.                                                        *)
(***************************************************************************)
EXTENDS Integers, FiniteSets, McpMetadata

CONSTANTS Calls,      \* requests in progress
          Requests,   \* requests that may come
          Looks,      \* what each of them looks like
          Carries,    \* which of them each call may be
          Guards,     \* guards an application may ask for
          Config,     \* what each is configured with
          Sids, Jtis, \* session identifiers and DPoP proof identifiers
          Poll,       \* pollIntervalMs
          Skew,       \* CLOCK_SKEW_LEEWAY_SEC
          Leeway,     \* DPOP_IAT_LEEWAY_SEC
          MAX_ENTRIES,
          MaxTime,    \* bound of the clock
          Never       \* no time

ASSUME GuardAssumption ==
    /\ {Poll, Skew, Leeway, MaxTime, MAX_ENTRIES} \subseteq Nat /\ Poll > 0
    /\ Never \notin Nat
    /\ \A S \in SUBSET Sids : Absent # S

VARIABLES now,
          guard,       \* the configuration, never changed
          revoked,     \* sessions the server has revoked
          \* RevocationFeed:
          entries,     \* #entries, Absent until a document has been read
          lastAttempt, \* #lastAttempt
          fetch,       \* #inFlight: "none", or the request is "asked" or "served"
          document,    \* entries of the document that is on its way
          seen,        \* InMemoryJtiStore: until when each jti is taken
          \* requests:
          at,          \* where each request is
          req,         \* what it looks like
          said,        \* what the authorization service said of it, or that its key
                       \* could not be had
          answer,      \* what its client was told
          \* history, read by properties only:
          verified,    \* time its token was verified
          heard,       \* sessions listed in a document that was read
          owed,        \* sessions revoked when the last attempt began, unless it failed
          spent        \* jtis of proofs that were accepted

feedVars == <<entries, lastAttempt, fetch, document, heard, owed>>
callVars == <<at, req, said, answer, verified>>
vars     == <<now, guard, revoked, feedVars, seen, callVars, spent>>

Cfg    == Config[guard]
Nest   == Cfg.route.adapter = "nest"
Its(c) == Looks[req[c]]

Pending    == {"proof", "verify", "feed", "check", "mint"}
Unanswered == [status |-> 0, challenge |-> Absent]

-------------------------------------------------------------------------------
(* What is checked *)

\* extractCredential: a cookie goes before a header.
Token(r) == IF r.cookie # Absent THEN r.cookie ELSE r.bearer

\* A jti names one proof, as RFC 9449 asks of the client.
ASSUME RequestAssumption ==
    /\ \A c \in Calls : Carries[c] \subseteq Requests
    /\ \A q \in Requests :
         /\ Token(Looks[q]) # Absent => Token(Looks[q]).exp \in Int
         /\ Looks[q].proof # Absent => Looks[q].proof.jti \in Jtis /\ Looks[q].proof.iat \in Int
    /\ \A p, q \in {q \in Requests : Looks[q].proof # Absent} :
         Looks[p].proof.jti = Looks[q].proof.jti => Looks[p].proof.iat = Looks[q].proof.iat

CsrfHolds(r) == r.cookie # Absent /\ r.method \notin {"GET", "HEAD", "OPTIONS"} => r.csrf = "match"

\* jwtVerify, as jose documents it: signature, exp, and what is configured.
jwtVerify(t) ==
    /\ t.sound
    /\ t.exp > now - Skew
    /\ Cfg.expectedIssuer # Absent => t.iss = Cfg.expectedIssuer
    /\ Cfg.expectedAudience # Absent => t.aud = Cfg.expectedAudience

assertTenantClaim(t) == Cfg.tenant # Absent /\ t.tenant # Absent /\ t.tenant = Cfg.tenant

\* Fault: a confirmation that names no known method is read as none.
verifyTokenBinding_Lenient(t, proofs) ==
    t.cnf # Absent =>
        /\ t.cnf.x5t # Absent => t.cnf.x5t = proofs.cert
        /\ t.cnf.jkt # Absent => t.cnf.jkt = proofs.dpop

\* A confirmation is a conjunction, and one that names no known method fails.
verifyTokenBinding(t, proofs) ==
    t.cnf # Absent =>
        /\ t.cnf.x5t # Absent \/ t.cnf.jkt # Absent
        /\ t.cnf.x5t # Absent => t.cnf.x5t = proofs.cert
        /\ t.cnf.jkt # Absent => t.cnf.jkt = proofs.dpop

verifyAccessToken(t, proofs) == jwtVerify(t) /\ assertTenantClaim(t) /\ verifyTokenBinding(t, proofs)

\* Every check of verifyDpopProof but the last.
ProofHolds(p) == p.sound /\ p.iat - now \in -Leeway .. Leeway

\* What the transport, and the guard before it, found out about the sender.
Proofs(r) == [cert |-> r.cert,
              dpop |-> IF Cfg.entry = "custom" /\ r.proof # Absent THEN r.proof.key ELSE Absent]

ChallengesOf == [g \in Guards |-> mcpGuardChallenges(Config[g], Config[g].route.scope)]
Challenges == ChallengesOf[guard]

-------------------------------------------------------------------------------
(* The revocation feed *)

\* refreshIfStale.
Stale == lastAttempt = Never \/ now - lastAttempt >= Poll

\* refresh: whoever comes while a fetch is under way waits for that one.
refresh ==
    IF fetch # "none" THEN UNCHANGED feedVars
    ELSE /\ lastAttempt' = now
         /\ fetch' = "asked"
         /\ owed' = revoked
         /\ UNCHANGED <<entries, document, heard>>

\* isRevoked, once nothing is awaited: a set never read lists nobody.
isRevoked(known, t) == known # Absent /\ t.sid \in known

\* The application asks for a refresh itself.
Refresh ==
    /\ Cfg.feed
    /\ refresh
    /\ UNCHANGED <<now, guard, revoked, seen, callVars, spent>>

\* The server reads its table.
FeedServes ==
    /\ fetch = "asked"
    /\ fetch' = "served"
    /\ document' = revoked
    /\ UNCHANGED <<now, guard, revoked, entries, lastAttempt, heard, owed, seen, callVars, spent>>

-------------------------------------------------------------------------------
(* What becomes of a request *)

Reply(status, challenge) == [at |-> "answered", answer |-> [status |-> status, challenge |-> challenge]]
GoOn(stop) == [at |-> stop, answer |-> Unanswered]

NoCredential == challengeFor401(Challenges, FALSE)
InvalidToken == challengeFor401(Challenges, TRUE)
NoIdentity(r) == Reply(401, challengeFor401(Challenges, Token(r) # Absent))

requireRole(r, authenticated) ==
    IF ~authenticated THEN NoIdentity(r)
    ELSE IF Cfg.route.role \in Token(r).roles THEN GoOn("handled") ELSE Reply(403, Absent)

requireAccess(r, authenticated) ==
    IF ~authenticated THEN NoIdentity(r)
    ELSE IF r.resolves THEN GoOn("check") ELSE Reply(400, Absent)

\* AxiamGuard.canActivate asks for both at once, and sends no challenge.
canActivate(r, authenticated) ==
    LET rt == Cfg.route
    IN  IF rt.role = Absent /\ ~rt.access THEN GoOn("handled")
        ELSE IF ~authenticated THEN Reply(401, Absent)
        ELSE IF rt.role # Absent /\ rt.role \notin Token(r).roles THEN Reply(403, Absent)
        ELSE IF ~rt.access THEN GoOn("handled")
        ELSE IF ~r.resolves THEN Reply(400, Absent)
        ELSE GoOn("check")

\* What a route asks of a request before its handler runs, up to the check.
Route(r, authenticated) ==
    LET first  == IF Cfg.route.role = Absent THEN GoOn("handled") ELSE requireRole(r, authenticated)
        second == IF Cfg.route.access THEN requireAccess(r, authenticated) ELSE GoOn("handled")
    IN  IF Nest THEN canActivate(r, authenticated)
        ELSE IF first.at = "handled" THEN second ELSE first

Goes(c, next) ==
    /\ at' = [at EXCEPT ![c] = next.at]
    /\ answer' = [answer EXCEPT ![c] = next.answer]

\* axiamMiddleware up to its first await.  A request for the metadata document
\* passes on, to the route that answers it.
Enters(r) ==
    IF Cfg.entry = "none" THEN Route(r, FALSE)
    ELSE IF isMetadataDocumentRequest(Challenges, r.method, r.path) THEN Reply(200, Absent)
    ELSE IF Token(r) = Absent THEN Reply(401, NoCredential)
    ELSE IF ~CsrfHolds(r) THEN Reply(403, Absent)
    ELSE IF Cfg.entry = "custom" /\ r.proof # Absent THEN GoOn("proof")
    ELSE GoOn("verify")

Arrive(c, q) ==
    /\ at[c] = "free"
    /\ req' = [req EXCEPT ![c] = q]
    /\ Goes(c, Enters(Looks[q]))
    /\ UNCHANGED <<now, guard, revoked, feedVars, seen, said, verified, spent>>

\* Fault: a proof is kept for as long as it is new only.
Taken_Briefly(j) == seen[j] # Never /\ seen[j] - Leeway > now

\* InMemoryJtiStore.claim refuses a jti until it has run out.
Taken(j) == seen[j] # Never /\ seen[j] > now

\* verifyDpopProof: the jti is claimed last, in the turn that read the clock.
VerifyProof(c) ==
    /\ at[c] = "proof"
    /\ LET p == Its(c).proof
           ok == ProofHolds(p) /\ ~Taken(p.jti)
       IN  /\ Goes(c, IF ok THEN GoOn("verify") ELSE Reply(401, InvalidToken))
           /\ seen' = IF ok THEN [seen EXCEPT ![p.jti] = p.iat + Leeway] ELSE seen
           /\ spent' = IF ok THEN spent \cup {p.jti} ELSE spent
    /\ UNCHANGED <<now, guard, revoked, feedVars, req, said, verified>>

\* authenticateRequest, up to the feed.  A key set that cannot be fetched, or that
\* jose will not fetch again yet, fails a token like any other reason.
Verify(c, keyed) ==
    /\ at[c] = "verify"
    /\ LET r == Its(c)
           t == Token(r)
           valid == keyed /\ verifyAccessToken(t, Proofs(r)) /\ t.sub
           asks == valid /\ Cfg.feed /\ t.sid # Absent
       IN  /\ IF asks /\ Stale THEN refresh ELSE UNCHANGED feedVars
           /\ Goes(c, IF ~valid THEN Reply(401, InvalidToken)
                      ELSE IF asks /\ Stale THEN GoOn("feed")
                      ELSE IF asks /\ isRevoked(entries, t) THEN Reply(401, InvalidToken)
                      ELSE Route(r, TRUE))
           /\ verified' = [verified EXCEPT ![c] = IF valid THEN now ELSE @]
    /\ said' = [said EXCEPT ![c] = IF keyed THEN @ ELSE "no_key"]
    /\ UNCHANGED <<now, guard, revoked, seen, req, spent>>

\* Every request that waits for the fetch goes on in the turn it settles in.
Settle(known) ==
    LET next(c) ==
            IF at[c] # "feed" THEN [at |-> at[c], answer |-> answer[c]]
            ELSE IF isRevoked(known, Token(Its(c))) THEN Reply(401, InvalidToken)
            ELSE Route(Its(c), TRUE)
    IN  /\ fetch' = "none"
        /\ entries' = known
        /\ document' = {}
        /\ at' = [c \in Calls |-> next(c).at]
        /\ answer' = [c \in Calls |-> next(c).answer]
        /\ UNCHANGED <<now, guard, revoked, lastAttempt, seen, req, said, verified, spent>>

\* doRefresh: a document that can be used replaces the set.
FeedLands ==
    /\ fetch = "served"
    /\ Cardinality(document) <= MAX_ENTRIES
    /\ Settle(document)
    /\ heard' = heard \cup document
    /\ UNCHANGED owed

\* Fault: a document that cannot be used empties the set.
FeedFails_Empties ==
    /\ fetch # "none"
    /\ Settle({})
    /\ owed' = {}
    /\ UNCHANGED heard

\* No answer, no 200, another alg, too many entries: the set stays.
FeedFails ==
    /\ fetch # "none"
    /\ Settle(entries)
    /\ owed' = {}
    /\ UNCHANGED heard

Verdict(d) == CASE d = "allowed" -> "allow"
                [] d \in {"no_grant", "reason", "AuthzError"} -> "deny"
                [] OTHER -> "unavailable"

\* evaluateAccess: a decision, a refusal, or no answer.
CheckAnswers(c, d) ==
    /\ at[c] = "check"
    /\ said' = [said EXCEPT ![c] = d]
    /\ LET denial == Reply(403, IF Nest THEN Absent ELSE challengeFor403(Challenges, d))
       IN  Goes(c, IF Verdict(d) = "allow" THEN GoOn("handled")
                   ELSE IF Verdict(d) = "unavailable" THEN Reply(503, Absent)
                   ELSE IF Cfg.route.uma /\ ~Nest THEN [denial EXCEPT !.at = "mint"]
                   ELSE denial)
    /\ UNCHANGED <<now, guard, revoked, feedVars, seen, req, verified, spent>>

\* Fault: a ticket that cannot be minted is not caught.
MintAnswers_Throws(c, ok) ==
    /\ at[c] = "mint"
    /\ Goes(c, IF ok THEN Reply(403, "ticket") ELSE GoOn("lost"))
    /\ UNCHANGED <<now, guard, revoked, feedVars, seen, req, said, verified, spent>>

\* deny: a ticket replaces the challenge; without one the denial is plain.
MintAnswers(c, ok) ==
    /\ at[c] = "mint"
    /\ Goes(c, Reply(403, IF ok THEN "ticket" ELSE answer[c].challenge))
    /\ UNCHANGED <<now, guard, revoked, feedVars, seen, req, said, verified, spent>>

\* The response is sent, and the next request may come.
Leave(c) ==
    /\ at[c] \in {"handled", "answered"}
    /\ at' = [at EXCEPT ![c] = "free"]
    /\ answer' = [answer EXCEPT ![c] = Unanswered]
    /\ said' = [said EXCEPT ![c] = Absent]
    /\ verified' = [verified EXCEPT ![c] = Never]
    /\ req' = [req EXCEPT ![c] = Absent]
    /\ UNCHANGED <<now, guard, revoked, feedVars, seen, spent>>

-------------------------------------------------------------------------------
(* The server and the clock *)

Revoke(s) ==
    /\ s \notin revoked
    /\ revoked' = revoked \cup {s}
    /\ UNCHANGED <<now, guard, feedVars, seen, callVars, spent>>

Tick ==
    /\ now < MaxTime
    /\ now' = now + 1
    /\ UNCHANGED <<guard, revoked, feedVars, seen, callVars, spent>>

-------------------------------------------------------------------------------

\* A factory that throws leaves no guard; a document is served by the guard
\* that announces it.
Built(g) ==
    /\ mcpGuardChallenges(g, g.route.scope) # Refused
    /\ g.metadata # Absent =>
        /\ protectedResourceMetadata(g.metadata) # Refused
        /\ serveProtectedResourceMetadata(protectedResourceMetadata(g.metadata), g)

Init ==
    /\ now = 0
    /\ guard \in {g \in Guards : Built(Config[g])}
    /\ revoked = {}
    /\ entries = Absent /\ lastAttempt = Never /\ fetch = "none" /\ document = {}
    /\ heard = {} /\ owed = {}
    /\ seen = [j \in Jtis |-> Never]
    /\ at = [c \in Calls |-> "free"]
    /\ req = [c \in Calls |-> Absent]
    /\ said = [c \in Calls |-> Absent]
    /\ answer = [c \in Calls |-> Unanswered]
    /\ verified = [c \in Calls |-> Never]
    /\ spent = {}

Decisions  == {"allowed", "no_grant", "reason", "AuthzError", "NetworkError", "throws"}
Said       == Decisions \cup {"no_key", Absent}
Sent       == {"noCredential", "invalidToken", "insufficientScope", "ticket"}

ASSUME AbsentAssumption == Absent \notin Decisions \cup Sent

\* What the request was waiting for happens.
GoesOn(c) ==
    \/ VerifyProof(c)
    \/ \E keyed \in BOOLEAN : Verify(c, keyed)
    \/ \E d \in Decisions : CheckAnswers(c, d)
    \/ \E ok \in BOOLEAN : MintAnswers(c, ok)

Next ==
    \/ \E c \in Calls : (\E q \in Carries[c] : Arrive(c, q)) \/ GoesOn(c) \/ Leave(c)
    \/ Refresh \/ FeedServes \/ FeedLands \/ FeedFails
    \/ \E s \in Sids : Revoke(s)
    \/ Tick

Spec == Init /\ [][Next]_vars

\* A promise that was awaited settles: jose's own timeout ends a JWKS fetch,
\* the HTTP stack's a feed fetch, the retry bound a check.  Each formula is the
\* weak fairness of its action, whose ENABLED is written out.
Fairness ==
    /\ []<>(fetch = "none") \/ []<><<FeedLands \/ FeedFails>>_vars
    /\ \A c \in Calls : []<>(at[c] \notin Pending \ {"feed"}) \/ []<><<GoesOn(c)>>_vars

FairSpec == Spec /\ Fairness

-------------------------------------------------------------------------------
(* Properties *)

Times   == 0 .. MaxTime + 2 * Leeway
Answers == [status : {0, 200, 400, 401, 403, 503}, challenge : Sent \cup {Absent}]

\* Type correctness of the guard, the feed and the requests in progress.
TypeOK ==
    /\ now \in 0 .. MaxTime /\ guard \in Guards
    /\ revoked \subseteq Sids
    /\ entries \in (SUBSET Sids) \cup {Absent} /\ lastAttempt \in Times \cup {Never}
    /\ fetch \in {"none", "asked", "served"} /\ document \subseteq revoked
    /\ (fetch # "none" => lastAttempt # Never) /\ heard \subseteq revoked /\ owed \subseteq revoked
    /\ seen \in [Jtis -> Times \cup {Never}] /\ spent = {j \in Jtis : seen[j] # Never}
    /\ at \in [Calls -> Pending \cup {"free", "handled", "answered"}]
    /\ req \in [Calls -> Requests \cup {Absent}]
    /\ said \in [Calls -> Said]
    /\ answer \in [Calls -> Answers]
    /\ verified \in [Calls -> Times \cup {Never}]

\* Of a token that is bound to keys: each of them was shown to this guard, the
\* DPoP key by a proof it accepted; a binding to nothing known cannot be shown.
PossessionShown(t, r) ==
    t.cnf # Absent =>
        /\ {t.cnf.x5t, t.cnf.jkt} # {Absent}
        /\ t.cnf.x5t \in {Absent, r.cert}
        /\ t.cnf.jkt # Absent =>
            /\ Cfg.entry = "custom" /\ r.proof # Absent
            /\ r.proof.sound /\ r.proof.key = t.cnf.jkt /\ r.proof.jti \in spent

\* Everything the guard stands for holds of the request of c.
Acceptable(c) ==
    LET r == Its(c)
        t == Token(r)
        rt == Cfg.route
    IN  /\ Cfg.entry = "none" => rt.role = Absent /\ ~rt.access
        /\ Cfg.entry # "none" =>
            /\ t # Absent /\ t.sound /\ t.tenant = Cfg.tenant
            /\ verified[c] # Never /\ verified[c] < t.exp + Skew
            /\ Cfg.metadata # Absent => t.aud = Cfg.metadata.resource
            /\ PossessionShown(t, r)
            /\ r.cookie # Absent /\ r.method = "POST" => r.csrf = "match"
            /\ rt.role \in t.roles \cup {Absent}
            /\ rt.access => said[c] = "allowed"

\* The handler of a guarded route runs for a request only when everything the
\* guard stands for holds of it: whose token it is, for whom it was issued
\* and, if the server announces itself, for the resource it announces; who
\* sent it, that a browser meant to send it, the role and the decision.
HandledIsAcceptable == \A c \in Calls : at[c] = "handled" => Acceptable(c)

\* A request nothing is wrong with, whenever it comes.
Blameless(r) ==
    LET t == Token(r)
    IN  /\ t # Absent /\ t.sound /\ t.sub /\ t.exp > MaxTime
        /\ t.tenant \in {Cfg.tenant} \ {Absent} /\ Cfg.expectedIssuer \in {Absent, t.iss}
        /\ Cfg.expectedAudience \in {Absent, t.aud}
        /\ t.cnf # Absent => (t.cnf.jkt = Absent /\ t.cnf.x5t \in {r.cert} \ {Absent})
        /\ Cfg.entry = "middleware" \/ r.proof = Absent

\* Answer a to request r, of which d was said, has its cause.
Caused(r, a, d) ==
    /\ a.status = 401 /\ Cfg.entry # "none" /\ Blameless(r) =>
        Token(r).sid \in revoked \/ d = "no_key"
    /\ a.status = 403 =>
        \/ r.cookie # Absent /\ r.csrf # "match"
        \/ Cfg.route.role # Absent /\ Cfg.route.role \notin Token(r).roles
        \/ d \in {"no_grant", "reason", "AuthzError"}
    /\ a.status = 503 => d \in {"NetworkError", "throws"}
    /\ a.challenge \notin {Absent, "ticket"} => Cfg.resourceMetadataUrl # Absent
    /\ a.challenge = "invalidToken" => Token(r) # Absent
    /\ a.challenge = "insufficientScope" => d = "no_grant"

\* A client is told no for a reason: a decision that could not be had is a 503
\* and never a 403, more scope is asked for only where the service found no
\* grant, and a blameless request gets a 401 only if its session was revoked or,
\* the one outage the code does answer like a bad token, its key could not be
\* had.
RefusedOnlyForCause ==
    \A c \in Calls : at[c] = "answered" => Caused(Its(c), answer[c], said[c])

\* In this step the guard lets a request past the feed.
Admits(c) ==
    /\ at[c] \in {"verify", "feed"} /\ at'[c] \notin {at[c], "feed"}
    /\ answer'[c].status # 401

\* A session that a document which was read had listed is never let in again,
\* whatever later attempts bring.  Where no fetch is under way, nobody is let in
\* whose session was revoked when the last attempt began, if that brought a
\* document, nor judged when that attempt is a poll interval old without having
\* waited for the next.  While one is under way, who comes within a poll interval
\* of its start is judged by the set before it, however old that is.
RevocationHonoured ==
    [][\A c \in Calls : Cfg.feed /\ Admits(c) /\ Token(Its(c)).sid # Absent =>
            /\ Token(Its(c)).sid \notin heard'
            /\ fetch' = "none" => Token(Its(c)).sid \notin owed'
            /\ at[c] = "feed" \/ now - lastAttempt < Poll]_vars

\* A DPoP proof is accepted a second time only in the very instant its window
\* ends, which the freshness check still includes and the jti's entry no longer.
ProofReplayedOnlyAtTheEdge ==
    [][\A c \in Calls : at[c] = "proof" /\ at'[c] = "verify" /\ Its(c).proof.jti \in spent =>
            now = Its(c).proof.iat + Leeway]_vars

\* Every request is answered or handled, whatever the feed, the authorization
\* service and the ticket endpoint answer or fail to.
RequestsAnswered == \A c \in Calls : at[c] \in Pending ~> at[c] \in {"answered", "handled"}

-------------------------------------------------------------------------------
(* Why they hold *)

\* What is known of a request that waits at a stop.
Presented(r) == Cfg.entry # "none" /\ Token(r) # Absent /\ CsrfHolds(r)

ProofAccepted(r) ==
    Cfg.entry = "custom" /\ r.proof # Absent => r.proof.sound /\ r.proof.jti \in spent

Identified(c) ==
    LET r == Its(c)
        t == Token(r)
    IN  /\ Presented(r) /\ PossessionShown(t, r)
        /\ t.sound /\ t.tenant = Cfg.tenant
        /\ verified[c] # Never /\ verified[c] < t.exp + Skew
        /\ Cfg.metadata # Absent => t.aud = Cfg.metadata.resource

HasRole(r) == Cfg.route.role \in Token(r).roles \cup {Absent}

\* Each stop is reached past all the ones before it, and a denial that waits for a
\* ticket has its cause already.
PastItsStops(c) ==
    /\ at[c] # "free" => req[c] \in Requests
    /\ at[c] \in {"proof", "verify"} => Presented(Its(c))
    /\ at[c] = "proof" => Cfg.entry = "custom" /\ Its(c).proof # Absent
    /\ at[c] = "verify" => ProofAccepted(Its(c))
    /\ at[c] \in {"feed", "check", "mint"} => Identified(c)
    /\ at[c] \in {"check", "mint"} => HasRole(Its(c))
    /\ at[c] = "mint" => answer[c].status = 403 /\ Caused(Its(c), answer[c], said[c])
                         /\ said[c] \in {"no_grant", "reason", "AuthzError"}

\* What was heard is still held, and in whatever document is on its way; so is
\* what was owed, once it is served.
NothingForgotten ==
    /\ entries = Absent => heard = {} /\ (fetch = "none" => owed = {})
    /\ entries # Absent => /\ heard \subseteq entries /\ entries \subseteq revoked
                           /\ fetch = "none" => owed \subseteq entries
    /\ fetch = "served" => heard \cup owed \subseteq document

\* A jti is taken until its proof's window ends.
TakenForItsWindow ==
    \A q \in Requests : Looks[q].proof # Absent =>
        seen[Looks[q].proof.jti] \in {Never, Looks[q].proof.iat + Leeway}

\* The inductive invariant behind the safety properties.
GuardInv ==
    /\ TypeOK /\ Built(Cfg)
    /\ \A c \in Calls : PastItsStops(c)
    /\ NothingForgotten /\ TakenForItsWindow
    /\ HandledIsAcceptable /\ RefusedOnlyForCause
===============================================================================
