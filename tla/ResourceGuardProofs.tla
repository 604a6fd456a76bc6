-------------------------- MODULE ResourceGuardProofs --------------------------
(***************************************************************************)
(* What the guard of a resource server guarantees for every configuration, *)
(* set of requests and tokens, leeway and poll interval: what it lets      *)
(* through, what it refuses, and what becomes of revoked sessions and of   *)
(* proofs that come again.                                                 *)
(***************************************************************************)
EXTENDS ResourceGuard, TLAPS

Stops == [at : Pending \cup {"handled", "answered"}, answer : Answers]

\* What is known of one call, all of it.
CallOK(c) ==
    /\ PastItsStops(c)
    /\ at[c] = "handled" => Acceptable(c)
    /\ at[c] = "answered" => Caused(Its(c), answer[c], said[c])

\* The parts of TypeOK the steps disturb together.
FeedTyped ==
    /\ revoked \subseteq Sids
    /\ entries \in (SUBSET Sids) \cup {Absent} /\ lastAttempt \in Times \cup {Never}
    /\ fetch \in {"none", "asked", "served"} /\ document \subseteq revoked
    /\ (fetch # "none" => lastAttempt # Never) /\ heard \subseteq revoked /\ owed \subseteq revoked

ProofsTyped == seen \in [Jtis -> Times \cup {Never}] /\ spent = {j \in Jtis : seen[j] # Never}

CallsTyped ==
    /\ at \in [Calls -> Pending \cup {"free", "handled", "answered"}]
    /\ req \in [Calls -> Requests \cup {Absent}]
    /\ said \in [Calls -> Said]
    /\ answer \in [Calls -> Answers]
    /\ verified \in [Calls -> Times \cup {Never}]

LEMMA TypeOKParts ==
    TypeOK <=> now \in 0 .. MaxTime /\ guard \in Guards /\ FeedTyped /\ ProofsTyped /\ CallsTyped
BY DEF TypeOK, FeedTyped, ProofsTyped, CallsTyped

LEMMA GuardInvParts ==
    GuardInv <=> /\ now \in 0 .. MaxTime /\ guard \in Guards /\ Built(Cfg)
                 /\ FeedTyped /\ ProofsTyped /\ CallsTyped
                 /\ \A c \in Calls : CallOK(c)
                 /\ NothingForgotten /\ TakenForItsWindow
BY TypeOKParts DEF GuardInv, CallOK, HandledIsAcceptable, RefusedOnlyForCause

-------------------------------------------------------------------------------
(* Answers and routes *)

\* A challenge is sent by a guard that announces itself, and an invalid token is
\* one that was presented.
LEMMA ChallengeIsOwn ==
    ASSUME guard \in Guards, NEW p \in BOOLEAN
    PROVE  LET h == challengeFor401(Challenges, p)
           IN  /\ h \in Sent \cup {Absent}
               /\ h # Absent => Cfg.resourceMetadataUrl # Absent
               /\ h = "invalidToken" => p
               /\ h \notin {"ticket", "insufficientScope"}
<1>1. Challenges = mcpGuardChallenges(Cfg, Cfg.route.scope)
  BY DEF Challenges, ChallengesOf, Cfg
<1>2. Cfg.resourceMetadataUrl = Absent => Challenges = Absent
  BY <1>1 DEF mcpGuardChallenges
<1> QED
  BY <1>2, AbsentAssumption DEF challengeFor401, Sent

\* More scope is asked for by a guard that announces itself, of one who has no grant.
LEMMA ScopeIsOwn ==
    ASSUME guard \in Guards, NEW d \in Decisions
    PROVE  LET h == challengeFor403(Challenges, d)
           IN  /\ h \in {"insufficientScope", Absent}
               /\ h # Absent => Cfg.resourceMetadataUrl # Absent /\ d = "no_grant"
<1>1. Challenges = mcpGuardChallenges(Cfg, Cfg.route.scope)
  BY DEF Challenges, ChallengesOf, Cfg
<1>2. Cfg.resourceMetadataUrl = Absent => Challenges = Absent
  BY <1>1 DEF mcpGuardChallenges
<1> QED
  BY <1>2 DEF challengeFor403

\* Answers that need no more than what they say.
LEMMA Replies ==
    ASSUME NEW s \in {200, 400, 401, 403, 503}, NEW h \in Sent \cup {Absent}
    PROVE  /\ Reply(s, h) \in Stops /\ Reply(s, h).at = "answered"
           /\ Reply(s, h).answer = [status |-> s, challenge |-> h]
           /\ Reply(s, h).answer.status = s /\ Reply(s, h).answer.challenge = h
BY DEF Reply, Stops, Answers, Pending

LEMMA Passes ==
    ASSUME NEW stop \in Pending \cup {"handled", "answered"}
    PROVE  GoOn(stop) \in Stops /\ GoOn(stop).at = stop /\ GoOn(stop).answer = Unanswered
BY DEF GoOn, Stops, Answers, Unanswered

LEMMA PlainDenials ==
    ASSUME NEW r, NEW d
    PROVE  /\ Caused(r, Reply(400, Absent).answer, d) /\ Caused(r, Reply(200, Absent).answer, d)
           /\ Cfg.route.role # Absent /\ Cfg.route.role \notin Token(r).roles
                => Caused(r, Reply(403, Absent).answer, d)
           /\ r.cookie # Absent /\ r.csrf # "match" => Caused(r, Reply(403, Absent).answer, d)
<1>1. /\ Reply(400, Absent).answer.status = 400 /\ Reply(400, Absent).answer.challenge = Absent
      /\ Reply(200, Absent).answer.status = 200 /\ Reply(200, Absent).answer.challenge = Absent
      /\ Reply(403, Absent).answer.status = 403 /\ Reply(403, Absent).answer.challenge = Absent
  BY DEF Reply, Stops, Answers, Pending
<1> QED
  BY <1>1, AbsentAssumption DEF Caused, Sent

\* A 401 that is not a blameless request's, with the challenge the guard has for it.
LEMMA Unauthorized ==
    ASSUME guard \in Guards, NEW r, NEW d, NEW p \in BOOLEAN, p => Token(r) # Absent,
           Cfg.entry # "none" /\ Blameless(r) => Token(r).sid \in revoked \/ d = "no_key"
    PROVE  LET n == Reply(401, challengeFor401(Challenges, p))
           IN  n \in Stops /\ n.at = "answered" /\ Caused(r, n.answer, d)
<1> DEFINE h == challengeFor401(Challenges, p)
<1>1. /\ h \in Sent \cup {Absent}
      /\ h # Absent => Cfg.resourceMetadataUrl # Absent
      /\ h = "invalidToken" => Token(r) # Absent
      /\ h # "insufficientScope"
  BY ChallengeIsOwn
<1> HIDE DEF h
<1>2. /\ Reply(401, h) \in Stops /\ Reply(401, h).at = "answered"
      /\ Reply(401, h).answer.status = 401 /\ Reply(401, h).answer.challenge = h
  BY <1>1 DEF Reply, Stops, Answers, Pending
<1>3. Caused(r, Reply(401, h).answer, d)
  BY <1>1, <1>2 DEF Caused
<1> QED
  BY <1>2, <1>3 DEF h

\* A route lets an identified request on if it has the role, and to its handler if
\* no decision is asked for; what it answers instead has its cause.
LEMMA RouteWithIdentity ==
    ASSUME NEW r, NEW d
    PROVE  LET n == Route(r, TRUE)
           IN  /\ n \in Stops /\ n.at \in {"handled", "check", "answered"}
               /\ n.at # "answered" => HasRole(r)
               /\ n.at = "handled" => ~Cfg.route.access
               /\ n.at = "answered" => Caused(r, n.answer, d) /\ n.answer.status # 401
<1> DEFINE n == Route(r, TRUE)
<1>1. \/ n = GoOn("handled") /\ HasRole(r) /\ ~Cfg.route.access
      \/ n = GoOn("check") /\ HasRole(r)
      \/ n = Reply(403, Absent) /\ Cfg.route.role # Absent /\ Cfg.route.role \notin Token(r).roles
      \/ n = Reply(400, Absent)
  BY DEF Route, canActivate, requireRole, requireAccess, HasRole, GoOn, Reply
<1>2. /\ Reply(403, Absent) \in Stops /\ Reply(403, Absent).at = "answered"
      /\ Reply(403, Absent).answer.status = 403
      /\ Reply(400, Absent) \in Stops /\ Reply(400, Absent).at = "answered"
      /\ Reply(400, Absent).answer.status = 400
  BY DEF Reply, Stops, Answers, Pending
<1>3. /\ GoOn("handled") \in Stops /\ GoOn("handled").at = "handled"
      /\ GoOn("check") \in Stops /\ GoOn("check").at = "check"
  BY Passes DEF Pending
<1>4. Caused(r, Reply(400, Absent).answer, d)
  BY PlainDenials
<1>5. Cfg.route.role # Absent /\ Cfg.route.role \notin Token(r).roles
        => Caused(r, Reply(403, Absent).answer, d)
  BY PlainDenials
<1> HIDE DEF n
<1>6. /\ n \in Stops /\ n.at \in {"handled", "check", "answered"}
      /\ n.at # "answered" => HasRole(r)
      /\ n.at = "handled" => ~Cfg.route.access
      /\ n.at = "answered" => Caused(r, n.answer, d) /\ n.answer.status # 401
  <2>1. CASE n = GoOn("handled") /\ HasRole(r) /\ ~Cfg.route.access
    BY <2>1, <1>3
  <2>2. CASE n = GoOn("check") /\ HasRole(r)
    BY <2>2, <1>3
  <2>3. CASE n = Reply(403, Absent) /\ Cfg.route.role # Absent /\ Cfg.route.role \notin Token(r).roles
    BY <2>3, <1>2, <1>5
  <2>4. CASE n = Reply(400, Absent)
    BY <2>4, <1>2, <1>4
  <2> QED
    BY <1>1, <2>1, <2>2, <2>3, <2>4
<1> QED
  BY <1>6 DEF n

\* Without an identity only a route that asks for nothing is reached.
LEMMA RouteWithoutIdentity ==
    ASSUME guard \in Guards, Cfg.entry = "none", NEW r, NEW d
    PROVE  LET n == Route(r, FALSE)
           IN  /\ n \in Stops /\ n.at \in {"handled", "answered"}
               /\ n.at = "handled" => Cfg.route.role = Absent /\ ~Cfg.route.access
               /\ n.at = "answered" => Caused(r, n.answer, d)
<1> DEFINE n == Route(r, FALSE)
           h == challengeFor401(Challenges, Token(r) # Absent)
<1>1. \/ n = GoOn("handled") /\ Cfg.route.role = Absent /\ ~Cfg.route.access
      \/ n = Reply(401, h)
      \/ n = Reply(401, Absent)
  BY DEF Route, canActivate, requireRole, requireAccess, NoIdentity, GoOn, Reply
<1>2. Reply(401, h) \in Stops /\ Reply(401, h).at = "answered" /\ Caused(r, Reply(401, h).answer, d)
  <2>1. /\ h \in Sent \cup {Absent}
        /\ h # Absent => Cfg.resourceMetadataUrl # Absent
        /\ h = "invalidToken" => Token(r) # Absent
        /\ h # "insufficientScope"
    BY ChallengeIsOwn
  <2> HIDE DEF h
  <2>2. /\ Reply(401, h) \in Stops /\ Reply(401, h).at = "answered"
        /\ Reply(401, h).answer.status = 401 /\ Reply(401, h).answer.challenge = h
    BY <2>1 DEF Reply, Stops, Answers, Pending
  <2> QED
    BY <2>1, <2>2 DEF Caused
<1>3. /\ Reply(401, Absent) \in Stops /\ Reply(401, Absent).at = "answered"
      /\ Reply(401, Absent).answer.status = 401 /\ Reply(401, Absent).answer.challenge = Absent
  BY DEF Reply, Stops, Answers, Pending
<1>4. Caused(r, Reply(401, Absent).answer, d)
  BY <1>3, AbsentAssumption DEF Caused, Sent
<1>5. GoOn("handled") \in Stops /\ GoOn("handled").at = "handled"
  BY Passes
<1> HIDE DEF n, h
<1>6. /\ n \in Stops /\ n.at \in {"handled", "answered"}
      /\ n.at = "handled" => Cfg.route.role = Absent /\ ~Cfg.route.access
      /\ n.at = "answered" => Caused(r, n.answer, d)
  <2>1. CASE n = GoOn("handled") /\ Cfg.route.role = Absent /\ ~Cfg.route.access
    BY <2>1, <1>5
  <2>2. CASE n = Reply(401, h)
    BY <2>2, <1>2
  <2>3. CASE n = Reply(401, Absent)
    BY <2>3, <1>3, <1>4
  <2> QED
    BY <1>1, <2>1, <2>2, <2>3
<1> QED
  BY <1>6 DEF n

-------------------------------------------------------------------------------
(* One call *)

\* A step that leaves a call alone leaves what is known of it, however much more is
\* revoked or spent.
LEMMA Undisturbed ==
    ASSUME NEW c \in Calls, CallOK(c), guard' = guard, at'[c] = at[c], req'[c] = req[c],
           said'[c] = said[c], answer'[c] = answer[c], verified'[c] = verified[c],
           revoked \subseteq revoked', spent \subseteq spent'
    PROVE  CallOK(c)'
<1>1. Its(c)' = Its(c) /\ Cfg' = Cfg
  BY DEF Its, Cfg
<1>2. Identified(c) => Identified(c)'
  BY <1>1 DEF Identified, Presented, CsrfHolds, Token, PossessionShown
<1>3. Acceptable(c) => Acceptable(c)'
  BY <1>1 DEF Acceptable, Token, PossessionShown
<1>4. Caused(Its(c), answer[c], said[c]) => Caused(Its(c), answer[c], said[c])'
  BY <1>1 DEF Caused, Token, Blameless
<1>5. PastItsStops(c)'
  BY <1>1, <1>2, <1>4
     DEF CallOK, PastItsStops, Presented, CsrfHolds, Token, ProofAccepted, HasRole
<1> QED
  BY <1>3, <1>4, <1>5 DEF CallOK

\* A request nothing is wrong with is verified.
LEMMA BlamelessVerifies ==
    ASSUME now \in 0 .. MaxTime, NEW q \in Requests, Blameless(Looks[q])
    PROVE  verifyAccessToken(Token(Looks[q]), Proofs(Looks[q])) /\ Token(Looks[q]).sub
<1> DEFINE r == Looks[q]
           t == Token(r)
<1>1. t.exp \in Int /\ t.exp > MaxTime
  BY RequestAssumption DEF Blameless
<1>2. jwtVerify(t)
  BY <1>1, GuardAssumption DEF jwtVerify, Blameless
<1>3. verifyTokenBinding(t, Proofs(r))
  BY DEF verifyTokenBinding, Proofs, Blameless
<1> QED
  BY <1>2, <1>3 DEF verifyAccessToken, assertTenantClaim, Blameless

\* A token that is verified, sent by who may send it, identifies its request.
LEMMA VerifiedIdentifies ==
    ASSUME now \in 0 .. MaxTime, Built(Cfg), NEW q \in Requests,
           verifyAccessToken(Token(Looks[q]), Proofs(Looks[q])),
           Token(Looks[q]) # Absent, ProofAccepted(Looks[q])
    PROVE  LET t == Token(Looks[q])
           IN  /\ PossessionShown(t, Looks[q])
               /\ t.sound /\ t.tenant = Cfg.tenant
               /\ now # Never /\ now < t.exp + Skew
               /\ Cfg.metadata # Absent => t.aud = Cfg.metadata.resource
<1> DEFINE r == Looks[q]
           t == Token(r)
<1>1. t.exp \in Int /\ jwtVerify(t) /\ assertTenantClaim(t) /\ verifyTokenBinding(t, Proofs(r))
  BY RequestAssumption DEF verifyAccessToken
<1>2. now # Never /\ now < t.exp + Skew
  BY <1>1, GuardAssumption DEF jwtVerify
<1>3. t.sound /\ t.tenant = Cfg.tenant
  BY <1>1 DEF jwtVerify, assertTenantClaim
<1>4. PossessionShown(t, r)
  BY <1>1 DEF verifyTokenBinding, Proofs, PossessionShown, ProofAccepted
<1>5. ASSUME Cfg.metadata # Absent PROVE t.aud = Cfg.metadata.resource
  <2> DEFINE o == Cfg.metadata
  <2>1. /\ protectedResourceMetadata(o) # Refused
        /\ serveProtectedResourceMetadata(protectedResourceMetadata(o), Cfg)
    BY <1>5 DEF Built
  <2>2. o.resource # Absent /\ protectedResourceMetadata(o).document = o
    BY <2>1 DEF protectedResourceMetadata, requireAbsoluteUri
  <2>3. Cfg.expectedAudience = o.resource
    BY <2>1, <2>2 DEF serveProtectedResourceMetadata
  <2> QED
    BY <1>1, <2>2, <2>3 DEF jwtVerify
<1> QED
  BY <1>2, <1>3, <1>4, <1>5

\* Where a request is once it has come: a handler that guards nothing, an answer
\* that has its cause, or a stop whose conditions it meets.
LEMMA EntersSoundly ==
    ASSUME guard \in Guards, NEW r, NEW d
    PROVE  LET n == Enters(r)
           IN  /\ n \in Stops /\ n.at \in {"handled", "answered", "proof", "verify"}
               /\ n.at = "handled" => Cfg.entry = "none" /\ Cfg.route.role = Absent /\ ~Cfg.route.access
               /\ n.at = "answered" => Caused(r, n.answer, d)
               /\ n.at \in {"proof", "verify"} => Presented(r)
               /\ n.at = "proof" => Cfg.entry = "custom" /\ r.proof # Absent
               /\ n.at = "verify" => ~(Cfg.entry = "custom" /\ r.proof # Absent)
<1> DEFINE n == Enters(r)
           Claim == /\ n \in Stops /\ n.at \in {"handled", "answered", "proof", "verify"}
                    /\ n.at = "handled" => Cfg.entry = "none" /\ Cfg.route.role = Absent
                                            /\ ~Cfg.route.access
                    /\ n.at = "answered" => Caused(r, n.answer, d)
                    /\ n.at \in {"proof", "verify"} => Presented(r)
                    /\ n.at = "proof" => Cfg.entry = "custom" /\ r.proof # Absent
                    /\ n.at = "verify" => ~(Cfg.entry = "custom" /\ r.proof # Absent)
<1>1. ASSUME Cfg.entry = "none" PROVE Claim
  <2>1. n = Route(r, FALSE)
    BY <1>1 DEF Enters
  <2>2. LET m == Route(r, FALSE)
        IN  /\ m \in Stops /\ m.at \in {"handled", "answered"}
            /\ m.at = "handled" => Cfg.route.role = Absent /\ ~Cfg.route.access
            /\ m.at = "answered" => Caused(r, m.answer, d)
    BY <1>1, RouteWithoutIdentity
  <2> HIDE DEF n
  <2> QED
    BY <1>1, <2>1, <2>2
<1>2. ASSUME Cfg.entry # "none" PROVE Claim
  <2>1. \/ n = Reply(200, Absent)
        \/ n = Reply(401, NoCredential) /\ Token(r) = Absent
        \/ n = Reply(403, Absent) /\ ~CsrfHolds(r)
        \/ n = GoOn("proof") /\ Presented(r) /\ Cfg.entry = "custom" /\ r.proof # Absent
        \/ n = GoOn("verify") /\ Presented(r) /\ ~(Cfg.entry = "custom" /\ r.proof # Absent)
    BY <1>2 DEF Enters, Presented
  <2>2. /\ Reply(200, Absent) \in Stops /\ Reply(200, Absent).at = "answered"
        /\ Reply(403, Absent) \in Stops /\ Reply(403, Absent).at = "answered"
    BY DEF Reply, Stops, Answers, Pending
  <2>3. /\ GoOn("proof") \in Stops /\ GoOn("proof").at = "proof"
        /\ GoOn("verify") \in Stops /\ GoOn("verify").at = "verify"
    BY DEF GoOn, Stops, Answers, Unanswered, Pending
  <2>4. Caused(r, Reply(200, Absent).answer, d)
    BY PlainDenials
  <2>5. ~CsrfHolds(r) => Caused(r, Reply(403, Absent).answer, d)
    BY PlainDenials DEF CsrfHolds
  <2>6. Token(r) = Absent =>
            /\ Reply(401, NoCredential) \in Stops /\ Reply(401, NoCredential).at = "answered"
            /\ Caused(r, Reply(401, NoCredential).answer, d)
    BY Unauthorized, ZenonT(40) DEF NoCredential, Blameless
  <2> HIDE DEF n
  <2> QED
    BY <2>1, <2>2, <2>3, <2>4, <2>5, <2>6
<1> QED
  BY <1>1, <1>2

\* What a step of one call has to show.
LEMMA StepOfOne ==
    ASSUME NEW c \in Calls, CallsTyped, \A e \in Calls : CallOK(e),
           guard' = guard, revoked \subseteq revoked', spent \subseteq spent',
           NEW n \in Stops, Goes(c, n),
           req' \in [Calls -> Requests \cup {Absent}], \A e \in Calls \ {c} : req'[e] = req[e],
           said' \in [Calls -> Said], \A e \in Calls \ {c} : said'[e] = said[e],
           verified' \in [Calls -> Times \cup {Never}],
           \A e \in Calls \ {c} : verified'[e] = verified[e],
           CallOK(c)'
    PROVE  CallsTyped' /\ \A e \in Calls : CallOK(e)'
<1>1. n.at \in Pending \cup {"handled", "answered"} /\ n.answer \in Answers
  BY DEF Stops
<1>2. at'[c] = n.at /\ answer'[c] = n.answer
  BY DEF Goes, CallsTyped
<1>3. \A e \in Calls \ {c} : at'[e] = at[e] /\ answer'[e] = answer[e]
  BY DEF Goes, CallsTyped
<1>4. CallsTyped'
  BY <1>1 DEF Goes, CallsTyped
<1>5. ASSUME NEW e \in Calls \ {c} PROVE CallOK(e)'
  BY <1>3, Undisturbed
<1> QED
  BY <1>4, <1>5

LEMMA ArriveKeeps ==
    ASSUME GuardInv, NEW c \in Calls, NEW q \in Carries[c], Arrive(c, q)
    PROVE  CallsTyped' /\ \A e \in Calls : CallOK(e)'
<1> DEFINE r == Looks[q]
           n == Enters(r)
<1>1. /\ guard \in Guards /\ CallsTyped /\ \A e \in Calls : CallOK(e)
      /\ q \in Requests
  BY GuardInvParts, RequestAssumption
<1>2. /\ n \in Stops /\ n.at \in {"handled", "answered", "proof", "verify"}
      /\ n.at = "handled" => Cfg.entry = "none" /\ Cfg.route.role = Absent /\ ~Cfg.route.access
      /\ n.at = "answered" => Caused(r, n.answer, said[c])
      /\ n.at \in {"proof", "verify"} => Presented(r)
      /\ n.at = "proof" => Cfg.entry = "custom" /\ r.proof # Absent
      /\ n.at = "verify" => ~(Cfg.entry = "custom" /\ r.proof # Absent)
  BY <1>1, EntersSoundly
<1>3. Goes(c, n)
  BY DEF Arrive
<1> HIDE DEF n
<1>4. /\ guard' = guard /\ revoked' = revoked /\ spent' = spent /\ said' = said
      /\ verified' = verified /\ req' = [req EXCEPT ![c] = q]
  BY DEF Arrive, feedVars
<1>5. /\ at'[c] = n.at /\ answer'[c] = n.answer /\ said'[c] = said[c]
      /\ Its(c)' = r /\ req'[c] = q /\ Cfg' = Cfg
  BY <1>1, <1>3, <1>4 DEF Goes, CallsTyped, Its, Cfg
<1>6. CallOK(c)'
  <2>1. n.at = "answered" => Caused(Its(c), answer[c], said[c])'
    BY <1>2, <1>4, <1>5 DEF Caused, Blameless, Token
  <2>2. n.at = "handled" => Acceptable(c)'
    BY <1>2, <1>5 DEF Acceptable
  <2>3. n.at \in {"proof", "verify"} => Presented(Its(c))'
    BY <1>2, <1>4, <1>5 DEF Presented, CsrfHolds, Token
  <2>4. n.at = "verify" => ProofAccepted(Its(c))'
    BY <1>2, <1>5 DEF ProofAccepted
  <2>5. PastItsStops(c)'
    BY <1>1, <1>2, <1>5, <2>3, <2>4 DEF PastItsStops
  <2> QED
    BY <1>5, <2>1, <2>2, <2>5 DEF CallOK
<1> QED
  BY <1>1, <1>2, <1>3, <1>4, <1>6, StepOfOne DEF CallsTyped

LEMMA VerifyProofKeeps ==
    ASSUME GuardInv, NEW c \in Calls, VerifyProof(c)
    PROVE  CallsTyped' /\ \A e \in Calls : CallOK(e)'
<1> DEFINE r == Its(c)
           p == r.proof
           ok == ProofHolds(p) /\ ~Taken(p.jti)
           n == IF ok THEN GoOn("verify") ELSE Reply(401, InvalidToken)
<1>1. /\ guard \in Guards /\ CallsTyped /\ \A e \in Calls : CallOK(e)
      /\ at[c] = "proof" /\ req[c] \in Requests /\ Presented(r)
      /\ Cfg.entry = "custom" /\ p # Absent
  BY GuardInvParts DEF VerifyProof, CallOK, PastItsStops
<1>2. /\ GoOn("verify") \in Stops /\ GoOn("verify").at = "verify"
      /\ Reply(401, InvalidToken) \in Stops /\ Reply(401, InvalidToken).at = "answered"
      /\ Caused(r, Reply(401, InvalidToken).answer, said[c])
  <2>1. GoOn("verify") \in Stops /\ GoOn("verify").at = "verify"
    BY DEF GoOn, Stops, Answers, Unanswered, Pending
  <2>2. Token(r) # Absent /\ ~Blameless(r)
    BY <1>1 DEF Presented, Blameless
  <2>3. /\ Reply(401, InvalidToken) \in Stops /\ Reply(401, InvalidToken).at = "answered"
        /\ Caused(r, Reply(401, InvalidToken).answer, said[c])
    <3> HIDE DEF r
    <3> QED
      BY <1>1, <2>2, Unauthorized DEF InvalidToken
  <2> QED
    BY <2>1, <2>3
<1>3. n \in Stops /\ Goes(c, n)
  BY <1>2 DEF VerifyProof
<1>4. /\ guard' = guard /\ revoked' = revoked /\ req' = req /\ said' = said /\ verified' = verified
      /\ spent' = IF ok THEN spent \cup {p.jti} ELSE spent
  BY DEF VerifyProof
<1>5. /\ at'[c] = n.at /\ answer'[c] = n.answer /\ Its(c)' = r /\ Cfg' = Cfg
  BY <1>1, <1>3, <1>4 DEF Goes, CallsTyped, Its, Cfg
<1>6. CASE ok
  <2>1. at'[c] = "verify"
    BY <1>2, <1>5, <1>6
  <2>2. Presented(Its(c))'
    BY <1>1, <1>4, <1>5 DEF Presented, CsrfHolds, Token
  <2>3. ProofAccepted(Its(c))'
    BY <1>4, <1>5, <1>6 DEF ProofAccepted, ProofHolds
  <2>4. CallOK(c)'
    BY <1>1, <1>4, <2>1, <2>2, <2>3 DEF CallOK, PastItsStops
  <2> QED
    BY <1>1, <1>3, <1>4, <2>4, StepOfOne DEF CallsTyped
<1>7. CASE ~ok
  <2>1. at'[c] = "answered" /\ answer'[c] = Reply(401, InvalidToken).answer
    BY <1>2, <1>5, <1>7
  <2>2. Caused(Its(c), answer[c], said[c])'
    BY <1>2, <1>4, <1>5, <2>1 DEF Caused, Blameless, Token
  <2>3. CallOK(c)'
    BY <1>1, <1>4, <2>1, <2>2 DEF CallOK, PastItsStops
  <2> QED
    BY <1>1, <1>3, <1>4, <1>7, <2>3, StepOfOne DEF CallsTyped
<1> QED
  BY <1>6, <1>7

\* Whoever goes on to the route with an identity.
LEMMA OnTheRoute ==
    ASSUME NEW c \in Calls, NEW q \in Requests, Looks[q] = Its(c)', guard' = guard,
           req'[c] = q, revoked' = revoked, Identified(c)',
           at'[c] = Route(Looks[q], TRUE).at, answer'[c] = Route(Looks[q], TRUE).answer
    PROVE  CallOK(c)'
<1> DEFINE r == Looks[q]
           n == Route(r, TRUE)
<1>1. /\ n \in Stops /\ n.at \in {"handled", "check", "answered"}
      /\ n.at # "answered" => HasRole(r)
      /\ n.at = "handled" => ~Cfg.route.access
      /\ n.at = "answered" => Caused(r, n.answer, said'[c]) /\ n.answer.status # 401
  BY RouteWithIdentity, ZenonT(40)
<1> HIDE DEF n
<1>2. at'[c] = n.at /\ answer'[c] = n.answer /\ Its(c)' = r /\ Cfg' = Cfg
  BY DEF n, Cfg
<1>3. n.at = "answered" => Caused(Its(c), answer[c], said[c])'
  <2> SUFFICES ASSUME n.at = "answered" PROVE Caused(Its(c), answer[c], said[c])'
    OBVIOUS
  <2>1. Caused(r, n.answer, said'[c]) /\ n.answer.status # 401
    BY <1>1
  <2> DEFINE a == n.answer
  <2>2. answer'[c] = a /\ Its(c)' = r /\ Cfg' = Cfg
    BY <1>2
  <2>3. Caused(r, a, said'[c]) /\ a.status # 401
    BY <2>1
  <2> HIDE DEF r, a
  <2>4. answer'[c].status # 401
    BY <2>2, <2>3
  <2> QED
    BY <2>2, <2>3, <2>4 DEF Caused, Token
<1>4. n.at # "answered" => HasRole(Its(c))'
  BY <1>1, <1>2 DEF HasRole, Token
<1>5. n.at = "handled" => Acceptable(c)'
  BY <1>1, <1>2, <1>4 DEF Acceptable, Identified, Presented, CsrfHolds, HasRole
<1>6. PastItsStops(c)'
  BY <1>1, <1>2, <1>4 DEF PastItsStops
<1> QED
  BY <1>2, <1>3, <1>5, <1>6 DEF CallOK
\* An answer that has its cause, seen after the step.
LEMMA Answered ==
    ASSUME NEW c \in Calls, NEW n \in Stops, n.at = "answered", guard' = guard, revoked' = revoked,
           at'[c] = n.at, answer'[c] = n.answer, Its(c)' = Its(c), req'[c] \in Requests,
           Caused(Its(c), n.answer, said'[c])
    PROVE  CallOK(c)'
<1>1. Cfg' = Cfg
  BY DEF Cfg
<1> DEFINE r == Its(c)
           a == n.answer
<1>2. answer'[c] = a /\ Its(c)' = r /\ Caused(r, a, said'[c])
  OBVIOUS
<1> HIDE DEF r, a
<1>3. Caused(Its(c), answer[c], said[c])'
  BY <1>1, <1>2 DEF Caused, Blameless, Token
<1>4. PastItsStops(c)'
  BY DEF PastItsStops
<1> QED
  BY <1>3, <1>4 DEF CallOK

\* The refusal of a token.
LEMMA TokenRefused ==
    ASSUME guard \in Guards, NEW r, NEW d, Token(r) # Absent,
           Blameless(r) => Token(r).sid \in revoked \/ d = "no_key"
    PROVE  /\ Reply(401, InvalidToken) \in Stops /\ Reply(401, InvalidToken).at = "answered"
           /\ Caused(r, Reply(401, InvalidToken).answer, d)
<1>1. Cfg.entry # "none" /\ Blameless(r) => Token(r).sid \in revoked \/ d = "no_key"
  OBVIOUS
<1>2. TRUE => Token(r) # Absent
  OBVIOUS
<1> QED
  BY <1>1, <1>2, Unauthorized, Zenon DEF InvalidToken

LEMMA VerifyKeeps ==
    ASSUME GuardInv, NEW c \in Calls, NEW keyed \in BOOLEAN, Verify(c, keyed)
    PROVE  CallsTyped' /\ \A e \in Calls : CallOK(e)'
<1> DEFINE r == Its(c)
           t == Token(r)
           valid == keyed /\ verifyAccessToken(t, Proofs(r)) /\ t.sub
           asks == valid /\ Cfg.feed /\ t.sid # Absent
           n == IF ~valid THEN Reply(401, InvalidToken)
                ELSE IF asks /\ Stale THEN GoOn("feed")
                ELSE IF asks /\ isRevoked(entries, t) THEN Reply(401, InvalidToken)
                ELSE Route(r, TRUE)
<1>1. /\ guard \in Guards /\ CallsTyped /\ (\A e \in Calls : CallOK(e)) /\ now \in 0 .. MaxTime
      /\ Built(Cfg) /\ NothingForgotten
      /\ at[c] = "verify" /\ req[c] \in Requests /\ Presented(r) /\ ProofAccepted(r)
  BY GuardInvParts DEF Verify, CallOK, PastItsStops
<1>2. t # Absent /\ r = Looks[req[c]]
  BY <1>1 DEF Presented, Its
<1>3. /\ guard' = guard /\ revoked' = revoked /\ req' = req /\ spent' = spent
      /\ verified' = [verified EXCEPT ![c] = IF valid THEN now ELSE @]
      /\ said' = [said EXCEPT ![c] = IF keyed THEN @ ELSE "no_key"]
  BY DEF Verify
<1>9. /\ said' \in [Calls -> Said] /\ \A e \in Calls \ {c} : said'[e] = said[e]
      /\ said'[c] = IF keyed THEN said[c] ELSE "no_key"
  BY <1>1, <1>3 DEF CallsTyped, Said
<1>4. verified' \in [Calls -> Times \cup {Never}] /\ \A e \in Calls \ {c} : verified'[e] = verified[e]
  BY <1>1, <1>3, GuardAssumption DEF CallsTyped, Times
<1>5. Goes(c, n)
  BY DEF Verify
<1>6. Its(c)' = r /\ Cfg' = Cfg
  BY <1>3 DEF Its, Cfg
<1>7. CASE ~valid
  <2>1. n = Reply(401, InvalidToken)
    BY <1>7
  <2>2. Blameless(r) => said'[c] = "no_key"
    BY <1>1, <1>2, <1>7, <1>9, BlamelessVerifies
  <2> HIDE DEF n, r
  <2>3. /\ n \in Stops /\ n.at = "answered" /\ Caused(r, n.answer, said'[c])
    <3>1. /\ Reply(401, InvalidToken) \in Stops /\ Reply(401, InvalidToken).at = "answered"
          /\ Caused(r, Reply(401, InvalidToken).answer, said'[c])
      BY <1>1, <1>2, <2>2, TokenRefused
    <3> QED
      BY <2>1, <3>1
  <2>4. at'[c] = n.at /\ answer'[c] = n.answer
    BY <1>1, <1>5 DEF Goes, CallsTyped
  <2>5. CallOK(c)'
    BY <1>1, <1>3, <1>6, <2>3, <2>4, Answered DEF r
  <2> QED
    BY <1>1, <1>3, <1>4, <1>5, <1>9, <2>3, <2>5, StepOfOne DEF CallsTyped
<1>8. CASE valid
  <2>1. verified'[c] = now
    BY <1>1, <1>3, <1>8 DEF CallsTyped
  <2>2. /\ PossessionShown(t, r) /\ t.sound /\ t.tenant = Cfg.tenant
        /\ now # Never /\ now < t.exp + Skew
        /\ Cfg.metadata # Absent => t.aud = Cfg.metadata.resource
    BY <1>1, <1>2, <1>8, VerifiedIdentifies
  <2>3. Identified(c)'
    BY <1>1, <1>3, <1>6, <2>1, <2>2 DEF Identified, Presented, CsrfHolds, Token, PossessionShown
  <2>4. CASE asks /\ Stale
    <3>1. n = GoOn("feed") /\ n \in Stops /\ n.at = "feed"
      BY <1>8, <2>4 DEF GoOn, Stops, Answers, Unanswered, Pending
    <3> HIDE DEF n
    <3>2. at'[c] = "feed"
      BY <1>1, <1>5, <3>1 DEF Goes, CallsTyped
    <3>3. CallOK(c)'
      BY <1>1, <1>3, <2>3, <3>2 DEF CallOK, PastItsStops
    <3> QED
      BY <1>1, <1>3, <1>4, <1>5, <1>9, <3>1, <3>3, StepOfOne DEF CallsTyped
  <2>5. CASE ~(asks /\ Stale) /\ asks /\ isRevoked(entries, t)
    <3>1. n = Reply(401, InvalidToken)
      BY <1>8, <2>5
    <3>2. t.sid \in revoked
      BY <1>1, <2>5 DEF isRevoked, NothingForgotten
    <3> HIDE DEF n, r
    <3>3. /\ n \in Stops /\ n.at = "answered" /\ Caused(r, n.answer, said'[c])
      <4>1. /\ Reply(401, InvalidToken) \in Stops /\ Reply(401, InvalidToken).at = "answered"
            /\ Caused(r, Reply(401, InvalidToken).answer, said'[c])
        BY <1>1, <1>2, <3>2, TokenRefused
      <4> QED
        BY <3>1, <4>1
    <3>4. at'[c] = n.at /\ answer'[c] = n.answer
      BY <1>1, <1>5 DEF Goes, CallsTyped
    <3>5. CallOK(c)'
      BY <1>1, <1>3, <1>6, <3>3, <3>4, Answered DEF r
    <3> QED
      BY <1>1, <1>3, <1>4, <1>5, <1>9, <3>3, <3>5, StepOfOne DEF CallsTyped
  <2>6. CASE ~(asks /\ Stale) /\ ~(asks /\ isRevoked(entries, t))
    <3>1. n = Route(r, TRUE)
      BY <1>8, <2>6
    <3>2. n \in Stops
      BY <3>1, RouteWithIdentity, ZenonT(40)
    <3> HIDE DEF n
    <3>3. at'[c] = Route(r, TRUE).at /\ answer'[c] = Route(r, TRUE).answer
      BY <1>1, <1>5, <3>1 DEF Goes, CallsTyped
    <3>4. CallOK(c)'
      BY <1>1, <1>2, <1>3, <1>6, <2>3, <3>3, OnTheRoute
    <3> QED
      BY <1>1, <1>3, <1>4, <1>5, <1>9, <3>2, <3>4, StepOfOne DEF CallsTyped
  <2> QED
    BY <2>4, <2>5, <2>6
<1> QED
  BY <1>7, <1>8
LEMMA SettleKeeps ==
    ASSUME GuardInv, NEW known, known # Absent => known \subseteq revoked, Settle(known)
    PROVE  CallsTyped' /\ \A e \in Calls : CallOK(e)'
<1>1. guard \in Guards /\ CallsTyped /\ \A e \in Calls : CallOK(e)
  BY GuardInvParts
<1>2. /\ guard' = guard /\ revoked' = revoked /\ req' = req /\ said' = said
      /\ verified' = verified /\ spent' = spent
  BY DEF Settle
<1>3. ASSUME NEW e \in Calls
      PROVE  /\ at[e] # "feed" => at'[e] = at[e] /\ answer'[e] = answer[e]
             /\ at[e] = "feed" /\ isRevoked(known, Token(Its(e))) =>
                    /\ at'[e] = Reply(401, InvalidToken).at
                    /\ answer'[e] = Reply(401, InvalidToken).answer
             /\ at[e] = "feed" /\ ~isRevoked(known, Token(Its(e))) =>
                    at'[e] = Route(Its(e), TRUE).at /\ answer'[e] = Route(Its(e), TRUE).answer
  BY DEF Settle
<1>4. ASSUME NEW e \in Calls
      PROVE  /\ CallOK(e)'
             /\ at'[e] \in Pending \cup {"free", "handled", "answered"} /\ answer'[e] \in Answers
  <2> DEFINE r == Its(e)
  <2>1. r' = r
    BY <1>2 DEF Its
  <2>2. CASE at[e] # "feed"
    <3>1. at'[e] = at[e] /\ answer'[e] = answer[e]
      BY <1>3, <2>2
    <3> QED
      BY <1>1, <1>2, <3>1, Undisturbed DEF CallsTyped
  <2>3. CASE at[e] = "feed"
    <3>1. Identified(e) /\ req[e] \in Requests /\ Token(r) # Absent /\ r = Looks[req[e]]
      BY <1>1, <2>3 DEF CallOK, PastItsStops, Identified, Presented, Its
    <3>2. CASE isRevoked(known, Token(r))
      <4>1. Token(r).sid \in revoked
        BY <3>2 DEF isRevoked
      <4>2. at'[e] = Reply(401, InvalidToken).at /\ answer'[e] = Reply(401, InvalidToken).answer
        BY <1>3, <2>3, <3>2
      <4> DEFINE n == Reply(401, InvalidToken)
      <4> HIDE DEF r
      <4>3. n \in Stops /\ n.at = "answered" /\ Caused(r, n.answer, said[e])
        BY <1>1, <3>1, <4>1, TokenRefused
      <4> HIDE DEF n
      <4>4. at'[e] = n.at /\ answer'[e] = n.answer /\ n.answer \in Answers
        BY <4>2, <4>3 DEF n, Stops
      <4>5. CallOK(e)'
        BY <1>2, <2>1, <3>1, <4>3, <4>4, Answered DEF r
      <4> QED
        BY <4>3, <4>4, <4>5
    <3>3. CASE ~isRevoked(known, Token(r))
      <4>1. at'[e] = Route(r, TRUE).at /\ answer'[e] = Route(r, TRUE).answer
        BY <1>3, <2>3, <3>3
      <4>2. Identified(e)'
        BY <1>2, <2>1, <3>1
           DEF Identified, Presented, CsrfHolds, Token, PossessionShown, Cfg
      <4>3. CallOK(e)'
        BY <1>2, <2>1, <3>1, <4>1, <4>2, OnTheRoute
      <4>4. Route(r, TRUE) \in Stops
        BY RouteWithIdentity
      <4> HIDE DEF r
      <4> QED
        BY <4>1, <4>3, <4>4 DEF Stops
    <3> QED
      BY <3>2, <3>3
  <2> QED
    BY <2>2, <2>3
<1>5. CallsTyped'
  <2>1. at' = [e \in Calls |-> at'[e]] /\ answer' = [e \in Calls |-> answer'[e]]
    BY DEF Settle
  <2>2. at' \in [Calls -> Pending \cup {"free", "handled", "answered"}]
    BY <1>4, <2>1
  <2>3. answer' \in [Calls -> Answers]
    BY <1>4, <2>1
  <2> QED
    BY <1>1, <1>2, <2>2, <2>3 DEF CallsTyped
<1> QED
  BY <1>4, <1>5

LEMMA CheckKeeps ==
    ASSUME GuardInv, NEW c \in Calls, NEW d \in Decisions, CheckAnswers(c, d)
    PROVE  CallsTyped' /\ \A e \in Calls : CallOK(e)'
<1> DEFINE r == Its(c)
           h == IF Nest THEN Absent ELSE challengeFor403(Challenges, d)
           denial == Reply(403, h)
           n == IF Verdict(d) = "allow" THEN GoOn("handled")
                ELSE IF Verdict(d) = "unavailable" THEN Reply(503, Absent)
                ELSE IF Cfg.route.uma /\ ~Nest THEN [denial EXCEPT !.at = "mint"]
                ELSE denial
<1>1. /\ guard \in Guards /\ CallsTyped /\ \A e \in Calls : CallOK(e)
      /\ at[c] = "check" /\ req[c] \in Requests /\ Identified(c) /\ HasRole(r)
  BY GuardInvParts DEF CheckAnswers, CallOK, PastItsStops
<1>2. /\ guard' = guard /\ revoked' = revoked /\ req' = req /\ verified' = verified
      /\ spent' = spent /\ said' = [said EXCEPT ![c] = d]
  BY DEF CheckAnswers
<1>3. /\ said' \in [Calls -> Said] /\ said'[c] = d
      /\ \A e \in Calls \ {c} : said'[e] = said[e]
  BY <1>1, <1>2 DEF CallsTyped, Said
<1>4. Goes(c, n)
  BY DEF CheckAnswers
<1>5. Its(c)' = r /\ Cfg' = Cfg
  BY <1>2 DEF Its, Cfg
<1>6. Identified(c)' /\ HasRole(Its(c))'
  BY <1>1, <1>2, <1>5 DEF Identified, Presented, CsrfHolds, Token, PossessionShown, HasRole
<1>7. /\ h \in {"insufficientScope", Absent}
      /\ h # Absent => Cfg.resourceMetadataUrl # Absent /\ d = "no_grant"
  BY <1>1, ScopeIsOwn
<1>8. /\ Verdict(d) = "allow" => d = "allowed"
      /\ Verdict(d) = "unavailable" => d \in {"NetworkError", "throws"}
      /\ Verdict(d) \notin {"allow", "unavailable"} => d \in {"no_grant", "reason", "AuthzError"}
  BY DEF Verdict, Decisions
<1> SUFFICES n \in Stops /\ CallOK(c)'
  BY <1>1, <1>2, <1>3, <1>4, StepOfOne DEF CallsTyped
<1>9. CASE Verdict(d) = "allow"
  <2>1. n = GoOn("handled")
    BY <1>9
  <2> HIDE DEF n
  <2>2. n \in Stops /\ n.at = "handled"
    BY <2>1 DEF GoOn, Stops, Answers, Unanswered, Pending
  <2>3. at'[c] = "handled"
    BY <1>1, <1>4, <2>2 DEF Goes, CallsTyped
  <2>4. Acceptable(c)'
    BY <1>3, <1>5, <1>6, <1>8, <1>9 DEF Acceptable, Identified, Presented, CsrfHolds, HasRole
  <2> QED
    BY <1>1, <1>2, <2>2, <2>3, <2>4 DEF CallOK, PastItsStops
<1>10. CASE Verdict(d) = "unavailable"
  <2>1. n = Reply(503, Absent)
    BY <1>10
  <2> HIDE DEF n
  <2>2. n \in Stops /\ n.at = "answered" /\ n.answer.status = 503 /\ n.answer.challenge = Absent
    BY <2>1 DEF Reply, Stops, Answers, Pending
  <2>3. Caused(r, n.answer, d)
    BY <1>8, <1>10, <2>2, AbsentAssumption DEF Caused, Sent
  <2>4. at'[c] = n.at /\ answer'[c] = n.answer
    BY <1>1, <1>4 DEF Goes, CallsTyped
  <2>5. CallOK(c)'
    BY <1>1, <1>2, <1>3, <1>5, <2>2, <2>3, <2>4, Answered
  <2> QED
    BY <2>2, <2>5
<1>11. CASE Verdict(d) \notin {"allow", "unavailable"}
  <2>1. n = denial \/ n = [denial EXCEPT !.at = "mint"]
    BY <1>11
  <2> HIDE DEF n, h
  <2>2. /\ n \in Stops /\ n.at \in {"answered", "mint"}
        /\ n.answer.status = 403 /\ n.answer.challenge = h
    BY <1>7, <2>1 DEF Reply, Stops, Answers, Pending, Sent
  <2>3. Caused(r, n.answer, d)
    BY <1>7, <1>8, <1>11, <2>2, AbsentAssumption DEF Caused, Sent
  <2>4. at'[c] = n.at /\ answer'[c] = n.answer
    BY <1>1, <1>4 DEF Goes, CallsTyped
  <2>5. CASE n.at = "answered"
    BY <1>1, <1>2, <1>3, <1>5, <2>2, <2>3, <2>4, <2>5, Answered
  <2>6. CASE n.at = "mint"
    <3> DEFINE a == n.answer
    <3>1. answer'[c] = a /\ a.status = 403 /\ Caused(r, a, d)
      BY <2>2, <2>3, <2>4
    <3> HIDE DEF a, r
    <3>2. Caused(Its(c), answer[c], said[c])'
      BY <1>2, <1>3, <1>5, <3>1 DEF Caused, Blameless, Token
    <3>3. answer'[c].status = 403
      BY <3>1
    <3>4. CallOK(c)'
      BY <1>1, <1>2, <1>3, <1>6, <1>8, <1>11, <2>4, <2>6, <3>2, <3>3 DEF CallOK, PastItsStops
    <3> QED
      BY <2>2, <3>4
  <2> QED
    BY <2>2, <2>5, <2>6
<1> QED
  BY <1>9, <1>10, <1>11

LEMMA MintKeeps ==
    ASSUME GuardInv, NEW c \in Calls, NEW ok \in BOOLEAN, MintAnswers(c, ok)
    PROVE  CallsTyped' /\ \A e \in Calls : CallOK(e)'
<1> DEFINE r == Its(c)
           h == IF ok THEN "ticket" ELSE answer[c].challenge
           n == Reply(403, h)
<1>1. /\ guard \in Guards /\ CallsTyped /\ \A e \in Calls : CallOK(e)
      /\ at[c] = "mint" /\ req[c] \in Requests /\ Caused(r, answer[c], said[c])
      /\ said[c] \in {"no_grant", "reason", "AuthzError"}
  BY GuardInvParts DEF MintAnswers, CallOK, PastItsStops
<1>2. /\ guard' = guard /\ revoked' = revoked /\ req' = req /\ verified' = verified
      /\ spent' = spent /\ said' = said
  BY DEF MintAnswers
<1>3. Goes(c, n)
  BY DEF MintAnswers
<1>4. h \in Sent \cup {Absent} /\ (h = "ticket" \/ h = answer[c].challenge)
  BY <1>1 DEF CallsTyped, Answers, Sent
<1> HIDE DEF h
<1>5. n \in Stops /\ n.at = "answered" /\ n.answer.status = 403 /\ n.answer.challenge = h
  BY <1>4 DEF Reply, Stops, Answers, Pending
<1> HIDE DEF n
<1>6. Caused(r, n.answer, said[c])
  BY <1>1, <1>4, <1>5 DEF Caused
<1>7. Its(c)' = Its(c) /\ at'[c] = n.at /\ answer'[c] = n.answer
  BY <1>1, <1>2, <1>3 DEF Its, Goes, CallsTyped
<1>8. CallOK(c)'
  BY <1>1, <1>2, <1>5, <1>6, <1>7, Answered
<1> QED
  BY <1>1, <1>2, <1>3, <1>5, <1>8, StepOfOne DEF CallsTyped

LEMMA LeaveKeeps ==
    ASSUME GuardInv, NEW c \in Calls, Leave(c)
    PROVE  CallsTyped' /\ \A e \in Calls : CallOK(e)'
<1>1. CallsTyped /\ \A e \in Calls : CallOK(e)
  BY GuardInvParts
<1>2. CallsTyped'
  BY <1>1 DEF Leave, CallsTyped, Said, Answers, Unanswered
<1>3. ASSUME NEW e \in Calls \ {c} PROVE CallOK(e)'
  <2>1. /\ at'[e] = at[e] /\ req'[e] = req[e] /\ said'[e] = said[e] /\ answer'[e] = answer[e]
        /\ verified'[e] = verified[e]
    BY <1>1 DEF Leave, CallsTyped
  <2> QED
    BY <1>1, <2>1, Undisturbed DEF Leave
<1>4. CallOK(c)'
  BY <1>1 DEF Leave, CallsTyped, CallOK, PastItsStops
<1> QED
  BY <1>2, <1>3, <1>4
-------------------------------------------------------------------------------
(* The feed and the store of proofs *)

LEMMA FeedLeft ==
    ASSUME FeedTyped, NothingForgotten, UNCHANGED feedVars, revoked \subseteq revoked',
           revoked' \subseteq Sids
    PROVE  FeedTyped' /\ NothingForgotten'
BY DEF FeedTyped, NothingForgotten, feedVars

LEMMA RefreshKeeps ==
    ASSUME now \in 0 .. MaxTime, FeedTyped, NothingForgotten, refresh, revoked' = revoked
    PROVE  FeedTyped' /\ NothingForgotten'
<1>1. now \in Times /\ now # Never
  BY GuardAssumption DEF Times
<1>2. CASE fetch # "none"
  BY <1>2, FeedLeft DEF refresh, FeedTyped
<1>3. CASE fetch = "none"
  BY <1>1, <1>3 DEF refresh, FeedTyped, NothingForgotten
<1> QED
  BY <1>2, <1>3

LEMMA FeedLandsKeeps ==
    ASSUME FeedTyped, NothingForgotten, FeedLands
    PROVE  FeedTyped' /\ NothingForgotten'
<1>1. /\ fetch = "served" /\ fetch' = "none" /\ entries' = document /\ document' = {}
      /\ heard' = heard \cup document /\ owed' = owed
      /\ revoked' = revoked /\ lastAttempt' = lastAttempt
  BY DEF FeedLands, Settle
<1>2. document # Absent
  BY GuardAssumption DEF FeedTyped
<1> QED
  BY <1>1, <1>2 DEF FeedTyped, NothingForgotten

LEMMA FeedFailsKeeps ==
    ASSUME FeedTyped, NothingForgotten, FeedFails
    PROVE  FeedTyped' /\ NothingForgotten'
BY DEF FeedFails, Settle, FeedTyped, NothingForgotten

LEMMA ProofsKept ==
    ASSUME GuardInv, NEW c \in Calls, VerifyProof(c)
    PROVE  ProofsTyped' /\ TakenForItsWindow'
<1> DEFINE p == Its(c).proof
           ok == ProofHolds(p) /\ ~Taken(p.jti)
<1>1. /\ now \in 0 .. MaxTime /\ ProofsTyped /\ TakenForItsWindow
      /\ req[c] \in Requests /\ p # Absent /\ p = Looks[req[c]].proof
  BY GuardInvParts DEF VerifyProof, CallOK, PastItsStops, Its
<1>2. p.jti \in Jtis /\ p.iat \in Int
  BY <1>1, RequestAssumption
<1>3. /\ seen' = IF ok THEN [seen EXCEPT ![p.jti] = p.iat + Leeway] ELSE seen
      /\ spent' = IF ok THEN spent \cup {p.jti} ELSE spent
  BY DEF VerifyProof
<1>4. CASE ~ok
  BY <1>1, <1>3, <1>4 DEF ProofsTyped, TakenForItsWindow
<1>5. CASE ok
  <2> DEFINE j == p.jti
             u == p.iat + Leeway
  <2>1. p.iat - now \in -Leeway .. Leeway
    BY <1>5 DEF ProofHolds
  <2>2. u \in Times /\ u # Never
    BY <1>1, <1>2, <2>1, GuardAssumption DEF Times
  <2>3. seen' = [seen EXCEPT ![j] = u] /\ spent' = spent \cup {j} /\ j \in Jtis
    BY <1>2, <1>3, <1>5
  <2>4. ASSUME NEW q \in Requests, Looks[q].proof # Absent
        PROVE  seen'[Looks[q].proof.jti] \in {Never, Looks[q].proof.iat + Leeway}
    <3>1. Looks[q].proof.jti \in Jtis
      BY <2>4, RequestAssumption
    <3>2. CASE Looks[q].proof.jti = j
      <4>1. Looks[q].proof.iat = p.iat
        BY <1>1, <2>4, <3>2, RequestAssumption
      <4>2. seen'[j] = u
        BY <1>1, <2>3 DEF ProofsTyped
      <4> QED
        BY <3>2, <4>1, <4>2
    <3>3. CASE Looks[q].proof.jti # j
      <4>1. seen'[Looks[q].proof.jti] = seen[Looks[q].proof.jti]
        BY <1>1, <2>3, <3>1, <3>3 DEF ProofsTyped
      <4> QED
        BY <1>1, <2>4, <4>1 DEF TakenForItsWindow
    <3> QED
      BY <3>2, <3>3
  <2> HIDE DEF j, u
  <2>5. ProofsTyped'
    BY <1>1, <2>2, <2>3 DEF ProofsTyped
  <2> QED
    BY <2>4, <2>5 DEF TakenForItsWindow
<1> QED
  BY <1>4, <1>5

-------------------------------------------------------------------------------
(* The invariant *)

LEMMA InitHolds == Init => GuardInv
<1> SUFFICES ASSUME Init PROVE GuardInv
  OBVIOUS
<1>1. now \in 0 .. MaxTime /\ guard \in Guards /\ Built(Cfg)
  BY GuardAssumption DEF Init, Cfg
<1>2. FeedTyped /\ NothingForgotten
  <2>1. /\ revoked = {} /\ entries = Absent /\ lastAttempt = Never
        /\ fetch = "none" /\ document = {} /\ heard = {} /\ owed = {}
    BY DEF Init
  <2> QED
    BY <2>1 DEF FeedTyped, NothingForgotten
<1>3. ProofsTyped /\ TakenForItsWindow
  BY RequestAssumption DEF Init, ProofsTyped, TakenForItsWindow
<1>4. CallsTyped
  BY DEF Init, CallsTyped, Said, Answers, Unanswered
<1>5. \A c \in Calls : CallOK(c)
  BY DEF Init, CallOK, PastItsStops
<1> QED
  BY <1>1, <1>2, <1>3, <1>4, <1>5, GuardInvParts

\* A step of the guard, of the feed or of the clock that leaves the calls alone.
LEMMA CallsLeft ==
    ASSUME GuardInv, UNCHANGED <<guard, callVars>>, revoked \subseteq revoked', spent' = spent
    PROVE  CallsTyped' /\ \A c \in Calls : CallOK(c)'
<1>1. CallsTyped /\ \A c \in Calls : CallOK(c)
  BY GuardInvParts
<1>2. at' = at /\ req' = req /\ said' = said /\ answer' = answer /\ verified' = verified
  BY DEF callVars
<1> QED
  BY <1>1, <1>2, Undisturbed DEF CallsTyped

LEMMA StepKeeps == GuardInv /\ [Next]_vars => GuardInv'
<1> SUFFICES ASSUME GuardInv, [Next]_vars PROVE GuardInv'
  OBVIOUS
<1>1. /\ now \in 0 .. MaxTime /\ guard \in Guards /\ Built(Cfg)
      /\ FeedTyped /\ ProofsTyped /\ CallsTyped
      /\ NothingForgotten /\ TakenForItsWindow
  BY GuardInvParts
<1> DEFINE Rest == /\ now' \in 0 .. MaxTime /\ guard' = guard
                   /\ FeedTyped' /\ NothingForgotten' /\ ProofsTyped' /\ TakenForItsWindow'
                   /\ CallsTyped' /\ \A c \in Calls : CallOK(c)'
<1>2. Rest => GuardInv'
  <2> SUFFICES ASSUME Rest PROVE GuardInv'
    OBVIOUS
  <2>1. guard' \in Guards /\ Built(Cfg)'
    BY <1>1 DEF Built, Cfg
  <2>2. TypeOK'
    BY <2>1 DEF TypeOK, FeedTyped, ProofsTyped, CallsTyped
  <2>3. \A c \in Calls : PastItsStops(c)'
    BY DEF CallOK
  <2>4. HandledIsAcceptable' /\ RefusedOnlyForCause'
    BY DEF CallOK, HandledIsAcceptable, RefusedOnlyForCause
  <2> QED
    BY <2>1, <2>2, <2>3, <2>4 DEF GuardInv
<1>3. UNCHANGED <<seen, spent>> => ProofsTyped' /\ TakenForItsWindow'
  BY <1>1 DEF ProofsTyped, TakenForItsWindow
<1>4. UNCHANGED <<feedVars, revoked>> => FeedTyped' /\ NothingForgotten'
  BY <1>1, FeedLeft DEF FeedTyped
<1>5. ASSUME NEW c \in Calls, NEW q \in Carries[c], Arrive(c, q) PROVE Rest
  BY <1>1, <1>3, <1>4, <1>5, ArriveKeeps DEF Arrive
<1>6. ASSUME NEW c \in Calls, VerifyProof(c) PROVE Rest
  BY <1>1, <1>4, <1>6, VerifyProofKeeps, ProofsKept DEF VerifyProof
<1>7. ASSUME NEW c \in Calls, NEW keyed \in BOOLEAN, Verify(c, keyed) PROVE Rest
  <2>1. refresh \/ UNCHANGED feedVars
    BY <1>7 DEF Verify
  <2>2. UNCHANGED <<now, guard, revoked, seen, spent>>
    BY <1>7 DEF Verify
  <2>3. FeedTyped' /\ NothingForgotten'
    BY <1>1, <1>4, <2>1, <2>2, RefreshKeeps
  <2> QED
    BY <1>1, <1>3, <1>7, <2>2, <2>3, VerifyKeeps
<1>8. ASSUME NEW c \in Calls, NEW d \in Decisions, CheckAnswers(c, d) PROVE Rest
  BY <1>1, <1>3, <1>4, <1>8, CheckKeeps DEF CheckAnswers
<1>9. ASSUME NEW c \in Calls, NEW ok \in BOOLEAN, MintAnswers(c, ok) PROVE Rest
  BY <1>1, <1>3, <1>4, <1>9, MintKeeps DEF MintAnswers
<1>10. ASSUME NEW c \in Calls, Leave(c) PROVE Rest
  BY <1>1, <1>3, <1>4, <1>10, LeaveKeeps DEF Leave
<1>11. ASSUME Refresh PROVE Rest
  <2>1. refresh /\ UNCHANGED <<now, guard, revoked, seen, callVars, spent>>
    BY <1>11 DEF Refresh
  <2>2. FeedTyped' /\ NothingForgotten'
    BY <1>1, <2>1, RefreshKeeps
  <2>3. CallsTyped' /\ \A e \in Calls : CallOK(e)'
    BY <2>1, CallsLeft
  <2> QED
    BY <1>1, <1>3, <2>1, <2>2, <2>3
<1>12. ASSUME FeedServes PROVE Rest
  <2>1. UNCHANGED <<now, guard, revoked, seen, callVars, spent>>
    BY <1>12 DEF FeedServes
  <2>2. /\ fetch = "asked" /\ fetch' = "served" /\ document' = revoked
        /\ entries' = entries /\ lastAttempt' = lastAttempt /\ heard' = heard /\ owed' = owed
    BY <1>12 DEF FeedServes
  <2>3. FeedTyped'
    BY <1>1, <2>1, <2>2 DEF FeedTyped
  <2>4. NothingForgotten'
    BY <1>1, <2>1, <2>2 DEF FeedTyped, NothingForgotten
  <2>5. CallsTyped' /\ \A e \in Calls : CallOK(e)'
    BY <2>1, CallsLeft
  <2> QED
    BY <1>1, <1>3, <2>1, <2>3, <2>4, <2>5
<1>13. ASSUME FeedLands PROVE Rest
  <2>1. Settle(document) /\ document \in SUBSET revoked
    BY <1>1, <1>13 DEF FeedLands, FeedTyped
  <2>2. UNCHANGED <<now, guard, revoked, seen, spent>>
    BY <2>1 DEF Settle
  <2>3. CallsTyped' /\ \A e \in Calls : CallOK(e)'
    BY <2>1, SettleKeeps
  <2>4. FeedTyped' /\ NothingForgotten'
    BY <1>1, <1>13, FeedLandsKeeps
  <2> QED
    BY <1>1, <1>3, <2>2, <2>3, <2>4
<1>14. ASSUME FeedFails PROVE Rest
  <2>1. Settle(entries) /\ (entries # Absent => entries \in SUBSET revoked)
    BY <1>1, <1>14 DEF FeedFails, NothingForgotten
  <2>2. UNCHANGED <<now, guard, revoked, seen, spent>>
    BY <2>1 DEF Settle
  <2>3. CallsTyped' /\ \A e \in Calls : CallOK(e)'
    BY <2>1, SettleKeeps
  <2>4. FeedTyped' /\ NothingForgotten'
    BY <1>1, <1>14, FeedFailsKeeps
  <2> QED
    BY <1>1, <1>3, <2>2, <2>3, <2>4
<1>15. ASSUME NEW s \in Sids, Revoke(s) PROVE Rest
  <2>1. UNCHANGED <<now, guard, feedVars, seen, callVars, spent>> /\ revoked' = revoked \cup {s}
    BY <1>15 DEF Revoke
  <2>2. FeedTyped' /\ NothingForgotten'
    BY <1>1, <2>1, FeedLeft DEF FeedTyped
  <2>3. CallsTyped' /\ \A e \in Calls : CallOK(e)'
    BY <2>1, CallsLeft
  <2> QED
    BY <1>1, <1>3, <2>1, <2>2, <2>3
<1>16. ASSUME Tick PROVE Rest
  <2>1. now' = now + 1 /\ now < MaxTime
        /\ UNCHANGED <<guard, revoked, feedVars, seen, callVars, spent>>
    BY <1>16 DEF Tick
  <2>2. now' \in 0 .. MaxTime
    BY <1>1, <2>1, GuardAssumption
  <2>3. CallsTyped' /\ \A e \in Calls : CallOK(e)'
    BY <2>1, CallsLeft
  <2> QED
    BY <1>1, <1>3, <1>4, <2>1, <2>2, <2>3
<1>17. ASSUME UNCHANGED vars PROVE Rest
  <2>1. UNCHANGED <<now, guard, revoked, feedVars, seen, callVars, spent>>
    BY <1>17 DEF vars
  <2>2. CallsTyped' /\ \A e \in Calls : CallOK(e)'
    BY <2>1, CallsLeft
  <2> QED
    BY <1>1, <1>3, <1>4, <2>1, <2>2
<1> HIDE DEF Rest
<1> QED
  BY <1>2, <1>5, <1>6, <1>7, <1>8, <1>9, <1>10, <1>11, <1>12, <1>13, <1>14, <1>15, <1>16, <1>17
     DEF Next, GoesOn

-------------------------------------------------------------------------------
(* Steps *)

\* Who moves a request on from where it waits.
LEMMA Moves ==
    ASSUME GuardInv, [Next]_vars, NEW c \in Calls, at'[c] # at[c]
    PROVE  \/ VerifyProof(c) \/ \E keyed \in BOOLEAN : Verify(c, keyed)
           \/ at[c] = "feed" /\ (FeedLands \/ FeedFails)
           \/ at[c] \in {"free", "check", "mint", "handled", "answered"}
<1> DEFINE Moved == \/ VerifyProof(c) \/ \E keyed \in BOOLEAN : Verify(c, keyed)
                    \/ at[c] = "feed" /\ (FeedLands \/ FeedFails)
                    \/ at[c] \in {"free", "check", "mint", "handled", "answered"}
<1>1. at \in [Calls -> Pending \cup {"free", "handled", "answered"}]
  BY GuardInvParts DEF CallsTyped
<1>2. ASSUME NEW e \in Calls, NEW v, at' = [at EXCEPT ![e] = v] PROVE e = c
  BY <1>1, <1>2
<1>3. ASSUME NEW e \in Calls, NEW q \in Carries[e], Arrive(e, q) PROVE Moved
  BY <1>2, <1>3 DEF Arrive, Goes
<1>4. ASSUME NEW e \in Calls, VerifyProof(e) PROVE Moved
  <2>1. e = c
    BY <1>2, <1>4 DEF VerifyProof, Goes
  <2> QED
    BY <1>4, <2>1
<1>5. ASSUME NEW e \in Calls, NEW keyed \in BOOLEAN, Verify(e, keyed) PROVE Moved
  <2>1. e = c
    BY <1>2, <1>5, ZenonT(40) DEF Verify, Goes
  <2> QED
    BY <1>5, <2>1
<1>6. ASSUME NEW e \in Calls, NEW d \in Decisions, CheckAnswers(e, d) PROVE Moved
  <2>1. at[e] = "check" /\ e = c
    BY <1>2, <1>6 DEF CheckAnswers, Goes
  <2> QED
    BY <2>1
<1>7. ASSUME NEW e \in Calls, NEW ok \in BOOLEAN, MintAnswers(e, ok) PROVE Moved
  <2>1. at[e] = "mint" /\ e = c
    BY <1>2, <1>7 DEF MintAnswers, Goes
  <2> QED
    BY <2>1
<1>8. ASSUME NEW e \in Calls, Leave(e) PROVE Moved
  <2>1. at[e] \in {"handled", "answered"} /\ e = c
    BY <1>2, <1>8 DEF Leave
  <2> QED
    BY <2>1
<1>9. ASSUME FeedLands \/ FeedFails PROVE Moved
  <2>1. ASSUME NEW known, Settle(known) PROVE at[c] = "feed"
    BY <2>1 DEF Settle
  <2> QED
    BY <1>9, <2>1 DEF FeedLands, FeedFails
<1>10. ~(UNCHANGED callVars)
  BY DEF callVars
<1>11. ~Refresh /\ ~FeedServes /\ ~Tick /\ (\A s \in Sids : ~Revoke(s)) /\ ~(UNCHANGED vars)
  BY <1>10 DEF Refresh, FeedServes, Tick, Revoke, vars, callVars
<1> HIDE DEF Moved
<1>12. Moved
  BY <1>3, <1>4, <1>5, <1>6, <1>7, <1>8, <1>9, <1>11 DEF Next, GoesOn
<1> QED
  BY <1>12 DEF Moved

LEMMA AdmittedByTheFeed ==
    ASSUME GuardInv, [Next]_vars, NEW c \in Calls,
           Cfg.feed, Admits(c), Token(Its(c)).sid # Absent
    PROVE  /\ Token(Its(c)).sid \notin heard'
           /\ fetch' = "none" => Token(Its(c)).sid \notin owed'
           /\ at[c] = "feed" \/ now - lastAttempt < Poll
<1> DEFINE t == Token(Its(c))
<1>1. now \in 0 .. MaxTime /\ guard \in Guards /\ FeedTyped /\ CallsTyped /\ NothingForgotten
  BY GuardInvParts
<1>2. at[c] \in {"verify", "feed"} /\ at'[c] \notin {at[c], "feed"} /\ answer'[c].status # 401
  BY DEF Admits
<1> DEFINE no == Reply(401, InvalidToken)
<1>3. no.answer.status = 401
  <2>1. InvalidToken \in Sent \cup {Absent}
    BY <1>1, ChallengeIsOwn DEF InvalidToken
  <2> QED
    BY <2>1 DEF Reply, Stops, Answers, Pending
<1> HIDE DEF no
<1> DEFINE Out == t.sid \notin heard' /\ (fetch' = "none" => t.sid \notin owed')
<1>4. ASSUME NEW keyed \in BOOLEAN, Verify(c, keyed) PROVE Out /\ now - lastAttempt < Poll
  <2> DEFINE r == Its(c)
             valid == keyed /\ verifyAccessToken(t, Proofs(r)) /\ t.sub
             asks == valid /\ Cfg.feed /\ t.sid # Absent
             next == IF ~valid THEN Reply(401, InvalidToken)
                     ELSE IF asks /\ Stale THEN GoOn("feed")
                     ELSE IF asks /\ isRevoked(entries, t) THEN Reply(401, InvalidToken)
                     ELSE Route(r, TRUE)
  <2>1. Goes(c, next) /\ (IF asks /\ Stale THEN refresh ELSE UNCHANGED feedVars)
    BY <1>4 DEF Verify
  <2>2. at'[c] = next.at /\ answer'[c] = next.answer
    BY <1>1, <2>1 DEF Goes, CallsTyped
  <2>3. valid
    <3>1. ~valid => answer'[c] = no.answer
      BY <2>2 DEF no
    <3> QED
      BY <1>2, <1>3, <3>1
  <2>4. ~Stale
    BY <1>2, <2>2, <2>3 DEF GoOn
  <2>5. ~isRevoked(entries, t)
    <3>1. isRevoked(entries, t) => answer'[c] = no.answer
      BY <2>2, <2>3, <2>4 DEF no
    <3> QED
      BY <1>2, <1>3, <3>1
  <2>6. heard' = heard /\ owed' = owed /\ fetch' = fetch
    BY <2>1, <2>4 DEF feedVars
  <2>7. now - lastAttempt < Poll
    BY <1>1, <2>4, GuardAssumption DEF Stale, FeedTyped, Times
  <2>8. t.sid \notin heard /\ (fetch = "none" => t.sid \notin owed)
    BY <1>1, <2>5 DEF isRevoked, NothingForgotten
  <2> QED
    BY <2>6, <2>7, <2>8
<1>5. ASSUME NEW known, Settle(known), at[c] = "feed" PROVE known = Absent \/ t.sid \notin known
  <2>1. answer'[c] = IF isRevoked(known, t) THEN no.answer
                     ELSE Route(Its(c), TRUE).answer
    BY <1>5 DEF Settle, no
  <2>2. ~isRevoked(known, t)
    BY <1>2, <2>1, <1>3
  <2> QED
    BY <2>2 DEF isRevoked
<1>6. ASSUME FeedLands, at[c] = "feed" PROVE Out
  <2>1. fetch = "served" /\ heard' = heard \cup document /\ owed' = owed /\ Settle(document)
    BY <1>6 DEF FeedLands
  <2>2. document # Absent /\ heard \cup owed \subseteq document
    BY <1>1, <2>1, GuardAssumption DEF FeedTyped, NothingForgotten
  <2> QED
    BY <1>5, <1>6, <2>1, <2>2
<1>7. ASSUME FeedFails, at[c] = "feed" PROVE Out
  <2>1. heard' = heard /\ owed' = {} /\ Settle(entries)
    BY <1>7 DEF FeedFails
  <2>2. entries = Absent \/ t.sid \notin entries
    BY <1>5, <1>7, <2>1
  <2> QED
    BY <1>1, <2>1, <2>2 DEF NothingForgotten
<1>8. ~VerifyProof(c) /\ at[c] \notin {"free", "check", "mint", "handled", "answered"}
  BY <1>2 DEF VerifyProof
<1>9. (\E keyed \in BOOLEAN : Verify(c, keyed)) \/ (at[c] = "feed" /\ (FeedLands \/ FeedFails))
  <2>1. at'[c] # at[c]
    BY <1>2
  <2> QED
    BY <1>8, <2>1, Moves
<1> QED
  BY <1>4, <1>6, <1>7, <1>9

LEMMA AcceptedAgainAtTheEdge ==
    ASSUME GuardInv, [Next]_vars, NEW c \in Calls,
           at[c] = "proof", at'[c] = "verify", Its(c).proof.jti \in spent
    PROVE  now = Its(c).proof.iat + Leeway
<1> DEFINE p == Its(c).proof
           ok == ProofHolds(p) /\ ~Taken(p.jti)
<1>1. /\ now \in 0 .. MaxTime /\ ProofsTyped /\ TakenForItsWindow /\ CallsTyped
      /\ req[c] \in Requests /\ p # Absent /\ p = Looks[req[c]].proof
  BY GuardInvParts DEF CallOK, PastItsStops, Its
<1>2. p.jti \in Jtis /\ p.iat \in Int
  BY <1>1, RequestAssumption
<1>3. VerifyProof(c)
  <2>1. at'[c] # at[c] /\ \A keyed \in BOOLEAN : ~Verify(c, keyed)
    BY DEF Verify
  <2> QED
    BY <2>1, Moves
<1>4. ok
  <2>1. at'[c] = (IF ok THEN GoOn("verify") ELSE Reply(401, InvalidToken)).at
    BY <1>1, <1>3 DEF VerifyProof, Goes, CallsTyped
  <2> QED
    BY <2>1 DEF Reply
<1>5. seen[p.jti] = p.iat + Leeway
  BY <1>1 DEF ProofsTyped, TakenForItsWindow
<1>6. p.iat + Leeway <= now
  BY <1>1, <1>2, <1>4, <1>5, GuardAssumption DEF Taken, ProofsTyped
<1>7. now <= p.iat + Leeway
  BY <1>1, <1>2, <1>4, GuardAssumption DEF ProofHolds
<1> QED
  BY <1>1, <1>2, <1>6, <1>7, GuardAssumption

-------------------------------------------------------------------------------
(* Theorems *)

\* The inductive invariant: every stop a request waits at was reached past all the
\* ones before it, the feed forgets nothing it heard, and a proof's identifier is
\* taken until its window ends.
THEOREM GuardHolds == Spec => []GuardInv
BY InitHolds, StepKeeps, PTL DEF Spec

\* Whatever the configuration, the requests and the order of events, the handler
\* of a guarded route runs only for a request that everything the guard stands for
\* holds of.
THEOREM OnlyAcceptable == Spec => []HandledIsAcceptable
<1>1. GuardInv => HandledIsAcceptable
  BY DEF GuardInv
<1> QED
  BY <1>1, GuardHolds, PTL

\* No request is refused without a cause, a key that could not be had being one.
THEOREM OnlyForCause == Spec => []RefusedOnlyForCause
<1>1. GuardInv => RefusedOnlyForCause
  BY DEF GuardInv
<1> QED
  BY <1>1, GuardHolds, PTL

\* A session a document had listed is never let in again, whatever the feed answers
\* or fails to later.  While no fetch is under way, neither is one that was revoked
\* when the last attempt began, unless that failed, and nobody is judged a poll
\* interval after it.
THEOREM RevokedStaysOut == Spec => RevocationHonoured
<1>1. GuardInv /\ [Next]_vars =>
        [\A c \in Calls : Cfg.feed /\ Admits(c) /\ Token(Its(c)).sid # Absent =>
            /\ Token(Its(c)).sid \notin heard'
            /\ fetch' = "none" => Token(Its(c)).sid \notin owed'
            /\ at[c] = "feed" \/ now - lastAttempt < Poll]_vars
  BY AdmittedByTheFeed
<1> QED
  BY <1>1, GuardHolds, PTL DEF Spec, RevocationHonoured

\* A DPoP proof that was accepted is accepted again in one instant only, the last
\* of its window, whatever its iat, the leeway and the order of requests.
THEOREM ReplayOnlyAtTheEdge == Spec => ProofReplayedOnlyAtTheEdge
<1>1. GuardInv /\ [Next]_vars =>
        [\A c \in Calls : at[c] = "proof" /\ at'[c] = "verify" /\ Its(c).proof.jti \in spent =>
            now = Its(c).proof.iat + Leeway]_vars
  BY AcceptedAgainAtTheEdge
<1> QED
  BY <1>1, GuardHolds, PTL DEF Spec, ProofReplayedOnlyAtTheEdge
===============================================================================
