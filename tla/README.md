# Verification of the AXIAM TypeScript SDK

TLA+ models of the stateful core of the SDK under `src/`, the TLC
configurations that check them on small instances, and TLAPS proofs of most of
their properties for every instance. Paths below are relative to the
repository's `src/` directory; "section n" is a section of `CONTRACT.md`.

Run TLC from this directory, for instance
`tlc -workers 2 -config session_oidc.cfg MCRefreshSession`; the module of each
configuration is in the table of runs. `tlapm RefreshSessionProofs.tla` checks
the proofs of one component. `PROJECT.json` maps every definition to the lines
it models, and lists the runs, one seeded fault per property that the property
detects, the findings, the hazards and the theorems.

## 1. The system

The SDK is a client library. One Node process holds one `SharedSession` per
client; handles, transports and OIDC clients share it. There is one thread, so
the interleaving that matters is that of event-loop turns: what a call reads
before an `await` may be stale after it. Messages to the AXIAM server travel over
HTTP and gRPC; AMQP and Shared Signals bring messages to the process; the
middleware makes it a resource server.

| Component | State | Operations | What is hard | What makes it correct | Module |
| --- | --- | --- | --- | --- | --- |
| Session and refresh guard: `rest/session.ts`, `rest/interceptors.ts`, `core/singleFlightRefresh.ts`, `node/session.ts`, `node/tokenManager.ts`, `node/cookieJar.ts`, `grpc/callWithRefresh.ts`, `grpc/interceptor.ts` | cookie jar, copies of its CSRF and access token, `authenticated`, device token, the shared refresh promise | a REST request or RPC with its reactive refresh and replay | single-use refresh tokens under concurrent 401s; lost answers; a login, logout or device login while a request is out | one refresh shared by all; nobody stranded; one replay; no spent token presented again; copies agree with the jar | `RefreshSession`, `SingleFlight` |
| OIDC refresh: `node/oidc.ts` `oidcRefresh` | `#pendingRefresh`, attempts | one operation under the session's guard | two kinds of closure share one promise | its token set comes from its own closure | `RefreshSession` |
| Signing in and out: `rest/auth.ts`, `rest/opaque.ts`, `rest/webauthn.ts`, `rest/accountLifecycle.ts`, the SSO completions and the adoption in `node/oidc.ts` | jar, device token, adopted token, `principalScope`, decision memo | ten operations in six files | each drops what belongs to the previous principal in an order of its own, around its awaits | nothing of one principal is used for the next | `SignIn` |
| Client handles: `rest/client.ts` | `closed`, acting-tenant handles | `actingTenant`, `close` | the gate depends on what a login reported | the gate knows whom the client acts for | `SignIn` |
| Authorization checks: `rest/authz.ts`, `core/decisionMemo.ts`, `rest/retry.ts` | memo of decisions, retry timers | `checkAccess` | memo written after an await; TTL and size limits; retry delays | a decision answers its own question, is young enough, and belongs to the principal | `AuthzClient` |
| AMQP consumer and reactor: `amqp/consumer.ts`, `amqp/reactor/runtime.ts`, `amqp/reactor/protocol.ts` | nonce store, in-flight dispatches, channel | `consume`, `reactorServe`, dispatch, deadline, abort, drain | redelivery, replay windows, handlers that hang, shutdown during delivery | no replay reaches a handler; replies are the handler's and in time; shutdown drains and ends | `AmqpReceiver` |
| Shared Signals receiver: `node/ssf.ts` | cache of the transmitter's keys, refetch and failure limiters, replay store | `verifySet`, `poll` | outages in the middle of a batch; key rotation; shared fetches | no event lost to the store, none recorded without being returned; keys neither too stale nor unknown for longer than a cache lives | `SsfReceiver` |
| Resource server: `middleware/authzCore.ts`, `middleware/mcpCore.ts`, `middleware/verifyCore.ts`, `middleware/express.ts`, `middleware/fastify.ts`, `nestjs/guard.ts`, `node/jwks.ts`, `node/dpop.ts` | DPoP `jti` store | guard of a request, its challenge, its UMA ticket | many checks in an order; two await points; proofs that expire as they are replayed | nothing is handled that any check refuses, nothing refused without cause | `ResourceGuard`, `McpMetadata` |
| Revocation feed: `node/revocationFeed.ts` | cached entries, last attempt, in-flight fetch | `isRevoked`, `refresh` | staleness, a shared fetch, fail-open | a session once read as revoked is never let in again; how old a set may be | `ResourceGuard` |
| OIDC login: `middleware/oidcLoginCore.ts`, `node/oidcState.ts`, `node/oidcIdToken.ts`, discovery in `node/oidc.ts` | discovery cache, login states | login handler, callback handler | shared fetches, crossed, replayed and late callbacks, single-use state | a callback succeeds for its own login only; a failure is met only by who waited | `OidcLogin` |
| Polled logins: `deviceLogin`, `cibaInitiate`, `cibaAwait`, `cibaPoll` in `node/oidc.ts`, `rest/retry.ts` | poll schedule, deadline | the loop, its retries, the ping | `slow_down`, rate limits, late timers, lost answers, two pollers of one grant | requests in time, and no sooner than the server wants where the code listens; tokens kept; the loop ends | `PollLogin` |
| Manifest engine: `management/manifest/*.ts`, `management/page.ts` | none but the server's | `plan`, `apply` | failure in the middle of a plan, an administrator at work, paging under change, rebinds | what is reported complete is there; nothing lost unsaid | `Manifest` |
| Management operations, gRPC wrappers, webhook, telemetry, errors, browser persona | little or none | one request each | | see section 8 | |

The components interact through the session: every REST request and RPC enters
the refresh guard; `oidcRefresh` borrows it; sign-ins, refresh and logout clear
the decision memo. The AMQP and Shared Signals receivers and the middleware have
state of their own and use the session for configuration and for the check a
guard makes.

## 2. Modules

| Module | Models | Built on | Checked through |
| --- | --- | --- | --- |
| `AuthServer` | the server's sessions as the SDK depends on them (external): rotating, single-use refresh tokens; access tokens that expire | | `RefreshSession` |
| `SingleFlight` | abstract: what a single-flight guard with result sharing promises (section 9) | | refined by `RefreshSession!Flight` |
| `RefreshSession` | the tokens and cookies of the Node session under REST, gRPC, OIDC and authentication calls | `AuthServer`, `SingleFlight` | `MCRefreshSession` |
| `SignIn` | whom the client acts for: ten credential operations, the gate, `close` | | `MCSignIn` |
| `AuthzClient` | `SignIn`, with checks, memo and retry going on beside it | extends `SignIn` | `MCAuthzClient` |
| `AmqpReceiver` | `consume()` and `reactorServe()`; `role` says which | | `MCAmqpReceiver` |
| `SsfReceiver` | `poll()` and `verifySet()` | | `MCSsfReceiver` |
| `McpMetadata` | operators: the metadata document of an MCP server and the challenges (`middleware/mcpCore.ts`) | | `ResourceGuard` |
| `ResourceGuard` | a guarded request from its arrival to its answer, and the feed | extends `McpMetadata` | `MCResourceGuard` |
| `OidcLogin` | the authorization-code login of a relying party | | `MCOidcLogin` |
| `PollLogin` | device login and CIBA | | `MCPollLogin` |
| `Manifest` | `validate`, `plan` and `apply` | | `MCManifest` |
| eight `*Proofs` modules | theorems (those of `SignIn` are in `AuthzClientProofs`) | the module they are named after | TLAPS |

`RefreshSession` and `SignIn` split the session between them. The first follows
the tokens of sessions through refreshes and replays and knows five
authentication calls; the second takes a whole session for one principal, knows
every way to sign in, and composes with the checks, whose memo depends on who
signs in and not on which token is sent.

**Actions.** An action is one event-loop turn: an application calls the SDK, or
an answer, message or timer arrives, together with every promise continuation
it sets off. Jar reads are microtasks and do not open a turn of their own. A
successful HTTP answer takes two turns in `RefreshSession` and `SignIn`: its
headers put the cookies in the jar (`posted` to `landed`) and the end of its body
resolves the request; where answers get lost, it may also break off in between, and the
call then rejects with the new cookies in the jar. In `SsfReceiver` an action is what one verification does between two
awaits, and time stands still until no verification can go on.

**RefreshSession.** A member of a `*Calls` constant is one call, made at most once.
`guard`, `phase`, `runTok` are `refreshPromise` and the POST of its closure. `wire[c]` is what the last
request of `c` carried: a REST replay reuses the original config, with a new
CSRF token and the jar's new cookies; an RPC's retry builds fresh metadata.
`ReleaseOk` and `ReleaseFail` are the continuations of everyone who awaits the
promise, in one turn. Tokens are pairs of a session and a generation: all
cookies of one answer have the same pair. The refresh endpoint is not
CSRF-checked by the server. There is one `OidcClient`. Three histories: `torn`, an answer
broke off behind its headers and no complete one has come since; `risked`, something
happened that may cost the session (a loss, a call of `refresh()`, a sign-in or sign-out, a
failed `oidcRefresh`); `shown`, the tokens presented by refreshes of which the code
promises that a failure gives the session up.

**SignIn.** A principal is named by the call that signed it in. `way` is how:
`login()`/`verifyMfa()`; OPAQUE, with its fallback to `login()`; a passkey;
`mfaSetupConfirm()`; `webauthnSetupRegisterFinish()`, which in Node is posted
without the jar; and the SSO completions, which do not call `ensureOpen()` and
clear the memo only after the answer. `Acting` is whom the next request acts for: a device token
keeps the jar away, and of cookies and an adopted bearer on one request the
server reads the cookie (section 6.1 rule 11). `tangled` is history: the calls that overlapped another.
`bare` are the calls whose POST went out without the jar, `Torn` the sign-ins whose answer broke
off when its cookies were in (`SignInBreaksOff`): nothing after their await is done.

**AuthzClient.** The memo is a sequence in insertion order; an entry ages with
`Tick`, and `Ttl` is the requested TTL clamped to `MAX_TTL`. `exposed` is history:
the checks that a change of principal may have overtaken. A check's retry waits for
the backoff alone: the errors of `checkAccess` carry no `Retry-After` (section 4).

**AmqpReceiver.** A member of `Attempts` is one delivery. `Forged` stands for all
that fails authentication (MAC, key version, JSON). `st` is the fate of a delivery,
`left` its deadline, `age` a message's `now - issued_at`, `seen` the life left to its
nonce entry. `stranded` deliveries were unacked when their connection went; the
broker requeues them while their handlers go on.

**SsfReceiver.** `Malformed` are the SETs refused before the key lookup, `Invalid`
those refused after it; signatures and claims are abstracted to these two sets.
Limiters and ages are distances from now that stop growing at their limits. The transmitter, the application and
the store are external: the application does what the doc of `poll()` asks of it
(acknowledges events and replayed SETs, reports refused ones). The answer to a fetch is made when the transmitter serves it
(`answer`), up to `Timeout` before it lands (`answerAge`), and the cache is dated when it
lands. `unkeyed` is history: the SETs refused because the keys that were held lacked theirs. The replay
window is taken to outlast the run; the store is never restarted.

**ResourceGuard.** A request waits at `proof`, `verify`, `feed`, `check` or `mint` and
is otherwise free, handled or answered; `Route` is what the route asks between
the token and the decision, in the order of the adapter (`canActivate` in
NestJS asks for role and decision at once and sends no challenge). The issuer,
the feed's server, the authorization service and jose are external; `jwtVerify` is what jose
documents, and `no_key` when the JWKS cannot be had. `heard` and `owed` are histories of the feed: the
sessions a document that was read had listed, and those already revoked when the last attempt
that brought one began. A token is its claims and whether its signature verifies. `entry` is how
the guard got its identity: the middleware, none, or an application's own
composition of `verifyDpopProof` and `authenticateRequest`, the only place a
proof is verified at all. A guard that `Built` refuses is never in use.

**OidcLogin.** A login stands for the state, nonce and verifier it drew. A
callback brings any code with any state. The server checks either the verifier
or the nonce binding only, so that each of the two defences is seen to do its
part. `fetch` is the discovery all callers share, `document` the cached one; a
200 that is no discovery document is cached like any other (`bad`). A 200 of the token
endpoint may come without an ID token (`opaque`); a callback that succeeds on one is `hollow`.

**PollLogin.** The same loop is `deviceLogin()` or `cibaAwait()`; a ping runs one
`cibaPoll()` of the application beside it. The budget of `PollSchedule` (`remaining`), the
deadline (`left`), the interval and the timers are counted down by `Tick`; a timer
may fire `Late`. The server holds one grant, answers it once, and may fail
before or after it does. Three histories say when the next request is welcome: `paced` is what is left of
the interval, `due` of the last `Retry-After`, and `ignored` says that the code did not keep the latter.

**Manifest.** `Items` is the order of a manifest, `Compute` the plan from a
snapshot, and one action runs or fails one step; a step may be lost before or
after the server has done it. `resolved` holds the ids and versions that earlier
steps and the read gave. Of an object's members one stands for those the
manifest states (`value`) and one for those it leaves out (`rest`; of a role that is `isGlobal`, which an
update sends all the same, `RestOf`). `altered` are the grants held with another effect or other scopes than stated.
The natural keys of a manifest are taken to be unique, which `validate` does not check for all of them. `IsManifest` is what the types of
`spec.ts` give (a subject's kind is told by its key, so that users, groups and accounts
have different ones), and `Consistent` what the server keeps to.

## 3. Runs

| Run | Instance | Shows |
| --- | --- | --- |
| `session_burst` | 2 REST requests, 1 RPC, 1 `refresh()`, lossy | `ReplayedOnce`, `SessionKept`, `SpentTokenNeverPresented` |
| `session_oidc` | 1 REST request, 1 RPC, 2 `oidcRefresh`, lossy | `OidcReturnsItsOwnTokens`, `SharesOneRefresh`, `CallsSettle` |
| `session_mixed` | 1 REST request, `refresh()`, login, logout, device login, lossy | `CopiesFollowJar` |
| `authz_client` | 2 checks of one question with and without an acting tenant; of a sign-in, a device login, an adoption, `refresh()`, `logout()` any two, whose answers may break off; memo of 2, asked TTL 2 over ceiling 1, 2 attempts | `AnswersItsQuestion`, `GateKnowsWhom`, `ServedWithinCeiling`, `InheritedOnlyFromOverlap` |
| `amqp_receiver` | 2 deliveries, 2 messages published twice, skew 1, timeout 1, every role | `ReturnsDrained`, `RejectionsAwaited`, `AnswersAreTheHandlers`, `ReplayedOnlyAtTheEdge`, `ShutdownEnds` |
| `ssf_receiver` | 1 poll loop with 2 SETs, 1 push endpoint with 2 (one with an unknown key), 1 rotating key, cache age 2, interval 1, timeout 1 | `RecordedIsReturned`, `NothingLost`, `PublishedKeysAreKnown`, `RemovedKeysStop`, and no deadlock |
| `resource_guard` | 2 requests of 13 looks, 7 guards of which 2 cannot be built, 1 session, 1 proof, feed of 1 entry polled every 2, a JWKS that may be unavailable, skew 1, clock to 3 | `HandledIsAcceptable`, `RefusedOnlyForCause`, `RevocationHonoured`, `ProofReplayedOnlyAtTheEdge`, `RequestsAnswered` |
| `oidc_login` | 2 logins, 2 callbacks, state lifetime asked 2 over ceiling 1, discovery lifetime 1, request timeout 1 | `SuccessIsItsOwn`, `VerifierSentOnce`, `UnavailableIsTrue`, `OldDocumentForgotten`, `CallsAnswered` |
| `poll_login` | the loop and 1 ping, `expires_in` 4, interval 1 or none (default 2), increment 1, `Retry-After` 0 or 2, delay 1, timers late by 1 | `BudgetNeverBinds`, `RedeemedIsKept`, `NothingSentPastDeadline`, `RequestsAreWelcome`, `LoopEnds` |
| `manifest` | a manifest with one or two of everything, a circular one and one that cannot be planned; an empty, an older, a drifted tenant (with a grant held as a deny, an altered scope and a role made global) and one with twin accounts; pages of 1, 2 runs, 1 edit | `Reconciled`, `BindingAccounted`, `NothingUnresolved`, `UnstatedKept` |
| `sign_in_used` | a sign-in and a device login | refutes `SignInIsUsed` (section 4) |
| `second_plan` | as `manifest` | refutes `SecondPlanIsEmpty` (section 4) |

Symmetry is used in `session_burst` (the REST requests), `authz_client` (the checks) and
`ssf_receiver` (the polled SETs) only, which have no liveness property.

**Why the bounds are enough.** Each hazard needs a number of actors that the
instance has. For the guard, in `session_burst`: two REST requests, of which one leads and one joins, before, during
or after the run; an RPC beside them because it does not clear `authenticated`; and a
`refresh()`, which presents a token outside the guard. In `session_oidc` two OIDC calls so that one leads
and one joins, and a request and an RPC so that a leading `oidcRefresh` meets a cookie
refresh with either kind of waiter. (The third try of `refreshUnderGuard` is in the model and is never needed: a leader whose
closure did not run takes the guard again in the turn that freed it, so that it joins
a foreign run at most once.) `session_mixed` has one of each call:
its properties relate two calls and the jar.
In `authz_client` two credential calls are the overlap every property is
about, and two checks are a fetch and a read of the memo; TTL 2 over ceiling 1
tells the clamp apart, and a memo of 2 fills with one question in two tenants; no property depends on how long a
retry waits, and with backoff 0 they come in every order.
In AMQP a redelivery
needs two attempts, and skew 1 gives messages of age -2 to 2, on both sides of
either edge. In SSF the cache outlives the limiter (2 over 1), as in the
code (10 minutes over 1), an answer may be one time unit on its way, in which the key may change, the batch has a SET before and after the outage, and the push
endpoint verifies concurrently with the poll. No SET there is
malformed or invalid: the first is refused without touching the cache or the store, the second
once its key is found, as the unknown one is when it is not, and the theorems of section 5
include both. (One more SET, pushed and invalid, was checked once: 5,737,554 states.)
In `resource_guard` each look differs from a good request in what one check looks at, and the
second call is one that can meet the first, in the shared fetch or with the
same proof; a poll interval of 2 within a clock of 3 leaves the feed fresh, stale and
fetched again, and the proof, of time 1 with leeway 1, is in time, at its edge and late.
In `oidc_login` two logins cross codes and
states, two callbacks replay one, and the clamp of the state's lifetime and the
expiry of the document are within reach of unbounded time; `poll_login` reaches
the deadline after polls, slow-downs, a retry and a late timer in any
combination, and the ping races the loop for the grant. In `manifest` a second run meets what the
first left half done, and one edit lands before, during or after the read; three
runs were tried once (763,849 states) and show the same.

**Bounds**: the numbers of calls, deliveries and SETs (each call made once; SSF's
loops and the guard's requests run for ever); `MaxCalls`, `MaxRuns`, `MaxEdits`,
`MaxTime`, `Copies`; attempts by the code's own `MAX_ATTEMPTS` (3; 2 in `authz_client`, where a check needs one retry to be overtaken in) and
`MAX_TRIES`; ages and counters stop growing where nothing tells larger values apart.
Deadlock is not checked (`CHECK_DEADLOCK FALSE`) where calls are one-shot, or the
clock bounded, and the system really stops. `ssf_receiver` loops, and checks deadlock.

**Fairness.** `RefreshSession`: weak fairness of `RestAnswer` only, because axios
settles every REST request within its timeout (`core/config.ts:157`,
`rest/session.ts:545-550`); RPCs have no deadline (`grpc/callWithRefresh.ts`), so
`CallsSettle` excludes them and one RPC that is never answered is a behaviour.
`AmqpReceiver`: `Tick`, `Expire`, `Stop`; handlers are the application's and may hang,
so `ShutdownEnds` holds because of the deadline alone.
`ResourceGuard`: a fetch of the feed ends, and whatever a request awaits
happens. Its formulas are the weak fairness of these actions with ENABLED written out
(`[]<>~waits \/ []<><<A>>_vars`), which spares TLC evaluating ENABLED of actions of
this size. `OidcLogin`: requests are answered or lost within the session's
timeout, and the code goes on from what it awaits. `PollLogin`: time passes, timers fire,
requests are answered or lost; nothing is assumed of the user, the application's
callback, the pings or the server's lasting kindness, so a server that answers
`slow_down` for ever is a behaviour and `LoopEnds` holds because of the deadline.
`CallsAnswered` is one formula `<>[]` because each call runs once.
`SignIn`, `AuthzClient`, `SsfReceiver` and `Manifest` have safety properties only.

## 4. What the repository says and the code does not do

Two runs have a property that TLC refutes; the findings in `PROJECT.json` quote the
statements.

- `sign_in_used`: in Node `webauthnSetupRegisterFinish()` is posted without the cookie jar
  (`rest/webauthn.ts:259`), so that the session it signs in is lost, although the
  client calls itself authenticated and the gate trusts the new report.
- `second_plan`: a tenant-wide binding that the manifest narrows to a resource of the same
  plan is planned `no-change` (`management/manifest/engine.ts:1345`): an `apply()` that reports
  itself complete leaves it tenant-wide, and the second plan is not all `no-change`.
  `Reconciled` names this case (`LeftEverywhere`) among its three exceptions.

Met while modelling, and without a run of their own. Where a property of section 3 would be
refuted by one of these, it names the case as an exception, in its formula and in the comment above it.
Session and sign-in:

- Explicit `refresh()` posts outside the guard (`rest/auth.ts:273`), so two refreshes may
  be in flight on one token and the second ends the session; `SessionKept` is about runs without one (`risked`).
- A refresh that fails or loses its answer gives the session up only if a REST request waits for it. After
  `refresh()`, or a run that only RPCs wait for, the spent token is presented again by whoever refreshes next
  (`grpc/callWithRefresh.ts:47`, `rest/auth.ts:273-303`, `CONTRACT.md:1439`), and an RPC does not look at
  `authenticated` at all. `SpentTokenNeverPresented` is about what is left: the tokens in `shown`.
- An answer that breaks off behind its headers leaves its cookies in the jar and the copies as they
  were: until the next complete refresh or login the CSRF header and the metadata of RPCs are the old ones
  (`rest/auth.ts:273-303`, `rest/interceptors.ts:118-133`). `CopiesFollowJar` is about runs with no such answer pending (`torn`).
- A sign-in whose answer breaks off there acts for the new principal with the old one's
  `principalScope` (`rest/auth.ts:183-215`) and, for an SSO completion, with the old one's memo
  (`node/oidc.ts:1451-1458`). `GateKnowsWhom` and `InheritedOnlyFromOverlap` name it.
- A failing `authenticateDevice()` puts the previous device token back over a login that
  completed meanwhile (`rest/auth.ts:458`, `CONTRACT.md:932`).
- A refresh begun before a login and answered after it puts the old session's
  cookies over the new one's, or clears `authenticated` (`rest/interceptors.ts:118`, `:128`;
  `rest/auth.ts:165` says that a login fully replaces the credential).
- A REST request that joins an `oidcRefresh` closure is replayed with the access
  token that was just refused (`rest/interceptors.ts:117`, section 9 near
  `CONTRACT.md:1310`); if that closure is rejected it clears the cookie session's
  `authenticated` flag. `session_burst` therefore has no OIDC calls.
- An `oidcRefresh` that joined a *failing* cookie refresh gives up instead of
  trying its own (`node/oidc.ts:2461`, doc at 2443-2445); a second `oidcRefresh()`
  joins the pending one whatever refresh token it was given (`node/oidc.ts:1145`).
- A 401 on a device request refreshes the cookie session if the device token
  was dropped meanwhile (`rest/interceptors.ts:109`, `CONTRACT.md:938`).
- OPAQUE, passkey and SSO completions posted while a device token is held lose
  their cookies (`CONTRACT.md:932-935`); `logout()` then neither ends nor clears the cookie session.
- `logout()` leaves the cached access token to later RPCs (`rest/auth.ts:334`,
  `node/tokenManager.ts:100`), and the resolved tenant and organisation ids
  (`rest/session.ts:221`, `node/session.ts:126`), which only `login()` and `verifyMfa()` replace.
- An adoption does not clear the decision memo (`node/oidc.ts:3058`, section 17.1 rule 9),
  and is never acted on while the jar holds cookies; a decision that arrives after the memo was
  cleared is stored for the next principal (`rest/authz.ts:71`).
  `InheritedOnlyFromOverlap` is what does hold.
- A check's retry ignores `Retry-After`: the errors of `checkAccess` are made without `retryAfterMs`
  (`rest/authz.ts:133-158`, `core/errorMapper.ts:297`, `core/errors.ts:151-166`), which `rest/retry.ts:87` reads and
  `test/rest/d5Conformance.test.ts:143-149` expects to be waited for. There is no property about it.
- `mfaSetupConfirm()` and `webauthnSetupRegisterFinish()` keep the device token. A 401 on a finish of MFA, WebAuthn or OPAQUE while
  authenticated refreshes and replays a one-time ceremony.
- `close()` leaves cookies and sleeping retries (`rest/client.ts:311`, `CONTRACT.md:3949`).

Receivers:

- A message accepted at the first instant of its window is fresh once more at the
  instant its nonce is pruned (`amqp/consumer.ts:75`; lines 50-52 say never); a DPoP proof likewise
  (`node/dpop.ts`). The two properties `ReplayedOnlyAtTheEdge` and `ProofReplayedOnlyAtTheEdge` show
  that this is the only such instant.
- `consume()` voids its dispatches: an ack on a closed channel, or a body that is
  the JSON value `null`, is an unhandled rejection (`amqp/consumer.ts:330`). A nonce is recorded
  before its handler runs (`:113`), so that a message redelivered after a lost connection
  is dropped as a replay. A reactor's handler that outran its deadline keeps running after shutdown, and
  a consumer the broker cancels is never renewed (`amqp/reactor/runtime.ts:601`).
- A valid SET is lost to an outage of the keys if the cache is filled and lacks its key: within a minute of a refetch
  or of a failed fetch it is refused `invalid_key`, for good (`node/ssf.ts:732-739`), which the doc
  calls no verdict (432-435). `NothingLost` counts these apart (`unkeyed`), and `PublishedKeysAreKnown` bounds how new such a key is.
- The cached keys are dated when their answer lands (`node/ssf.ts:762-763`) and not when it was made, so a removed key may
  verify, and a new one be unknown, for the cache's age and a request's timeout; the two properties about keys allow both.

Resource server:

- A JWKS that cannot be fetched is answered 401 `invalid_token` to requests nothing is wrong with (`node/jwks.ts:485-536`,
  `middleware/verifyCore.ts:167-169`, `middleware/express.ts:142-148`); `RefusedOnlyForCause` takes it for a cause, and the only such.
- While a fetch of the feed runs, who comes within a poll interval of its start is judged by the set before it, however
  old, against "at most one poll interval" (`node/revocationFeed.ts:123-128`, `:142`; header, 16-22); `RevocationHonoured` says so.
- A revocation is honoured within one poll interval *and* the fetch that follows it; a
  fetch that hangs delays the requests that wait for it, since the feed sets no
  timeout of its own (`node/revocationFeed.ts`, header and 123-128); checks of a stale set await it again.
- The adapters never pass `dpopThumbprint`: a DPoP-bound token is refused by every guard but the
  application's own. `examples/sender-constrained-guard.ts:84-118` says otherwise of `node/jwks.ts:557`.
- `README.md:511` calls `authenticateRequest` a read of a cached set; it may await the feed.
  `AxiamGuard` ignores `umaChallenge`. `verifyLogoutToken` applies no clock
  tolerance and lets errors of jose through.

Relying party:

- A JWKS that cannot be fetched is answered 401 `invalid_signature`, where the doc promises a
  `NetworkError` and 503. A callback whose exchange was lost has burnt its state: 503, then 401 on reload.
- A 200 that is no discovery document is cached, and every login of its lifetime is answered 503
  (`node/oidc.ts:515-518`, `middleware/oidcLoginCore.ts:137-157`); `UnavailableIsTrue` names it.
- A 200 of the token endpoint is taken unchecked (`node/oidc.ts:2876-2909`). Without an ID token no nonce is compared, so that where the
  server checks no verifier, any code succeeds with any live state, although the doc promises verified claims
  (`middleware/oidcLoginCore.ts:209-240`, doc at 86-88); `SuccessIsItsOwn` names it.
- The `Retry-After` of a 5xx that used up the attempts of a poll is forgotten by both loops, which wait for their own interval
  (`node/oidc.ts:2002`, `:2717`).
- `deviceLogin()` takes any 200 for a token set (`hollow`), `cibaPoll()` refuses it; `deviceLogin()` polls
  on after a redirect, CIBA throws; `cibaAwait()` ignores the `Retry-After` of a
  `rate_limit_exceeded` with a body and of a 429 that used up its attempts. `RequestsAreWelcome` names all of these (`ignored`).

Manifest:

- An unassignment that is lost after it was done is reported `failed` without an attempt to restore, and the
  re-apply assigns with no `tenant_scope` (`management/manifest/engine.ts:1120`, against 1101-1103 and 187-190).
- Grants are compared by permission only (`management/manifest/engine.ts:465-486`), so a deny, or narrower scopes, stated
  over a held allow is `no-change`; a scope's description is not compared at all (`:398`). These are the other two exceptions of `Reconciled`.
- A role whose `isGlobal` the manifest leaves out is compared and updated as `false` (`management/manifest/engine.ts:439-442`, `:921-925`), against
  `README.md:2783` and rule 3 of section 27.6 (`CONTRACT.md:9029-9032`); `UnstatedKept` names it.
- Names
  of service accounts are not unique and their pages are offsets, so a deletion during the read may hide one and
  a twin is created; a secret whose answer is lost is gone.

## 5. Proofs

TLAPS proves every safety property of every passing run, for every value of the constants that the named
assumptions allow (`SessionAssumption`, `ServerAssumption`, `ReceiverAssumption`, `SsfAssumption`, `SignInAssumption`,
`AuthzAssumption`, `LoginAssumption`, `PollAssumption`, `GuardAssumption`, `RequestAssumption`, `AbsentAssumption`, `PageAssumption`, `ManifestsAssumption`,
`TenantsAssumption`: calls are of one kind, `None` and `Absent` are no value of another kind, bounds are natural
numbers, a `jti` names one proof, manifests are well typed and tenants consistent).

| Module | Theorem | Property of a run |
| --- | --- | --- |
| `RefreshSessionProofs` | `TypeCorrect`, `GuardCorrect`, `NoLostWaiter` | (`TypeOK`, `GuardInv`, `WaitersHaveARun`) |
| | `NoRefreshLoop` | `ReplayedOnce` |
| | `GuardIsSingleFlight` | `SharesOneRefresh` |
| | `CopiesCorrect` | `CopiesFollowJar` |
| | `OwnTokens` | `OidcReturnsItsOwnTokens` |
| | `BurstKeepsSession` | `SessionKept`, where nobody signs in or out |
| | `SpentStaysOff` | `SpentTokenNeverPresented`, where nobody signs in or out |
| `AuthzClientProofs` | `GateCorrect`, `GateSound` | `GateKnowsWhom` (over `SignIn` alone) |
| | `ClientTyped`, `ClientGateCorrect`, `MemoCorrect` | |
| | `ClientGateSound` | `GateKnowsWhom` |
| | `EachItsOwn` | `AnswersItsQuestion` |
| | `ServedYoung` | `ServedWithinCeiling` |
| | `NothingInherited` | `InheritedOnlyFromOverlap` |
| `AmqpReceiverProofs` | `ReceiverTyped`, `DrainCorrect` | |
| | `ShutdownDrains` | `ReturnsDrained` |
| | `NoUnhandledRejection` | `RejectionsAwaited` |
| | `HandlersAnswer` | `AnswersAreTheHandlers` |
| | `ReplaysEnd` | `ReplayedOnlyAtTheEdge` |
| `SsfReceiverProofs` | `SsfTyped`, `OnlyJudgedIsSettled`, `KeysCorrect` | |
| | `NoSilentRecord` | `RecordedIsReturned` |
| | `NoEventLost` | `NothingLost` |
| | `PublishedKnown` | `PublishedKeysAreKnown` |
| | `RemovedStop` | `RemovedKeysStop` |
| `OidcLoginProofs` | `LoginTypeCorrect`, `LoginCorrect` | |
| | `NoCrossedLogin` | `SuccessIsItsOwn` |
| | `VerifierOnce` | `VerifierSentOnce` |
| | `NoStaleFailure` | `UnavailableIsTrue` |
| | `DocumentForgotten` | `OldDocumentForgotten` |
| `PollLoginProofs` | `PollTypeCorrect`, `PollCorrect` | |
| | `BudgetOutlasts` | `BudgetNeverBinds` |
| | `TokensStay` | `RedeemedIsKept` |
| | `DeadlineKept` | `NothingSentPastDeadline` |
| | `WelcomeKept` | `RequestsAreWelcome` |
| `ResourceGuardProofs` | `GuardHolds` | |
| | `OnlyAcceptable` | `HandledIsAcceptable` |
| | `OnlyForCause` | `RefusedOnlyForCause` |
| | `RevokedStaysOut` | `RevocationHonoured` |
| | `ReplayOnlyAtTheEdge` | `ProofReplayedOnlyAtTheEdge` |
| `ManifestProofs` | `TypeInvariant`, `TypeCorrect`, `StandInvariant` | (`TypeOK`) |
| | `UnstatedIsKept` | `UnstatedKept` |
| | `ResolvedAlways` | `NothingUnresolved` |
| | `BindingsAccounted` | `BindingAccounted` |
| | `ReconciledAlways` | `Reconciled` |

Hardly any of these properties is inductive as it stands. The inductive invariants, at the end of each component's module,
say why they hold:

- *The guard* (`GuardInv`). A release may restart an OIDC leader, which keeps the guard only if the leader is the one in
  `pending`, and a replay is the second attempt only if a waiting request has made
  exactly one: `GuardInv` adds these two histories (`RequestHistory`,
  `OneOidcLeader`) and that only guarded calls wait. The refinement maps `guard` to `owner`,
  the waiting calls to `waiting`, and each request's own state to the outcome it
  was told; a step of the session that touches none of them is a stutter.
- *The session.* `CopiesInv`: a copy is stale only while somebody who has landed is about to replace it, or an answer has broken off
  (`torn`). `KeptInv`: until something is `risked`, the refresh under way presents the jar's own token, so nobody's token is spent
  under him. `SpentInv`: the jar is ahead of every token in `shown`, except the one being presented, or `authenticated` has been
  dropped, after which no request refreshes; all that is presented is of the jar's session, also by `refresh()`.
- *The gate* (`GateInv`). Overlap taints both calls. A sign-in that is alone has no device token
  in its way and its cookies land; a report whose login was alone keeps the jar until something that has landed replaces the report, or has
  landed and broken off (`Reported`).
- *The memo* (`MemoInv`). A check in flight that is not `exposed` acts for the principal of now, and so does an entry of such a check:
  every change of principal clears the memo at its start, or (SSO) on its return, or (the adoption, and an answer that breaks off) exposes everything.
- *The drain* (`DrainInv`). A drain awaits all that is in flight, and
  a reactor whose connection is gone is draining or has returned. `EntryOutlasts`: a nonce's entry has the lifetime `2 * Skew - (age - first)` left, as long as its message is fresh.
- *Delivery* (`DeliveryInv`). A poll may settle a
  SET it called replayed, which is safe only because what is in the store has
  been returned or is in somebody's batch. `KeysInv`: where an answer under way and the transmitter disagree on a key, the key's state is no older than the answer
  (`AnswerDated`), and where the cache does, no older than the cache and the way its answer came (`CacheDated`); after a fetch
  everyone who waited goes on in the same turn (`FetchFresh`).
- *The login* (`LoginInv`). A state is in the store, or taken by one callback, and never both (`StateTakenOnce`);
  a state that is live is young (`StateInTime`); what the token endpoint answers is about the code it was sent, and comes without an ID token only where the verifier was that
  code's, unless none was checked (`AnswerFits`); a replaced document is no older than its time left says (`OldIsYoung`); a fetch
  that is joined has not settled (`FailureIsKnown`).
- *The poll loop* (`PollInv`). The interval is what the server asked for; a sleep ends before the deadline, and after the interval and the `Retry-After` it counts (`SleepFits`); the
  budget starts from the same `expires_in` as the deadline; the tokens are with who took them, or were lost.
- *The resource server* (its `GuardInv`). Each stop a request waits at was reached past all the ones before it (`PastItsStops`), so what
  was found at one, in another turn, still holds when the handler runs; the feed still holds what it heard and what it owes, and so does any document
  on its way (`NothingForgotten`); a `jti` that was accepted is taken until `iat + Leeway` (`TakenForItsWindow`).
- *The manifest* (`ItemsAre`, `KeysKnown`, `ReadsPrecede`, `StandInv`). Each item is in the order once, and after
  what it needs (`ItemsAre`, about `Items` alone), and an id is known of whatever is not still to be created
  (`KeysKnown`): no step meets a name that is not resolved. Versions only grow (`ReadsPrecede`), so a
  segment whose version is still the one that was read has not been edited, and what an update sends back is what is there. While nobody
  else works on the tenant, what was read is in it, and what was not is on a page still to be read
  (`ReadsHold`, `PagesLeft`); what is over is there, and what is ahead is as it was read (`ObjectsStand`, `LinksStand`, `BindingsStand`);
  every binding of before is there, but for the one a rebind is just replacing (`BindingsKept`); and what is not as stated was
  so before (`OddBefore`). With no step left, that is `Reconciled`.

The plan of a manifest is computed from sequences, and its theorems need induction over their lengths and over the
depth of the resource tree. `ManifestProofs` gets it from two lemmas about sets, `Least` and `SetInduction`, that
rest on the well-foundedness of `<`, with the induction hypothesis as a set of naturals; `Manifest` writes its recursions as functions.

TLC has checked each of these invariants on the instances of section 3 before it was proved.

**Only model-checked**: liveness (`CallsSettle`, `ShutdownEnds`, `RequestsAnswered`, `CallsAnswered`, `LoopEnds`), which
rests on fairness and is out of the prover's reach. What the runs of section 4 refute has no theorem, of course.

## 6. Hazards

`PROJECT.json` lists what is hard to test in this code, at the line where it bites, and each with the properties
that would catch it going wrong. One has none, because there the code does what it should not: a role's `isGlobal`
and a grant's effect and scopes (section 4). The other divergences of section 4 that the code takes for granted
(a closed client's sleeping retries, the broker's cancellation) are described there and have no property, since none holds.

## 7. Plan

What is left, in the order of what it would add:

1. The single-request operations of the relying party that verify what they receive: token exchange,
   introspection, back-channel logout.
2. That the SSF receiver implements an abstract at-least-once channel.

## 8. Not modelled, and why

The map covers about a sixth of the source lines. Most of the rest has no state and no control worth a model:
`management/models.ts` and `management/ops/` (over 10,000 lines) and their generator are types and one-request wrappers,
`node/oidcTypes.ts` is types, and most other files are half comments and option validation.

- Generated management wrappers, `grpc/client.ts`, client registration, the account life cycle but for `mfaSetupConfirm()`: one request each, no client state.
- Webhook verification, telemetry, error mapping, configuration: pure functions; those that
  steer control are inside the actions that use them.
- Cryptography: signatures, HMAC, OPAQUE, WebAuthn. A signature is a set of messages
  that verify or not; a ceremony is its effects on the client.
- The browser persona: the browser holds the cookies and no copies are kept.
- In the session: tenant and organisation headers. In sign-in: the guided answers (a second factor, an enrolment) are failures; the
  start of an SSO login.
- In the receivers: the broker's own cancellation of
  a consumer, connection `error` events (nothing listens to them; `ConnectionLost` is an
  orderly close), the reactor's event registry and reply fields, `ssfUnjudged`,
  expiry of the SSF replay window.
- In the guard: how each framework reads a header and writes an answer; decorators; the remote key set, which is jose's.
- In the relying party: UMA, introspection, revocation, token exchange, logout; a rejecting `onSuccess`; retries switched off; a
  200 to `deviceAuthorize` without `expires_in`.
- In the guard, the application's route behind the metadata path: the guard lets the request on to it, the model has it answered at once.
- In the manifest: two specifications of one natural name; the reads that a network-only manifest spares itself, the declarative form, validation of single members,
  subjects of one key and several kinds. A role's four lists are read in one step.
