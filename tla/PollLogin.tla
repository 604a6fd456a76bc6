------------------------------ MODULE PollLogin ------------------------------
(***************************************************************************)
(* The two logins decided on another device (node/oidc.ts): deviceLogin(), *)
(* which asks for a device code, shows it and polls, and cibaInitiate()    *)
(* with cibaAwait(), which polls, or waits for AXIAM's ping and lets the   *)
(* application call cibaPoll().  Every poll runs inside the section 16     *)
(* retry loop (rest/retry.ts), whose waits the polling loop bounds by its  *)
(* own deadline.  The authorization server (external) holds one grant,     *)
(* answers it once, and can fail before or after it does.                  *)
(*                                                                         *)
(* Time is counted down, never up: Tick runs every timer, so time is       *)
(* unbounded and the states are finite.                                    *)
(***************************************************************************)
EXTENDS Integers

CONSTANTS Loop,          \* the call of deviceLogin() or cibaAwait()
          Pings,         \* deliveries to the notification endpoint
          Intervals,     \* values of interval in the server's answer, 0 for none
          DEFAULT_INTERVAL, \* DEFAULT_POLL_INTERVAL_SECS, DEFAULT_CIBA_INTERVAL_SECS
          INCREMENT,     \* SLOW_DOWN_INCREMENT_SECS, CIBA_SLOW_DOWN_INCREMENT_SECS
          ExpiresIn,     \* values of expires_in in the server's answer
          RetryAfters,   \* Retry-After values the server sends, 0 for none
          BASE_DELAY,    \* BASE_DELAY_MS
          MAX_DELAY,     \* MAX_DELAY_MS
          Late           \* how late a timer of the event loop may fire

Pollers == {Loop} \cup Pings

ASSUME PollAssumption ==
    /\ Loop \notin Pings /\ "none" \notin Pollers
    /\ Intervals \subseteq Nat
    /\ RetryAfters \subseteq Nat /\ 0 \in RetryAfters
    /\ ExpiresIn \subseteq Nat
    /\ DEFAULT_INTERVAL \in Nat \ {0} /\ INCREMENT \in Nat \ {0}
    /\ {BASE_DELAY, MAX_DELAY, Late} \subseteq Nat

VARIABLES kind,      \* "device" or "ciba"
          pinged,    \* the request asked for ping delivery
          pc,        \* where each poller is
          wire,      \* its request, or the answer on its way back
          attempt,   \* withRetry's counter, of each poller
          timer,     \* time left on its sleep, Late included
          interval,  \* the loop's interval
          remaining, \* PollSchedule's budget
          left,      \* time left until the loop's deadline
          grant,     \* the grant at the server
          expiry,    \* time left until the server lets it expire
          \* history, read by properties only:
          redeemer,  \* the poller whose request took the tokens, or "none"
          lost,      \* the answer that carried them did not arrive
          owed,      \* the interval the server has asked for so far
          paced,     \* time left of that interval since the last poll's answer
          due,       \* time left of the Retry-After of the last answer
          ignored    \* the loop does not wait for that Retry-After

vars == <<kind, pinged, pc, wire, attempt, timer, interval, remaining, left,
          grant, expiry, redeemer, lost, owed, paced, due, ignored>>

serverVars == <<grant, expiry, redeemer>>
wishVars   == <<paced, due, ignored>>
loopVars   == <<interval, remaining, left, owed, wishVars>>

MAX_ATTEMPTS == 3

Greatest(a, b) == IF a > b THEN a ELSE b
Least(a, b)    == IF a < b THEN a ELSE b

NonTerminal == {"authorization_pending", "slow_down"}
Decisive    == {"access_denied", "expired_token", "invalid_grant", "other"}
Failures    == {"rate_limit_exceeded", "429", "5xx"}  \* "429": no protocol body
Bodies      == {"authorization", "tokens", "garbled", "redirect"}

\* n is the Retry-After of a failure, the expires_in of an authorization.
Answer(is) == [is |-> is, n |-> 0]

Quiet   == Answer("quiet")     \* nothing in flight
Request == Answer("request")   \* a request on its way
Nothing == Answer("nothing")   \* it failed before any response arrived

Waiting == {"sleeping", "retrying"}
Polling == Waiting \cup {"polling"}
Ended   == Decisive \cup {"got", "hollow", "failed", "expired"}

Answers == [is : {"quiet", "request", "nothing"} \cup NonTerminal \cup Decisive
                     \cup Failures \cup Bodies, n : Nat]

TypeOK ==
    /\ kind \in {"none", "device", "ciba"} /\ pinged \in BOOLEAN
    /\ pc \in [Pollers -> {"idle", "asking", "initiated"} \cup Polling \cup Ended]
    /\ wire \in [Pollers -> Answers]
    /\ attempt \in [Pollers -> 0 .. MAX_ATTEMPTS]
    /\ timer \in [Pollers -> Nat]
    /\ interval \in Nat /\ remaining \in Nat /\ left \in Int
    /\ owed \in Nat /\ paced \in Nat /\ due \in Nat /\ ignored \in BOOLEAN
    /\ grant \in {"none", "pending", "approved", "denied", "redeemed"}
    /\ expiry \in Nat
    /\ redeemer \in Pollers \cup {"none"} /\ lost \in BOOLEAN

Init ==
    /\ kind = "none" /\ pinged = FALSE
    /\ pc = [p \in Pollers |-> "idle"]
    /\ wire = [p \in Pollers |-> Quiet]
    /\ attempt = [p \in Pollers |-> 0]
    /\ timer = [p \in Pollers |-> 0]
    /\ interval = 0 /\ remaining = 0 /\ left = 0
    /\ owed = 0 /\ paced = 0 /\ due = 0 /\ ignored = FALSE
    /\ grant = "none" /\ expiry = 0 /\ redeemer = "none" /\ lost = FALSE

-------------------------------------------------------------------------------
(* Asking for the grant *)

\* deviceLogin(): deviceAuthorize() goes out, or the server advertises no
\* device_authorization_endpoint.
DeviceLogin ==
    /\ pc[Loop] = "idle"
    /\ kind' = "device"
    /\ \/ /\ pc' = [pc EXCEPT ![Loop] = "asking"]
          /\ wire' = [wire EXCEPT ![Loop] = Request]
       \/ /\ pc' = [pc EXCEPT ![Loop] = "failed"]
          /\ UNCHANGED wire
    /\ UNCHANGED <<pinged, attempt, timer, loopVars, serverVars, lost>>

CibaRequests == [secret : BOOLEAN, certificate : BOOLEAN, loginHint : BOOLEAN,
                 idTokenHint : BOOLEAN, ping : BOOLEAN, token : BOOLEAN,
                 endpoint : BOOLEAN]

\* cibaInitiate() refuses before it sends: no client authentication, both hints
\* or neither, a ping without a token to ping with, no endpoint advertised.
CibaRefusal(r) ==
    \/ ~r.secret /\ ~r.certificate
    \/ r.loginHint = r.idTokenHint
    \/ r.ping /\ ~r.token
    \/ ~r.endpoint

CibaInitiate(r) ==
    /\ pc[Loop] = "idle"
    /\ kind' = "ciba"
    /\ \/ /\ CibaRefusal(r)
          /\ pc' = [pc EXCEPT ![Loop] = "failed"]
          /\ UNCHANGED <<wire, pinged>>
       \/ /\ ~CibaRefusal(r)
          /\ pc' = [pc EXCEPT ![Loop] = "asking"]
          /\ wire' = [wire EXCEPT ![Loop] = Request]
          /\ pinged' = r.ping
    /\ UNCHANGED <<attempt, timer, loopVars, serverVars, lost>>

\* The server (external) stores the request and answers it, or refuses it.
ServerAuthorizes ==
    /\ pc[Loop] = "asking" /\ wire[Loop] = Request
    /\ \/ \E e \in ExpiresIn :
            /\ grant' = "pending" /\ expiry' = e
            /\ wire' = [wire EXCEPT ![Loop] = [is |-> "authorization", n |-> e]]
       \/ /\ wire' = [wire EXCEPT ![Loop] = Answer("other")]
          /\ UNCHANGED <<grant, expiry>>
    /\ UNCHANGED <<kind, pinged, pc, attempt, timer, loopVars, redeemer, lost>>

\* The deadline is a point on the clock, taken when the answer arrives;
\* PollSchedule's budget starts from the same expires_in.
Initiated(i) ==
    /\ pc[Loop] = "asking" /\ wire[Loop].is = "authorization"
    /\ interval' = IF i > 0 THEN i ELSE DEFAULT_INTERVAL
    /\ owed' = interval'
    /\ left' = wire[Loop].n /\ remaining' = wire[Loop].n
    /\ pc' = [pc EXCEPT ![Loop] = "initiated"]
    /\ wire' = [wire EXCEPT ![Loop] = Quiet]
    /\ UNCHANGED <<kind, pinged, attempt, timer, serverVars, lost, wishVars>>

\* Neither call is retried.
NotInitiated ==
    /\ pc[Loop] = "asking" /\ wire[Loop].is \in {"other", "nothing"}
    /\ pc' = [pc EXCEPT ![Loop] = "failed"]
    /\ wire' = [wire EXCEPT ![Loop] = Quiet]
    /\ UNCHANGED <<kind, pinged, attempt, timer, loopVars, serverVars, lost>>

-------------------------------------------------------------------------------
(* The polling loop *)

\* Fault: only the budget of the device loop is checked, and CIBA has none.
Expires_Budget(wait) == kind = "device" /\ wait >= remaining

\* tick() is false, or the wait would reach the deadline.
Expires(wait) == (kind = "device" /\ wait >= remaining) \/ wait >= left

\* Fault: the budget goes below zero on the wait that exhausts it.
Ticked_Unclamped(wait) == remaining - wait

\* Fault: a wait is counted when it is scheduled and when it is served.
Ticked_Twice(wait) == IF 2 * wait >= remaining THEN 0 ELSE remaining - 2 * wait

\* PollSchedule.tick(): the wait is taken from the budget before it is slept.
Ticked(wait) == IF wait >= remaining THEN 0 ELSE remaining - wait

\* The top of the loop, run in the same turn as the answer before it: waitSecs,
\* tick(), the deadline check and the sleep.
Schedule(itv, ra) ==
    LET wait == Greatest(itv, ra) IN
    /\ interval' = itv
    /\ remaining' = Ticked(wait)
    /\ paced' = owed'
    /\ \/ /\ Expires(wait)
          /\ pc' = [pc EXCEPT ![Loop] = "expired"]
          /\ UNCHANGED timer
       \/ /\ ~Expires(wait)
          /\ pc' = [pc EXCEPT ![Loop] = "sleeping"]
          /\ timer' = [timer EXCEPT ![Loop] = wait + Late]

\* onUserCode has returned, or the application calls cibaAwait().
LoopStarts ==
    /\ pc[Loop] = "initiated"
    /\ owed' = owed /\ due' = 0 /\ ignored' = FALSE
    /\ Schedule(interval, 0)
    /\ UNCHANGED <<kind, pinged, wire, attempt, left, serverVars, lost>>

\* onUserCode rejects.
UserCodeRefused ==
    /\ pc[Loop] = "initiated" /\ kind = "device"
    /\ pc' = [pc EXCEPT ![Loop] = "failed"]
    /\ UNCHANGED <<kind, pinged, wire, attempt, timer, loopVars, serverVars, lost>>

\* A sleep ends, on time or up to Late after it, and a request goes out: the
\* next poll of the loop, or the next attempt of the same poll.
Wakes(p) ==
    /\ pc[p] \in Waiting /\ timer[p] <= Late
    /\ attempt' = [attempt EXCEPT ![p] = IF pc[p] = "sleeping" THEN 1 ELSE @ + 1]
    /\ pc' = [pc EXCEPT ![p] = "polling"]
    /\ wire' = [wire EXCEPT ![p] = Request]
    /\ timer' = [timer EXCEPT ![p] = 0]
    /\ UNCHANGED <<kind, pinged, loopVars, serverVars, lost>>

-------------------------------------------------------------------------------
(* cibaHandlePing() and the cibaPoll() that answers it *)

\* What reaches the notification endpoint: how many Authorization values, and
\* whether they are a bearer, the expected token and a body naming a request.
Deliveries == [authorizations : 0 .. 2, bearer : BOOLEAN, token : BOOLEAN, id : BOOLEAN]

cibaHandlePing(d) == d.authorizations = 1 /\ d.bearer /\ d.token /\ d.id

\* AXIAM (external) pings once the request is decided, at least once, any time
\* after; only it knows the token.  Each accepted ping polls, once.
Pinged(p, d) ==
    /\ p \in Pings /\ pc[p] = "idle"
    /\ pinged /\ grant # "none"
    /\ d.token => grant \in {"approved", "denied", "redeemed"}
    /\ \/ /\ cibaHandlePing(d)
          /\ pc' = [pc EXCEPT ![p] = "polling"]
          /\ wire' = [wire EXCEPT ![p] = Request]
          /\ attempt' = [attempt EXCEPT ![p] = 1]
       \/ /\ ~cibaHandlePing(d)
          /\ pc' = [pc EXCEPT ![p] = "failed"]
          /\ UNCHANGED <<wire, attempt>>
    /\ UNCHANGED <<kind, pinged, timer, loopVars, serverVars, lost>>

-------------------------------------------------------------------------------
(* The server (external) and the network *)

UserDecides ==
    /\ grant = "pending" /\ expiry > 0
    /\ grant' \in {"approved", "denied"}
    /\ UNCHANGED <<kind, pinged, pc, wire, attempt, timer, loopVars, expiry, redeemer,
                   lost>>

Reply(p, a) == wire' = [wire EXCEPT ![p] = a]

\* The token endpoint answers a poll.  It redeems a grant once, also for an
\* account that may not sign in any more, and fails without touching it.
ServerAnswers(p) ==
    /\ pc[p] = "polling" /\ wire[p] = Request
    /\ \/ /\ grant = "pending" /\ expiry > 0
          /\ Reply(p, Answer("authorization_pending"))
          /\ UNCHANGED <<grant, redeemer>>
       \/ /\ grant \in {"pending", "approved"} /\ expiry > 0
          /\ Reply(p, Answer("slow_down"))
          /\ UNCHANGED <<grant, redeemer>>
       \/ /\ grant = "approved" /\ expiry > 0
          /\ grant' = "redeemed"
          /\ \/ \E b \in {"tokens", "garbled"} : Reply(p, Answer(b)) /\ redeemer' = p
             \/ Reply(p, Answer("invalid_grant")) /\ UNCHANGED redeemer
       \/ /\ grant = "denied"
          /\ Reply(p, Answer("access_denied"))
          /\ UNCHANGED <<grant, redeemer>>
       \/ /\ grant \in {"pending", "approved"} /\ expiry = 0
          /\ Reply(p, Answer("expired_token"))
          /\ UNCHANGED <<grant, redeemer>>
       \/ /\ grant = "redeemed"
          /\ Reply(p, Answer("invalid_grant"))
          /\ UNCHANGED <<grant, redeemer>>
       \/ /\ \/ \E f \in Failures, ra \in RetryAfters : Reply(p, [is |-> f, n |-> ra])
             \/ \E o \in {"redirect", "other"} : Reply(p, Answer(o))
          /\ UNCHANGED <<grant, redeemer>>
    /\ UNCHANGED <<kind, pinged, pc, attempt, timer, loopVars, expiry, lost>>

\* A request or an answer is lost, or the request times out.
Lost(p) ==
    /\ wire[p] \notin {Quiet, Nothing}
    /\ wire' = [wire EXCEPT ![p] = Nothing]
    /\ lost' = (lost \/ (redeemer = p /\ wire[p].is \in {"tokens", "garbled"}))
    /\ UNCHANGED <<kind, pinged, pc, attempt, timer, loopVars, serverVars>>

-------------------------------------------------------------------------------
(* The answer of a poll *)

Arrived(p) == pc[p] = "polling" /\ wire[p] \notin {Quiet, Request}

\* Fault: cibaPoll() also tries a 200 again whose body does not parse.
Retryable_Garbled(a) ==
    \/ a.is \in {"nothing", "5xx"}
    \/ kind = "ciba" /\ a.is \in {"429", "garbled"}

\* The NetworkErrors thrown inside withRetry().
Retryable(a) ==
    \/ a.is \in {"nothing", "5xx"}
    \/ kind = "ciba" /\ a.is = "429"

\* Answers after which the loop polls again: the two protocol answers, a rate
\* limit, what outlived the retries, and for deviceLogin() every NetworkError.
PollsAgain(p, a) ==
    \/ a.is \in NonTerminal \cup {"rate_limit_exceeded"}
    \/ Retryable(a) /\ attempt[p] = MAX_ATTEMPTS
    \/ kind = "device" /\ a.is \in {"429", "redirect"}

\* The token set is returned once its ID token is verified; deviceLogin() takes
\* any 200 for one.
Succeeds(p) ==
    /\ Arrived(p)
    /\ \/ /\ wire[p].is = "tokens"
          /\ \E out \in {"got", "failed"} : pc' = [pc EXCEPT ![p] = out]
       \/ /\ wire[p].is = "garbled" /\ kind = "device"
          /\ pc' = [pc EXCEPT ![p] = "hollow"]
    /\ wire' = [wire EXCEPT ![p] = Quiet]
    /\ UNCHANGED <<kind, pinged, attempt, timer, loopVars, serverVars, lost>>

\* Any other answer ends the poll, and the loop with it.
Fails(p) ==
    /\ Arrived(p)
    /\ wire[p].is # "tokens" /\ ~(wire[p].is = "garbled" /\ kind = "device")
    /\ ~(Retryable(wire[p]) /\ attempt[p] < MAX_ATTEMPTS)
    /\ ~(p = Loop /\ PollsAgain(p, wire[p]))
    /\ pc' = [pc EXCEPT ![p] = IF wire[p].is \in Decisive THEN wire[p].is ELSE "failed"]
    /\ wire' = [wire EXCEPT ![p] = Quiet]
    /\ UNCHANGED <<kind, pinged, attempt, timer, loopVars, serverVars, lost>>

backoffMs(n)  == Least(MAX_DELAY, BASE_DELAY * 2 ^ (n - 1))
delayMs(n, a) == {Greatest(j, a.n) : j \in 0 .. backoffMs(n)}

\* Fault: the retry's wait is served whatever the deadline.
Admits_Always(p, delay) == TRUE

\* deadlineBoundedRetry(): the loop's deadline bounds the retries inside its
\* polls; a cibaPoll() of its own has none.
Admits(p, delay) == p = Loop => delay < left

Retries(p) ==
    /\ Arrived(p)
    /\ Retryable(wire[p]) /\ attempt[p] < MAX_ATTEMPTS
    /\ \E delay \in delayMs(attempt[p], wire[p]) :
         \/ /\ Admits(p, delay)
            /\ pc' = [pc EXCEPT ![p] = "retrying"]
            /\ timer' = [timer EXCEPT ![p] = delay + Late]
         \/ /\ ~Admits(p, delay)
            /\ pc' = [pc EXCEPT ![p] = "expired"]
            /\ UNCHANGED timer
    /\ \/ p = Loop /\ due' = wire[p].n /\ ignored' = FALSE
       \/ p # Loop /\ UNCHANGED <<due, ignored>>
    /\ wire' = [wire EXCEPT ![p] = Quiet]
    /\ UNCHANGED <<kind, pinged, attempt, interval, remaining, left, owed, paced,
                   serverVars, lost>>

\* Fault: slow_down is taken for authorization_pending.
Raised_Never(itv) == itv

Raised(itv) == itv + INCREMENT

\* The answers whose Retry-After the next wait of the loop serves.  cibaAwait()
\* waits its interval whatever a rate limit carried, and both loops do after a
\* failure that used up the attempts of its poll.
Heeded(a) == kind = "device" /\ a.is \in {"rate_limit_exceeded", "429"}

\* slow_down raises the interval for good; a rate limit raises one wait.
Continues ==
    LET a == wire[Loop] IN
    /\ Arrived(Loop) /\ PollsAgain(Loop, a)
    /\ owed' = IF a.is = "slow_down" THEN owed + INCREMENT ELSE owed
    /\ Schedule(IF a.is = "slow_down" THEN Raised(interval) ELSE interval,
                IF Heeded(a) THEN a.n ELSE 0)
    /\ due' = a.n
    /\ ignored' = (a.n > 0 /\ ~Heeded(a))
    /\ wire' = [wire EXCEPT ![Loop] = Quiet]
    /\ UNCHANGED <<kind, pinged, attempt, left, serverVars, lost>>

-------------------------------------------------------------------------------
Down(t) == IF t > 0 THEN t - 1 ELSE 0

\* Time passes while no timer is overdue by more than Late.
Tick ==
    /\ \A p \in Pollers : pc[p] \in Waiting => timer[p] > 0
    /\ timer' = [p \in Pollers |-> Down(timer[p])]
    /\ left' = IF left > - Late - 1 THEN left - 1 ELSE left
    /\ expiry' = Down(expiry)
    /\ paced' = Down(paced) /\ due' = Down(due)
    /\ UNCHANGED <<kind, pinged, pc, wire, attempt, interval, remaining, grant, redeemer,
                   lost, owed, ignored>>

Next ==
    \/ DeviceLogin \/ (\E r \in CibaRequests : CibaInitiate(r))
    \/ ServerAuthorizes \/ (\E i \in Intervals : Initiated(i)) \/ NotInitiated
    \/ LoopStarts \/ UserCodeRefused \/ Continues
    \/ \E p \in Pollers :
         \/ Wakes(p) \/ ServerAnswers(p) \/ Lost(p)
         \/ Succeeds(p) \/ Fails(p) \/ Retries(p)
         \/ \E d \in Deliveries : Pinged(p, d)
    \/ UserDecides
    \/ Tick

Spec == Init /\ [][Next]_vars

\* Every request is answered or fails (the session's request timeout), timers
\* fire and answers are handled.  Nothing is assumed of the user, of the
\* application's callback or of the pings.
Fairness ==
    /\ WF_vars(Tick)
    /\ WF_vars(Continues)
    /\ \A p \in Pollers :
         /\ WF_vars(Wakes(p)) /\ WF_vars(Lost(p))
         /\ WF_vars(Succeeds(p)) /\ WF_vars(Fails(p)) /\ WF_vars(Retries(p))

FairSpec == Spec /\ Fairness

-------------------------------------------------------------------------------
(* Properties *)

\* A poll loop sends nothing at or past the deadline it took from expires_in,
\* but for the lateness of the timer that sends it: neither its own waits nor the
\* section 16 retries inside a poll reach the deadline, however long onUserCode
\* and the answers take (deviceLogin, cibaAwait, deadlineBoundedRetry).
NothingSentPastDeadline ==
    [][pc[Loop] \in Waiting /\ wire'[Loop] = Request => left > - Late]_vars

\* No request of the loop goes out before the interval of the response, raised once
\* for every slow_down that arrived, has passed since the poll before; nor before
\* the Retry-After of the last answer, whatever answer that was, but for two that
\* the code drops, where the interval alone is waited for: that of a 5xx that used
\* up the attempts of its poll, and in cibaAwait() that of a 429 which did, or
\* which is a rate_limit_exceeded (PollSchedule, cibaAwait, delayMs).
RequestsAreWelcome ==
    [][pc[Loop] \in Waiting /\ wire'[Loop] = Request =>
            paced = 0 /\ (due = 0 \/ ignored)]_vars

\* The rest of the loop's sleep, without the lateness of its timer.
Rest == Greatest(0, timer[Loop] - Late)

\* What PollSchedule has left, with the rest of the wait it has already counted,
\* is never less than what the clock leaves: the budget of a device login does not
\* run out before its deadline, and a Retry-After counts once (tick, rateLimited).
BudgetNeverBinds ==
    kind = "device" /\ pc[Loop] \in Polling =>
        remaining + (IF pc[Loop] = "sleeping" THEN Rest ELSE 0) >= left

\* A poller whose request took the tokens ends with them, or with the refusal of
\* their ID token or body, unless their answer was lost on the way: nothing that
\* follows a 200 is asked for again, to be told invalid_grant (cibaPoll,
\* deviceLogin; CONTRACT.md section 33.7 rule 7).
RedeemedIsKept ==
    \A p \in Pollers :
        redeemer = p /\ pc[p] \in Ended => pc[p] \in {"got", "hollow", "failed"} \/ lost

\* A loop that polls ends, although the server may answer nothing but 5xx or
\* slow_down and never lets the grant expire.
LoopEnds == pc[Loop] \in Polling ~> pc[Loop] \in Ended

-------------------------------------------------------------------------------
(* Why they hold *)

\* A poll that is tried again has an attempt left.
AttemptLeft == \A p \in Pollers : pc[p] = "retrying" => attempt[p] < MAX_ATTEMPTS

\* No slow_down is forgotten and none counts twice.
IntervalIsOwed == interval = owed

\* A sleep of the loop ends before its deadline and after the server's wish; the
\* interval has passed when a poll is on its way.
SleepFits ==
    /\ pc[Loop] \in Waiting =>
         timer[Loop] < left + Late /\ paced <= Rest /\ (due <= Rest \/ ignored)
    /\ pc[Loop] = "polling" => paced = 0

\* Nothing of the loop is on the wire while it sleeps.
SleepIsQuiet == pc[Loop] \in Waiting \cup {"initiated"} => wire[Loop] = Quiet

\* The budget starts from the same expires_in as the deadline.
BudgetStartsEven == pc[Loop] = "initiated" => remaining >= left

\* The tokens are with the poller that took them, or were lost on their way.
TokensKept ==
    \A p \in Pollers : redeemer = p =>
        \/ lost
        \/ pc[p] = "polling" /\ wire[p].is \in {"tokens", "garbled"}
        \/ pc[p] \in {"got", "hollow", "failed"}

PollInv ==
    /\ IntervalIsOwed /\ SleepFits /\ SleepIsQuiet /\ BudgetStartsEven
    /\ BudgetNeverBinds /\ TokensKept
=============================================================================
