------------------------------ MODULE AuthzClient ------------------------------
(***************************************************************************)
(* checkAccess() over REST beside the calls that change the principal: the *)
(* decision memo (core/decisionMemo.ts) and the section 16 retry loop      *)
(* around each check (rest/retry.ts, rest/authz.ts), over the session      *)
(* state of SignIn, whose calls go on while checks are out.                *)
(*                                                                         *)
(* An action is one turn of the event loop.  There is no absolute clock:   *)
(* Tick ages the memo's entries and runs the retry timers down, so time is *)
(* unbounded and the states are finite.                                    *)
(***************************************************************************)
EXTENDS SignIn

CONSTANTS Checks,        \* calls of checkAccess()
          Questions,     \* (subjectId, resourceId, action, scope)
          RequestedTtl,  \* options.decisionMemoTtlMs
          MAX_TTL,       \* MAX_TTL_MS
          MAX_ENTRIES,
          MAX_ATTEMPTS,  \* of one check
          BASE_DELAY,    \* BASE_DELAY_MS
          MAX_DELAY      \* MAX_DELAY_MS

ASSUME AuthzAssumption ==
    /\ Checks \cap (CredentialCalls \cup {Boot, None}) = {}
    /\ {RequestedTtl, MAX_TTL, BASE_DELAY, MAX_DELAY} \subseteq Nat
    /\ {MAX_ENTRIES, MAX_ATTEMPTS} \subseteq Nat \ {0}

VARIABLES pc,      \* where each check is
          asked,   \* key of each check
          attempt, \* withRetry's counter
          sentBy,  \* principal the attempt under way acts for
          left,    \* time left on the check's retry timer
          \* history, read by properties only:
          result,  \* what each check returned
          exposed  \* checks a change of principal may have overtaken

checkVars   == <<pc, asked, attempt, sentBy, left, result>>
sessionRest == <<closed, sessionVars, handles, callVars>>
vars        == <<signInVars, checkVars, exposed>>

Key      == [q : Questions, t : Tenants \cup {None}]
NoKey    == [q |-> None, t |-> None]
Decision == [key : Key, by : Principals, via : Checks]

Least(a, b) == IF a < b THEN a ELSE b

-------------------------------------------------------------------------------
(* DecisionMemo *)

\* Fault: a requested TTL above the ceiling is used as it is.
Ttl_Unclamped == RequestedTtl

\* The constructor's clamp; 0 disables the memo.
Ttl == Least(RequestedTtl, MAX_TTL)

\* Fault: the acting tenant is left out of the key.
MemoKey_NoTenant(q, t) == [q |-> q, t |-> None]

MemoKey(q, t) == [q |-> q, t |-> t]

Entries(k) == {i \in DOMAIN memo : memo[i].key = k}
Live(k)    == {i \in Entries(k) : memo[i].age < Ttl}

\* Map.delete(): a key has one entry at most.
Without(k) ==
    IF Entries(k) = {} THEN memo
    ELSE LET gone == CHOOSE i \in Entries(k) : TRUE
         IN  [i \in 1 .. Len(memo) - 1 |-> memo[IF i < gone THEN i ELSE i + 1]]

\* get() deletes the entry it finds expired.
AfterMiss(k) == IF Ttl = 0 THEN memo ELSE Without(k)

\* set(): the key moves to the end, the oldest entries go while there are too
\* many.
AfterSet(k, d) ==
    IF Ttl = 0 THEN memo
    ELSE LET stored == Append(Without(k), [key |-> k, decision |-> d, age |-> 0])
             extra  == IF Len(stored) > MAX_ENTRIES THEN Len(stored) - MAX_ENTRIES ELSE 0
         IN  SubSeq(stored, extra + 1, Len(stored))

-------------------------------------------------------------------------------
(* withRetry *)

backoffMs(n) == Least(MAX_DELAY, BASE_DELAY * 2 ^ (n - 1))

\* Full jitter over 0 .. backoff.  The Retry-After that would raise it is on no
\* error a check can throw: mapHttpStatusToError builds a plain NetworkError.
delayMs(n) == 0 .. backoffMs(n)

-------------------------------------------------------------------------------
(* checkAccess() *)

\* The call is over, and withRetry's locals with it.
Settles(c, how) ==
    /\ pc' = [pc EXCEPT ![c] = how]
    /\ attempt' = [attempt EXCEPT ![c] = 0]
    /\ sentBy' = [sentBy EXCEPT ![c] = None]

\* ensureOpen() throws.
CheckClosed(c) ==
    /\ pc[c] = "idle" /\ closed
    /\ pc' = [pc EXCEPT ![c] = "failed"]
    /\ UNCHANGED <<signInVars, asked, attempt, sentBy, left, result, exposed>>

CheckHit(c, q, t) ==
    LET k == MemoKey(q, t) IN
    /\ pc[c] = "idle" /\ ~closed
    /\ asked' = [asked EXCEPT ![c] = [q |-> q, t |-> t]]
    /\ \E i \in Live(k) : result' = [result EXCEPT ![c] = memo[i].decision]
    /\ pc' = [pc EXCEPT ![c] = "done"]
    /\ UNCHANGED <<signInVars, attempt, sentBy, left, exposed>>

CheckMiss(c, q, t) ==
    LET k == MemoKey(q, t) IN
    /\ pc[c] = "idle" /\ ~closed
    /\ Live(k) = {}
    /\ memo' = AfterMiss(k)
    /\ asked' = [asked EXCEPT ![c] = [q |-> q, t |-> t]]
    /\ attempt' = [attempt EXCEPT ![c] = 1]
    /\ sentBy' = [sentBy EXCEPT ![c] = Acting]
    /\ pc' = [pc EXCEPT ![c] = "sent"]
    /\ exposed' = IF Active = {} THEN exposed ELSE exposed \cup {c}
    /\ UNCHANGED <<sessionRest, left, result>>

\* The server's decision for the principal and the question on the wire; the
\* memo keeps it whatever has happened to the session meanwhile.
CheckAnswered(c) ==
    LET d == [key |-> asked[c], by |-> sentBy[c], via |-> c] IN
    /\ pc[c] = "sent" /\ sentBy[c] # None
    /\ memo' = AfterSet(MemoKey(asked[c].q, asked[c].t), d)
    /\ result' = [result EXCEPT ![c] = d]
    /\ Settles(c, "done")
    /\ UNCHANGED <<sessionRest, asked, left, exposed>>

\* NetworkError with attempts left.
CheckRetries(c) ==
    /\ pc[c] = "sent" /\ attempt[c] < MAX_ATTEMPTS
    /\ \E d \in delayMs(attempt[c]) : left' = [left EXCEPT ![c] = d]
    /\ sentBy' = [sentBy EXCEPT ![c] = None]
    /\ pc' = [pc EXCEPT ![c] = "sleeping"]
    /\ UNCHANGED <<signInVars, asked, attempt, result, exposed>>

\* The last NetworkError, or a decisive AuthError / AuthzError on any attempt.
CheckThrows(c) ==
    /\ pc[c] = "sent"
    /\ Settles(c, "failed")
    /\ UNCHANGED <<signInVars, asked, left, result, exposed>>

\* The retry timer fires and the next attempt goes out.
CheckResends(c) ==
    /\ pc[c] = "sleeping" /\ left[c] = 0
    /\ attempt' = [attempt EXCEPT ![c] = @ + 1]
    /\ sentBy' = [sentBy EXCEPT ![c] = Acting]
    /\ pc' = [pc EXCEPT ![c] = "sent"]
    /\ UNCHANGED <<signInVars, asked, left, result, exposed>>

-------------------------------------------------------------------------------
(* The calls of SignIn, and time *)

InFlight == {c \in Checks : pc[c] \in {"sent", "sleeping"}}

\* Checks that a step of a credential call may leave with an answer for the
\* wrong principal: those out beside it, and, at an adoption, which does not
\* clear the memo, or when a sign-in breaks off that has yet to, all earlier
\* ones.
Overtaken ==
    (IF Active' = {} /\ Active = {} THEN {} ELSE InFlight)
        \cup (IF adopted' = adopted /\ Torn' = Torn THEN {}
              ELSE {c \in Checks : pc[c] # "idle"})

Credentials ==
    /\ CredentialStep
    /\ exposed' = exposed \cup Overtaken
    /\ UNCHANGED checkVars

Handle == HandleStep /\ UNCHANGED <<checkVars, exposed>>

Tick ==
    /\ memo' = [i \in DOMAIN memo |-> [memo[i] EXCEPT !.age = Least(@ + 1, Ttl)]]
    /\ left' = [c \in Checks |-> IF left[c] = 0 THEN 0 ELSE left[c] - 1]
    /\ UNCHANGED <<sessionRest, pc, asked, attempt, sentBy, result, exposed>>

Init ==
    /\ SignInInit
    /\ pc = [c \in Checks |-> "idle"]
    /\ asked = [c \in Checks |-> NoKey]
    /\ attempt = [c \in Checks |-> 0]
    /\ sentBy = [c \in Checks |-> None]
    /\ left = [c \in Checks |-> 0]
    /\ result = [c \in Checks |-> None]
    /\ exposed = {}

CheckStep(c) ==
    \/ CheckClosed(c)
    \/ \E q \in Questions, t \in handles : CheckHit(c, q, t) \/ CheckMiss(c, q, t)
    \/ CheckAnswered(c) \/ CheckRetries(c) \/ CheckThrows(c) \/ CheckResends(c)

Next ==
    \/ \E c \in Checks : CheckStep(c)
    \/ Credentials
    \/ Handle
    \/ Tick

Spec == Init /\ [][Next]_vars

-------------------------------------------------------------------------------
(* Properties *)

Entry == [key : Key, decision : Decision, age : 0 .. Ttl]

\* Every variable holds values the code's types allow.
TypeOK ==
    /\ SignInTypeOK
    /\ memo \in Seq(Entry)
    /\ pc \in [Checks -> {"idle", "sent", "sleeping", "done", "failed"}]
    /\ asked \in [Checks -> Key \cup {NoKey}]
    /\ attempt \in [Checks -> 0 .. MAX_ATTEMPTS]
    /\ sentBy \in [Checks -> Principals \cup {None}]
    /\ left \in [Checks -> Nat]
    /\ result \in [Checks -> Decision \cup {None}]
    /\ exposed \subseteq Checks

\* Where a decision comes from: it is kept and returned under its own question,
\* and a check that waits for its timer has an attempt left.
CheckInv ==
    /\ \A i \in DOMAIN memo : /\ memo[i].key = memo[i].decision.key
                              /\ pc[memo[i].decision.via] # "idle"
    /\ \A c \in InFlight : asked[c] \in Key
    /\ \A c \in Checks : pc[c] = "sleeping" => attempt[c] < MAX_ATTEMPTS

\* A call that leaves the memo as it is when it starts.
Gentle(c) == c \in Adoptions \/ (c \in Logins /\ way[c] = "sso")

SsoLanded == \E c \in Logins : step[c] = "landed"

CallsKnown ==
    /\ adopted # None => step[adopted] = "done"
    /\ \A c \in Logins : step[c] = "starting" => way[c] = "opaque"

\* A check that is out unexposed is out alone, and for whom the client acts for.
FlightKnown ==
    /\ Active # {} => InFlight \subseteq exposed
    /\ \A c \in Checks \ exposed : pc[c] = "sent" => sentBy[c] = Acting

\* What is kept unexposed was decided for whom the client acts for, unless an SSO
\* session has landed whose return will clear the memo; and only calls that leave
\* the memo as it is can be under way beside it.
KeptKnown ==
    \A i \in DOMAIN memo :
        memo[i].decision.via \notin exposed =>
            /\ \A c \in Active : Gentle(c)
            /\ memo[i].decision.by = Acting \/ SsoLanded

\* The inductive invariant behind InheritedOnlyFromOverlap.
MemoInv == CallsKnown /\ FlightKnown /\ KeptKnown

\* A check is answered with the decision the server made on that very question
\* for that very tenant, whether the decision came off the wire or out of the
\* memo (memoKey: "the memo caching an answer to a question it was never asked").
AnswersItsQuestion ==
    \A c \in Checks : pc[c] = "done" => result[c].key = asked[c]

\* The memo never serves a decision that it has kept for MAX_TTL or longer,
\* whatever TTL was asked for (section 17.1 rules 2 and 6).
ServedWithinCeiling ==
    [][\A c \in Checks :
          (pc[c] = "idle" /\ pc'[c] = "done")
              => \E i \in DOMAIN memo : /\ memo[i].decision = result'[c]
                                        /\ memo[i].age < MAX_TTL]_vars

\* The memo hands a decision made for an earlier principal to a later one only
\* if the check that fetched it was out together with a credential call, or an
\* adoption, or a sign-in whose answer broke off behind its cookies, came after
\* it: in all ten operations, wherever each of them clears the memo, that is
\* enough (section 17.1 rule 9).
InheritedOnlyFromOverlap ==
    [][\A c \in Checks :
          (pc[c] = "idle" /\ pc'[c] = "done" /\ Acting # None /\ Active = {})
              => result'[c].by = Acting \/ result'[c].via \in exposed]_vars
===============================================================================
