------------------------------ MODULE SsfReceiver ------------------------------
(***************************************************************************)
(* The Shared Signals receiver (node/ssf.ts): verifySet() for a push       *)
(* endpoint and poll() for a polled stream, over one cache of the          *)
(* transmitter's keys and one replay store.  Verifications run             *)
(* concurrently: each may await a key fetch, which all that need one       *)
(* share, and then the store.  A poll judges its SETs one after another.   *)
(*                                                                         *)
(* An action is what one verification does between two awaits.  Time is    *)
(* relative and stands still within a turn of the event loop: Tick ages    *)
(* the cache, the answer under way and the two limiters when no            *)
(* verification is runnable.                                               *)
(*                                                                         *)
(* The transmitter, the application and the replay store are outside the   *)
(* repository.  The transmitter offers a SET until it is acknowledged or   *)
(* refused; the application does what the doc of poll() and of verifySet() *)
(* asks of it.  The replay window is taken to outlast the run.             *)
(***************************************************************************)
EXTENDS Naturals

CONSTANTS Pollers,    \* loops that call poll()
          Pushers,    \* push endpoints: loops that call verifySet()
          Polled,     \* SETs of the polled stream
          Pushed,     \* SETs of the pushed stream
          Malformed,  \* SETs refused before their key is looked up (steps 1-3)
          Invalid,    \* SETs refused after it (steps 5-8)
          Kids,       \* keys of the transmitter
          KeyOf,      \* [SET -> its kid, None for one the transmitter never has]
          MaxAge,     \* JWKS_CACHE_MAX_AGE_MS
          Interval,   \* JWKS_REFETCH_INTERVAL_MS
          Timeout,    \* requestTimeoutMs: how long an answer may be on its way
          None

Sets   == Polled \cup Pushed
Actors == Pollers \cup Pushers

ASSUME SsfAssumption ==
    /\ Pollers \cap Pushers = {} /\ Polled \cap Pushed = {}
    /\ Malformed \cup Invalid \subseteq Sets
    /\ KeyOf \in [Sets -> Kids \cup {None}]
    /\ MaxAge \in Nat \ {0} /\ Interval \in Nat \ {0} /\ Timeout \in Nat
    /\ None \notin Sets \cup Kids /\ \A K \in SUBSET Kids : K # None

VARIABLES keys,         \* #keys: the cached kids, or None
          keysAge,      \* now - #keysFetchedAt, no further than MaxAge
          fetching,     \* #fetching: is a key fetch on its way?
          sinceRefetch, \* now - #lastRefetch, no further than Interval
          sinceFailed,  \* now - #lastFailedFetch, no further than Interval
          seen,         \* the replay store
          pc,           \* where each actor is
          cur,          \* SET each actor is verifying
          todo,         \* SETs each poll has yet to judge
          batch,        \* what each poll has found out about the others
          storeFailed,  \* PollBatch.storeFailed
          sent,         \* jtis in ack and setErrs of each poll
          \* outside:
          jwks,         \* state of each key at the transmitter
          keyAge,       \* time since that state began, no further than Known
          answer,       \* kids in the answer to the fetch under way, or None
          answerAge,    \* time since that answer was made
          buffer,       \* SETs the transmitter still holds
          settled,      \* jtis the application acknowledges or reports
          \* history, read by properties only:
          delivered,    \* SETs handed to the application
          unkeyed       \* SETs refused while the keys held had not their kid

keyVars   == <<keys, keysAge, fetching, sinceRefetch, sinceFailed>>
wireVars  == <<answer, answerAge>>
pollVars  == <<todo, batch, storeFailed, sent>>
worldVars == <<jwks, keyAge, buffer, settled>>
vars == <<keyVars, wireVars, seen, pc, cur, pollVars, worldVars, delivered, unkeyed>>

PC == {"idle", "posted", "next", "lookup", "filling", "filled", "refetching",
       "refetched", "asking"}

\* Stages in which an actor has a SET in hand.
Verifying == {"lookup", "filling", "filled", "refetching", "refetched", "asking"}

\* Stages in which an actor goes on within the turn.
Runnable == {"next", "lookup", "filled", "refetched"}

Verdicts   == {"accepted", "replayed", "refused", "unjudged"}
EmptyBatch == [v \in Verdicts |-> {}]

Published == {k \in Kids : jwks[k] = "published"}

\* Age at which a change of the transmitter's keys has reached every receiver:
\* the answer that misses it, and then the cache, may be that old.
Known == MaxAge + Timeout

-------------------------------------------------------------------------------
(* #verify() *)

\* The verification of a's SET ends with verdict v.  A push endpoint answers
\* 202, 400 or, for "unjudged", 5xx; the transmitter may not get the answer.
Ends(a, v) ==
    /\ pc' = [pc EXCEPT ![a] = IF a \in Pollers THEN "next" ELSE "idle"]
    /\ batch' = IF a \in Pollers
                THEN [batch EXCEPT ![a][v] = @ \cup {cur[a]}] ELSE batch
    /\ delivered' = IF v = "accepted" /\ a \in Pushers
                    THEN delivered \cup {cur[a]} ELSE delivered
    /\ unkeyed' = IF v = "refused" /\ KeyOf[cur[a]] \notin keys
                  THEN unkeyed \cup {cur[a]} ELSE unkeyed
    /\ \/ UNCHANGED buffer
       \/ a \in Pushers /\ v # "unjudged" /\ buffer' = buffer \ {cur[a]}
    /\ cur' = [cur EXCEPT ![a] = None]
    /\ UNCHANGED <<wireVars, todo, sent, jwks, keyAge, settled>>

\* Steps 5 to 8, once the key is found, and the store that failed before.
Judges(a) ==
    /\ UNCHANGED <<fetching, sinceRefetch>>
    /\ IF cur[a] \in Invalid THEN Ends(a, "refused")
       ELSE IF storeFailed[a] THEN Ends(a, "unjudged")
       ELSE /\ pc' = [pc EXCEPT ![a] = "asking"]
            /\ UNCHANGED <<wireVars, cur, todo, batch, sent, worldVars, delivered, unkeyed>>

Awaits(a, stage) ==
    /\ pc' = [pc EXCEPT ![a] = stage]
    /\ fetching' = TRUE
    /\ UNCHANGED <<wireVars, cur, todo, batch, sent, worldVars, delivered, unkeyed>>

\* #keyFor() with a key set in the cache: an unknown kid is refetched, unless
\* a refetch or a failed fetch is too recent.
Matches(a) ==
    \/ /\ KeyOf[cur[a]] \in keys
       /\ Judges(a)
    \/ /\ KeyOf[cur[a]] \notin keys
       /\ sinceRefetch = Interval /\ sinceFailed = Interval
       /\ sinceRefetch' = 0
       /\ Awaits(a, "refetching")
    \/ /\ KeyOf[cur[a]] \notin keys
       /\ sinceRefetch < Interval \/ sinceFailed < Interval
       /\ Ends(a, "refused")
       /\ UNCHANGED <<fetching, sinceRefetch>>

\* Fault: the cache never expires.
Expired_Never == FALSE

Expired == keysAge = MaxAge

\* #keyFor(), from its start.
Lookup(a) ==
    /\ pc[a] = "lookup"
    /\ \/ /\ keys # None /\ ~Expired
          /\ Matches(a)
          /\ UNCHANGED keys
       \/ /\ keys = None \/ Expired
          /\ keys' = None
          /\ IF sinceFailed < Interval
             THEN Ends(a, "unjudged") /\ UNCHANGED fetching
             ELSE Awaits(a, "filling")
          /\ UNCHANGED sinceRefetch
    /\ UNCHANGED <<keysAge, sinceFailed, seen, storeFailed>>

\* The fill a awaited has landed.
Filled(a) ==
    /\ pc[a] = "filled"
    /\ Matches(a)
    /\ UNCHANGED <<keys, keysAge, sinceFailed, seen, storeFailed>>

\* The refetch a awaited has landed: known now, or refused.
Refetched(a) ==
    /\ pc[a] = "refetched"
    /\ IF KeyOf[cur[a]] \in keys THEN Judges(a)
       ELSE Ends(a, "refused") /\ UNCHANGED <<fetching, sinceRefetch>>
    /\ UNCHANGED <<keys, keysAge, sinceFailed, seen, storeFailed>>

\* Fault: a store that cannot answer is taken to have seen the jti.
StoreFails_AsReplayed(a) ==
    /\ pc[a] = "asking"
    /\ Ends(a, "replayed")
    /\ UNCHANGED <<keyVars, seen, storeFailed>>

\* #recordJti(): the store answers with one of its two verdicts ...
StoreAnswers(a) ==
    /\ pc[a] = "asking"
    /\ IF cur[a] \in seen
       THEN Ends(a, "replayed") /\ UNCHANGED seen
       ELSE Ends(a, "accepted") /\ seen' = seen \cup {cur[a]}
    /\ UNCHANGED <<keyVars, storeFailed>>

\* ... or cannot, and is not asked again in this batch.
StoreFails(a) ==
    /\ pc[a] = "asking"
    /\ Ends(a, "unjudged")
    /\ storeFailed' = IF a \in Pollers THEN [storeFailed EXCEPT ![a] = TRUE] ELSE storeFailed
    /\ UNCHANGED <<keyVars, seen>>

-------------------------------------------------------------------------------
(* #fetchKeys() *)

\* The transmitter answers with the keys it publishes then ...
JwksAnswered ==
    /\ fetching /\ answer = None
    /\ answer' = Published
    /\ answerAge' = 0
    /\ UNCHANGED <<keyVars, seen, pc, cur, pollVars, worldVars, delivered, unkeyed>>

\* All that await the fetch go on.
Resumed == [a \in Actors |-> CASE pc[a] = "filling"    -> "filled"
                               [] pc[a] = "refetching" -> "refetched"
                               [] OTHER                -> pc[a]]

\* ... and the answer, cached as it is, counts as new when it lands.
FetchLands ==
    /\ fetching /\ answer # None
    /\ fetching' = FALSE
    /\ keys' = answer
    /\ keysAge' = 0
    /\ answer' = None /\ answerAge' = 0
    /\ pc' = Resumed
    /\ UNCHANGED <<sinceRefetch, sinceFailed, seen, cur, pollVars, worldVars,
                   delivered, unkeyed>>

Waiting == {a \in Actors : pc[a] \in {"filling", "refetching"}}

\* Fault: the age of the cache is reset whether or not the fetch succeeded.
FetchFails_ResetsAge ==
    /\ fetching
    /\ fetching' = FALSE
    /\ sinceFailed' = 0
    /\ answer' = None /\ answerAge' = 0
    /\ keysAge' = 0
    /\ pc' = [a \in Actors |-> IF a \notin Waiting THEN pc[a]
                               ELSE IF a \in Pollers THEN "next" ELSE "idle"]
    /\ batch' = [p \in Pollers |-> IF p \notin Waiting THEN batch[p]
                    ELSE [batch[p] EXCEPT !["unjudged"] = @ \cup {cur[p]}]]
    /\ cur' = [a \in Actors |-> IF a \in Waiting THEN None ELSE cur[a]]
    /\ UNCHANGED <<keys, sinceRefetch, seen, todo, storeFailed, sent,
                   worldVars, delivered, unkeyed>>

\* The fetch, or the discovery before it, fails: no verdict for any of them.
FetchFails ==
    /\ fetching
    /\ fetching' = FALSE
    /\ sinceFailed' = 0
    /\ answer' = None /\ answerAge' = 0
    /\ pc' = [a \in Actors |-> IF a \notin Waiting THEN pc[a]
                               ELSE IF a \in Pollers THEN "next" ELSE "idle"]
    /\ batch' = [p \in Pollers |-> IF p \notin Waiting THEN batch[p]
                    ELSE [batch[p] EXCEPT !["unjudged"] = @ \cup {cur[p]}]]
    /\ cur' = [a \in Actors |-> IF a \in Waiting THEN None ELSE cur[a]]
    /\ UNCHANGED <<keys, keysAge, sinceRefetch, seen, todo, storeFailed, sent,
                   worldVars, delivered, unkeyed>>

-------------------------------------------------------------------------------
(* poll() and verifySet() *)

PollCall(p) ==
    /\ pc[p] = "idle"
    /\ pc' = [pc EXCEPT ![p] = "posted"]
    /\ sent' = [sent EXCEPT ![p] = settled]
    /\ UNCHANGED <<keyVars, wireVars, seen, cur, todo, batch, storeFailed, worldVars,
                   delivered, unkeyed>>

\* The transmitter drops what the request settles and returns what it holds.
PollAnswered(p) ==
    /\ pc[p] = "posted"
    /\ buffer' = buffer \ sent[p]
    /\ todo' = [todo EXCEPT ![p] = buffer' \cap Polled]
    /\ sent' = [sent EXCEPT ![p] = {}]
    /\ pc' = [pc EXCEPT ![p] = "next"]
    /\ UNCHANGED <<keyVars, wireVars, seen, cur, batch, storeFailed, jwks, keyAge,
                   settled, delivered, unkeyed>>

\* Request or answer is lost: withRetry() sends it again, or poll() throws.
PollLost(p) ==
    /\ pc[p] = "posted"
    /\ buffer' \in {buffer, buffer \ sent[p]}
    /\ \/ UNCHANGED <<pc, sent>>
       \/ pc' = [pc EXCEPT ![p] = "idle"] /\ sent' = [sent EXCEPT ![p] = {}]
    /\ UNCHANGED <<keyVars, wireVars, seen, cur, todo, batch, storeFailed, jwks, keyAge,
                   settled, delivered, unkeyed>>

\* The next SET of the batch; one that is not even a SET is refused at once.
PollNext(p, s) ==
    /\ pc[p] = "next" /\ s \in todo[p]
    /\ todo' = [todo EXCEPT ![p] = @ \ {s}]
    /\ IF s \in Malformed
       THEN /\ batch' = [batch EXCEPT ![p]["refused"] = @ \cup {s}]
            /\ UNCHANGED <<pc, cur>>
       ELSE /\ cur' = [cur EXCEPT ![p] = s]
            /\ pc' = [pc EXCEPT ![p] = "lookup"]
            /\ UNCHANGED batch
    /\ UNCHANGED <<keyVars, wireVars, seen, storeFailed, sent, worldVars, delivered, unkeyed>>

\* Fault: a failure on the way makes the poll throw, whatever it accepted.
Throws_AnyFailure(p) == batch[p]["unjudged"] # {}

\* The first failure is thrown only if nothing was accepted.
Throws(p) == batch[p]["unjudged"] # {} /\ batch[p]["accepted"] = {}

\* The application processes the events, acknowledges them and the replayed
\* SETs, and reports the refused ones.
PollReturns(p) ==
    /\ pc[p] = "next" /\ todo[p] = {}
    /\ IF Throws(p) THEN UNCHANGED <<delivered, settled>>
       ELSE /\ delivered' = delivered \cup batch[p]["accepted"]
            /\ settled' = settled \cup batch[p]["accepted"]
                                  \cup batch[p]["replayed"] \cup batch[p]["refused"]
    /\ batch' = [batch EXCEPT ![p] = EmptyBatch]
    /\ storeFailed' = [storeFailed EXCEPT ![p] = FALSE]
    /\ pc' = [pc EXCEPT ![p] = "idle"]
    /\ UNCHANGED <<keyVars, wireVars, seen, cur, todo, sent, jwks, keyAge, buffer,
                   unkeyed>>

\* The transmitter pushes a SET it holds.
Push(w, s) ==
    /\ pc[w] = "idle" /\ s \in Pushed \cap buffer
    /\ IF s \in Malformed
       THEN /\ buffer' \in {buffer, buffer \ {s}}
            /\ UNCHANGED <<pc, cur>>
       ELSE /\ pc' = [pc EXCEPT ![w] = "lookup"]
            /\ cur' = [cur EXCEPT ![w] = s]
            /\ UNCHANGED buffer
    /\ UNCHANGED <<keyVars, wireVars, seen, pollVars, jwks, keyAge, settled, delivered,
                   unkeyed>>

-------------------------------------------------------------------------------

\* The transmitter rotates its keys.
Rotate(k) ==
    /\ \/ jwks[k] = "future" /\ jwks' = [jwks EXCEPT ![k] = "published"]
       \/ jwks[k] = "published" /\ jwks' = [jwks EXCEPT ![k] = "withdrawn"]
    /\ keyAge' = [keyAge EXCEPT ![k] = 0]
    /\ UNCHANGED <<keyVars, wireVars, seen, pc, cur, pollVars, buffer, settled, delivered,
                   unkeyed>>

Later(n, bound) == IF n < bound THEN n + 1 ELSE n

\* Time passes; an answer that has been on its way for Timeout is given up first.
Tick ==
    /\ \A a \in Actors : pc[a] \notin Runnable
    /\ answer # None => answerAge < Timeout
    /\ answerAge' = IF answer = None THEN 0 ELSE answerAge + 1
    /\ keysAge' = Later(keysAge, MaxAge)
    /\ sinceRefetch' = Later(sinceRefetch, Interval)
    /\ sinceFailed' = Later(sinceFailed, Interval)
    /\ keyAge' = [k \in Kids |->
                    IF jwks[k] = "future" THEN 0 ELSE Later(keyAge[k], Known)]
    /\ UNCHANGED <<keys, fetching, answer, seen, pc, cur, pollVars, jwks, buffer, settled,
                   delivered, unkeyed>>

Init ==
    /\ keys = None /\ keysAge = MaxAge /\ fetching = FALSE
    /\ sinceRefetch = Interval /\ sinceFailed = Interval
    /\ seen = {}
    /\ pc = [a \in Actors |-> "idle"]
    /\ cur = [a \in Actors |-> None]
    /\ todo = [p \in Pollers |-> {}]
    /\ batch = [p \in Pollers |-> EmptyBatch]
    /\ storeFailed = [a \in Actors |-> FALSE]
    /\ sent = [p \in Pollers |-> {}]
    /\ jwks \in [Kids -> {"future", "published"}]
    /\ keyAge = [k \in Kids |-> IF jwks[k] = "future" THEN 0 ELSE Known]
    /\ answer = None /\ answerAge = 0
    /\ buffer = Sets /\ settled = {}
    /\ delivered = {} /\ unkeyed = {}

Verifies(a) == Lookup(a) \/ Filled(a) \/ Refetched(a) \/ StoreAnswers(a) \/ StoreFails(a)
Polls(p) == \/ PollCall(p) \/ PollAnswered(p) \/ PollLost(p) \/ PollReturns(p)
            \/ \E s \in Polled : PollNext(p, s)

Next ==
    \/ \E a \in Actors : Verifies(a)
    \/ JwksAnswered \/ FetchLands \/ FetchFails
    \/ \E p \in Pollers : Polls(p)
    \/ \E w \in Pushers, s \in Pushed : Push(w, s)
    \/ \E k \in Kids : Rotate(k)
    \/ Tick

Spec == Init /\ [][Next]_vars

-------------------------------------------------------------------------------
(* Properties *)

\* Every variable holds values the code's types allow.
TypeOK ==
    /\ keys \in (SUBSET Kids) \cup {None}
    /\ keysAge \in 0 .. MaxAge
    /\ fetching \in BOOLEAN
    /\ {sinceRefetch, sinceFailed} \subseteq 0 .. Interval
    /\ seen \subseteq Sets
    /\ pc \in [Actors -> PC]
    /\ cur \in [Actors -> Sets \cup {None}]
    /\ \A a \in Actors : pc[a] \in Verifying => cur[a] \in Sets
    /\ todo \in [Pollers -> SUBSET Polled]
    /\ batch \in [Pollers -> [Verdicts -> SUBSET Sets]]
    /\ storeFailed \in [Actors -> BOOLEAN]
    /\ sent \in [Pollers -> SUBSET Sets]
    /\ jwks \in [Kids -> {"future", "published", "withdrawn"}]
    /\ keyAge \in [Kids -> 0 .. Known]
    /\ answer \in (SUBSET Kids) \cup {None}
    /\ answerAge \in 0 .. Timeout
    /\ {buffer, settled, delivered, unkeyed} \subseteq SUBSET Sets

InHand == UNION {batch[p]["accepted"] : p \in Pollers}

\* SETs that may be refused: what is wrong with them is their own, or their kid
\* was not among the keys held.
Refusable == Malformed \cup Invalid \cup unkeyed

\* Every SET leaves the transmitter for a reason the receiver knows of: what a
\* poll accepted or found replayed is recorded, what it refused could be refused,
\* and only that is ever settled.  With RecordedIsReturned it is inductive, and
\* the two of them imply NothingLost.
SettledIsJudged ==
    /\ \A p \in Pollers : /\ batch[p]["accepted"] \cup batch[p]["replayed"] \subseteq seen
                         /\ batch[p]["refused"] \subseteq Refusable
                         /\ sent[p] \subseteq settled
    /\ settled \cup (Sets \ buffer) \subseteq seen \cup Refusable

\* poll() never leaves a jti recorded that it does not return, and verifySet()
\* neither: what the store holds has reached the application or is in a batch
\* that will (section 34.2 P1).
RecordedIsReturned == seen \subseteq delivered \cup InHand

\* No outage of the store, at any point of a batch, and none of the keys while
\* the cache is empty or has expired, makes an event disappear: a SET leaves the
\* transmitter only if the application got it, is about to, or may be refused
\* (section 34.2 P1, P2, P4).  What the code does not promise is in "unkeyed": an
\* outage beside a cache that lacks the SET's kid.  That SET is refused for good,
\* and within an Interval of a refetch or of a failed fetch without asking; how
\* young its key then is, PublishedKeysAreKnown says.
NothingLost == Sets \ buffer \subseteq delivered \cup InHand \cup Refusable

\* The verification of a's SET ends in a refusal because its kid is unknown.
RefusedForKey(a) ==
    /\ pc[a] \in {"lookup", "filled", "refetched"}
    /\ keys # None /\ keys' # None /\ KeyOf[cur[a]] \notin keys
    /\ pc'[a] \in {"idle", "next"}

\* A key that has been in the JWKS for as long as the cache may live, and the
\* answer that fills it be on its way, is known: no SET it signed is refused for
\* its key, whatever fetches failed meanwhile.
PublishedKeysAreKnown ==
    [][\A a \in Actors : RefusedForKey(a) =>
          LET k == KeyOf[cur[a]]
          IN  k \in Kids => jwks[k] # "published" \/ keyAge[k] < Known]_vars

\* A key the transmitter has removed stops verifying within the life of the
\* cache and of the answer that fills it: the cache is dated when that lands
\* (section 34.2 P6).
RemovedKeysStop ==
    [][\A a \in Actors : pc[a] # "asking" /\ pc'[a] = "asking" =>
          LET k == KeyOf[cur[a]] IN jwks[k] = "published" \/ keyAge[k] < Known]_vars

-------------------------------------------------------------------------------
(* Why the last two hold *)

\* Where an answer under way and the transmitter disagree on a key, the key's
\* state is no older than the answer.
AnswerDated ==
    answer # None => \A k \in Kids :
        (k \in answer) # (jwks[k] = "published") => keyAge[k] <= answerAge

\* Where the cache and the transmitter do, it is no older than the cache and the
\* way its answer came.
CacheDated ==
    keys # None => \A k \in Kids :
        (k \in keys) # (jwks[k] = "published") => keyAge[k] <= keysAge + Timeout

\* Who goes on after a fetch sees what it brought, in the turn it was brought.
FetchFresh == \A a \in Actors : pc[a] \in {"filled", "refetched"} => keys # None /\ keysAge = 0

KeysInv == AnswerDated /\ CacheDated /\ FetchFresh
===============================================================================
