------------------------------ MODULE AmqpReceiver ------------------------------
(***************************************************************************)
(* The two receivers of signed AMQP messages: consume() (amqp/consumer.ts) *)
(* and reactorServe() (amqp/reactor/runtime.ts), which share the nonce     *)
(* store and the shape of their loop.  A delivery is verified, its nonce   *)
(* looked up and recorded, the application's handler runs, and the         *)
(* delivery is acked or nacked; a reactor in intercept mode also publishes *)
(* the handler's decision, runs the handler under the event's timeout_ms,  *)
(* and drains what is in flight when it is told to stop.                   *)
(*                                                                         *)
(* An action is one turn of the event loop.  A member of Attempts is one   *)
(* delivery; a message that is requeued, redelivered after a lost          *)
(* connection, or published twice by its producer is delivered again as    *)
(* another attempt.  Time is relative: Tick ages the messages, the nonces  *)
(* and the deadlines.  The broker and the handler are outside the          *)
(* repository; they appear as what they may do.                            *)
(***************************************************************************)
EXTENDS Integers

CONSTANTS Attempts,   \* deliveries, each made at most once
          Events,     \* signed messages, each with a nonce of its own
          Forged,     \* those that do not verify: bad MAC, old key_version, no JSON
          Foreign,    \* those signed for another tenant
          Logins,     \* login.post_auth events
          Replyless,  \* deliveries without a reply_to property
          Copies,     \* how often the producer publishes each message
          Skew,       \* skewMs
          Timeout,    \* timeout_ms
          None

ASSUME ReceiverAssumption ==
    /\ Forged \cup Foreign \cup Logins \subseteq Events
    /\ Replyless \subseteq Attempts
    /\ None \notin Attempts \cup Events
    /\ {Copies, Skew, Timeout} \subseteq Nat

VARIABLES role,   \* "consume", or reactorServe's mode: "listen" or "intercept"
          conn,   \* is the connection, and with it the channel, open?
          serve,  \* where the receiving function is
          snap,   \* the dispatches Promise.allSettled was given
          queued, \* copies of each message waiting at the broker
          of,     \* message each attempt delivers
          st,     \* what has become of each attempt
          left,   \* time left to each attempt's deadline
          age,    \* now - issued_at of each message, no further than Skew + 1
          seen,   \* time each nonce's entry in the store has left, 0 for none
          \* history, read by properties only:
          answer,    \* what each attempt's handler answered
          reply,     \* decision published for each attempt
          unhandled, \* has a promise rejected that nobody awaits?
          first      \* age of each message when this store recorded its nonce

linkVars == <<role, conn, serve, snap>>
timeVars == <<left, age, seen>>
histVars == <<answer, reply, unhandled, first>>
vars     == <<linkVars, queued, of, st, timeVars, histVars>>

Reactor   == role # "consume"

\* A handler answers with something to publish (allow, deny, a patch), with
\* require_mfa, with nothing (abstain, an empty patch), or throws.
Decisions == {"decision", "stepUp", "nothing"}
Answers   == Decisions \cup {"throw"}

\* Dispatches that have not settled: the handler runs, on a channel that is
\* still open or on one that has closed under it.
InFlight == {d \in Attempts : st[d] \in {"running", "stranded"}}

Fresh(e) == age[e] \in -Skew .. Skew

-------------------------------------------------------------------------------
(* A delivery arrives *)

\* Verification, freshness, then the nonce.  The store is written only by a
\* message that passed the first two, and before the tenant is compared.
Refused(e)   == e \in Forged \/ ~Fresh(e) \/ seen[e] > 0
Misrouted(e) == Reactor /\ e \in Foreign

\* Fault: the nonce is kept for one skew only.
checkAndRecord_OneSkew(e) ==
    /\ seen' = [seen EXCEPT ![e] = Skew]
    /\ first' = [first EXCEPT ![e] = age[e]]

\* InMemoryNonceStore.checkAndRecord() of a nonce that is not there.
checkAndRecord(e) ==
    /\ seen' = [seen EXCEPT ![e] = 2 * Skew]
    /\ first' = [first EXCEPT ![e] = age[e]]

\* The broker hands a queued message to the consumer.
Push(d, e) ==
    /\ conn = "open" /\ st[d] = "free" /\ queued[e] > 0
    /\ queued' = [queued EXCEPT ![e] = @ - 1]
    /\ of' = [of EXCEPT ![d] = e]

\* Nacked without requeue.
Reject(d, e) ==
    /\ Push(d, e)
    /\ serve = "running"
    /\ Refused(e) \/ Misrouted(e)
    /\ IF Refused(e) THEN UNCHANGED <<seen, first>> ELSE checkAndRecord(e)
    /\ st' = [st EXCEPT ![d] = "dead"]
    /\ UNCHANGED <<linkVars, left, age, answer, reply, unhandled>>

\* Fault: the handler is started although the receiver is stopping.
Start_WhileStopping(d, e) ==
    /\ Push(d, e)
    /\ serve \in {"running", "cancelling", "draining"}
    /\ ~Refused(e) /\ ~Misrouted(e)
    /\ checkAndRecord(e)
    /\ left' = [left EXCEPT ![d] = Timeout]
    /\ st' = [st EXCEPT ![d] = "running"]
    /\ UNCHANGED <<linkVars, age, answer, reply, unhandled>>

\* The handler is called.
Start(d, e) ==
    /\ Push(d, e)
    /\ serve = "running"
    /\ ~Refused(e) /\ ~Misrouted(e)
    /\ checkAndRecord(e)
    /\ left' = [left EXCEPT ![d] = Timeout]
    /\ st' = [st EXCEPT ![d] = "running"]
    /\ UNCHANGED <<linkVars, age, answer, reply, unhandled>>

\* A delivery that crosses the cancellation on the wire is given back.
GiveBack(d, e) ==
    /\ conn = "open" /\ serve = "cancelling"
    /\ st[d] = "free" /\ queued[e] > 0
    /\ of' = [of EXCEPT ![d] = e]
    /\ st' = [st EXCEPT ![d] = "requeued"]
    /\ UNCHANGED <<linkVars, queued, timeVars, histVars>>

-------------------------------------------------------------------------------
(* A handler settles, or its window closes *)

\* Fault: the clock is not read again before the reply is published.
Publishable_Late(d, a) ==
    /\ role = "intercept" /\ d \notin Replyless
    /\ a = "decision" \/ (a = "stepUp" /\ of[d] \in Logins)

\* publishAnswer(): what is sent is the handler's decision or nothing.
Publishable(d, a) ==
    /\ role = "intercept" /\ d \notin Replyless
    /\ a = "decision" \/ (a = "stepUp" /\ of[d] \in Logins)
    /\ left[d] > 0

\* Every operation on a closed channel throws, and the dispatch with it.
Throws(d) ==
    /\ st' = [st EXCEPT ![d] = "threw"]
    /\ unhandled' = (unhandled \/ d \notin snap)
    /\ UNCHANGED reply

\* consume() acks a handler that returned and drops the message of one that
\* threw; a reactor acks both.
Settles(d, a) ==
    /\ st[d] \in {"running", "stranded"}
    /\ answer' = [answer EXCEPT ![d] = a]
    /\ IF st[d] = "stranded" THEN Throws(d)
       ELSE /\ st' = [st EXCEPT ![d] =
                        IF role = "consume" /\ a = "throw" THEN "dead" ELSE "acked"]
            /\ reply' = IF Publishable(d, a) THEN [reply EXCEPT ![d] = a] ELSE reply
            /\ UNCHANGED unhandled
    /\ UNCHANGED <<linkVars, queued, of, timeVars, first>>

\* Fault: the deadline applies to the reply only, not to the wait for the handler.
TimerFires_Never(d) == FALSE /\ UNCHANGED vars

\* withDeadline()'s timer: the dispatch goes on as if the handler had thrown;
\* what the handler answers later is not looked at.
TimerFires(d) ==
    /\ Reactor /\ st[d] \in {"running", "stranded"} /\ left[d] = 0
    /\ IF st[d] = "stranded" THEN Throws(d)
       ELSE st' = [st EXCEPT ![d] = "acked"] /\ UNCHANGED <<reply, unhandled>>
    /\ UNCHANGED <<linkVars, queued, of, timeVars, answer, first>>

-------------------------------------------------------------------------------
(* Shutdown, and the loss of the connection *)

\* config.signal aborts; channel.cancel() is sent.
Abort ==
    /\ Reactor /\ serve = "running"
    /\ serve' = "cancelling"
    /\ UNCHANGED <<role, conn, snap, queued, of, st, timeVars, histVars>>

CancelOk ==
    /\ serve = "cancelling"
    /\ serve' = "draining"
    /\ snap' = InFlight
    /\ UNCHANGED <<role, conn, queued, of, st, timeVars, histVars>>

\* Everything in the snapshot has settled: channel and connection are closed.
Drained ==
    /\ serve = "draining" /\ snap \cap InFlight = {}
    /\ serve' = "returned"
    /\ conn' = "closed"
    /\ UNCHANGED <<role, snap, queued, of, st, timeVars, histVars>>

\* Fault: reactorServe() awaits its signal only and does not notice.
ConnectionLost_Unnoticed ==
    /\ conn = "open"
    /\ conn' = "closed"
    /\ st' = [d \in Attempts |-> IF st[d] = "running" THEN "stranded" ELSE st[d]]
    /\ queued' = [e \in Events |->
          queued[e] + (IF \E d \in Attempts : st[d] = "running" /\ of[d] = e THEN 1 ELSE 0)]
    /\ UNCHANGED <<role, serve, snap, of, timeVars, histVars>>

\* The broker requeues what was not acked.  A reactor starts to drain, its
\* channel.cancel() failing; consume() has returned long ago.
ConnectionLost ==
    /\ conn = "open"
    /\ conn' = "closed"
    /\ st' = [d \in Attempts |-> IF st[d] = "running" THEN "stranded" ELSE st[d]]
    /\ queued' = [e \in Events |->
          queued[e] + (IF \E d \in Attempts : st[d] = "running" /\ of[d] = e THEN 1 ELSE 0)]
    /\ serve' = IF Reactor THEN "draining" ELSE "returned"
    /\ snap' = IF Reactor /\ serve # "draining" THEN InFlight ELSE snap
    /\ UNCHANGED <<role, of, timeVars, histVars>>

\* The application calls the function again, with a store of its own that it
\* has kept or with none, which makes a new one.
Restart ==
    /\ serve = "returned"
    /\ serve' = "running" /\ conn' = "open" /\ snap' = {}
    /\ \/ UNCHANGED <<seen, first>>
       \/ /\ seen' = [e \in Events |-> 0]
          /\ first' = [e \in Events |-> None]
    /\ UNCHANGED <<role, queued, of, st, left, age, answer, reply, unhandled>>

-------------------------------------------------------------------------------

\* Fault: an entry whose time is up is not dropped.
Less_Kept(n) == n - 1

\* Time left after a step of the clock; an entry whose time is up is pruned.
Less(n) == IF n = 0 THEN 0 ELSE n - 1

Tick ==
    /\ age' = [e \in Events |-> IF age[e] > Skew THEN age[e] ELSE age[e] + 1]
    /\ seen' = [e \in Events |-> Less(seen[e])]
    /\ left' = [d \in Attempts |-> Less(left[d])]
    /\ UNCHANGED <<linkVars, queued, of, st, histVars>>

Init ==
    /\ role \in {"consume", "listen", "intercept"}
    /\ conn = "open" /\ serve = "running" /\ snap = {}
    /\ queued = [e \in Events |-> Copies]
    /\ of = [d \in Attempts |-> None]
    /\ st = [d \in Attempts |-> "free"]
    /\ left = [d \in Attempts |-> 0]
    /\ age \in [Events -> -(Skew + 1) .. Skew + 1]
    /\ seen = [e \in Events |-> 0]
    /\ answer = [d \in Attempts |-> None]
    /\ reply = [d \in Attempts |-> None]
    /\ unhandled = FALSE
    /\ first = [e \in Events |-> None]

Receive == \E d \in Attempts, e \in Events : Reject(d, e) \/ Start(d, e) \/ GiveBack(d, e)
Handle  == \E d \in Attempts : \E a \in Answers : Settles(d, a)
Expire  == \E d \in Attempts : TimerFires(d)
Stop    == CancelOk \/ Drained

Next == Receive \/ Handle \/ Expire \/ Stop \/ Abort \/ ConnectionLost \/ Restart \/ Tick

Spec == Init /\ [][Next]_vars

\* Timers fire and the broker answers a cancellation, or the connection is
\* lost; handlers are the application's and may hang.
FairSpec == Spec /\ WF_vars(Tick) /\ WF_vars(Expire) /\ WF_vars(Stop)

-------------------------------------------------------------------------------
(* Properties *)

\* Every variable holds values the code's types allow.
TypeOK ==
    /\ role \in {"consume", "listen", "intercept"}
    /\ conn \in {"open", "closed"}
    /\ serve \in {"running", "cancelling", "draining", "returned"}
    /\ snap \subseteq Attempts
    /\ queued \in [Events -> Nat]
    /\ of \in [Attempts -> Events \cup {None}]
    /\ st \in [Attempts -> {"free", "running", "stranded", "acked", "dead", "requeued", "threw"}]
    /\ left \in [Attempts -> 0 .. Timeout]
    /\ age \in [Events -> Int]
    /\ seen \in [Events -> 0 .. 2 * Skew]
    /\ answer \in [Attempts -> Answers \cup {None}]
    /\ reply \in [Attempts -> Decisions \cup {None}]
    /\ unhandled \in BOOLEAN
    /\ first \in [Events -> Int \cup {None}]

\* What is published is what the handler of that very delivery decided, before
\* its window closed, by an interceptor: neither a crash nor a late handler is
\* ever answered for (runtime.ts rules 2 and 4, publishAnswer).
AnswersAreTheHandlers ==
    [][\A d \in Attempts :
          reply'[d] # reply[d] => /\ role = "intercept" /\ st[d] = "running"
                                  /\ left[d] > 0
                                  /\ reply'[d] = answer'[d]]_vars

\* While one store is in use, a message reaches a handler a second time only at
\* the last instant of its window, having been accepted at the first instant:
\* the entry's lifetime, twice the skew, is exactly as long as the window
\* (checkReplayProtection, checkAndRecord).
ReplayedOnlyAtTheEdge ==
    [][\A d \in Attempts, e \in Events :
          (st[d] = "free" /\ st'[d] = "running" /\ of'[d] = e /\ first[e] # None)
              => first[e] = -Skew /\ age[e] = Skew]_vars

\* What makes the two properties below inductive: a reactor whose connection is
\* gone is draining or has returned, and a drain awaits all that is in flight.
DrainInv ==
    /\ Reactor /\ conn = "closed" => serve \in {"draining", "returned"}
    /\ Reactor /\ serve = "returned" => conn = "closed" /\ InFlight = {}
    /\ Reactor /\ serve = "draining" => InFlight \subseteq snap
    /\ Reactor /\ conn = "open" => \A d \in Attempts : st[d] # "stranded"
    /\ Reactor => ~unhandled

\* reactorServe() returns with nothing half-processed: every dispatch it began
\* has settled, those too that began after the signal was looked at
\* (section 18: shutdown drains rather than truncates).
ReturnsDrained == Reactor /\ serve = "returned" => InFlight = {}

\* A connection that closes under a running handler makes its dispatch reject;
\* in a reactor somebody always awaits that promise by then (reactorServe's
\* allSettled), so that it cannot bring the process down.
RejectionsAwaited == Reactor => ~unhandled

\* Told to stop, a reactor returns even if its handlers never do.
ShutdownEnds == serve = "cancelling" ~> serve = "returned"

\* What makes ReplayedOnlyAtTheEdge inductive: as long as a message is fresh its
\* nonce is in the store, but for the one instant its window is longer.
EntryOutlasts ==
    \A e \in Events : first[e] # None =>
        /\ first[e] \in -Skew .. Skew
        /\ age[e] <= Skew => seen[e] >= 2 * Skew - (age[e] - first[e])
===============================================================================
