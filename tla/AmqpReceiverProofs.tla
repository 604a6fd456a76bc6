-------------------------- MODULE AmqpReceiverProofs --------------------------
(***************************************************************************)
(* What the AMQP receivers guarantee for every set of deliveries, messages *)
(* and every skew and timeout: the types, that a reactor's shutdown drains  *)
(* what is in flight and awaits every promise that may reject, that only    *)
(* the handlers answer, and how far a message can be replayed.              *)
(***************************************************************************)
EXTENDS AmqpReceiver, TLAPS

\* A receiver starts in a typed state.
LEMMA InitTyped == Init => TypeOK
<1> SUFFICES ASSUME Init PROVE TypeOK
  OBVIOUS
<1>1. age \in [Events -> Int]
  <2>1. -(Skew + 1) .. Skew + 1 \subseteq Int
    BY ReceiverAssumption
  <2> QED
    BY <2>1 DEF Init
<1>2. queued \in [Events -> Nat] /\ seen \in [Events -> 0 .. 2 * Skew]
      /\ left \in [Attempts -> 0 .. Timeout]
  BY ReceiverAssumption DEF Init
<1> QED
  BY <1>1, <1>2 DEF Init, TypeOK

\* Recording a nonce keeps the store typed.
LEMMA RecordTyped ==
  ASSUME TypeOK, NEW e \in Events, checkAndRecord(e)
  PROVE  seen' \in [Events -> 0 .. 2 * Skew] /\ first' \in [Events -> Int \cup {None}]
BY ReceiverAssumption, SMT DEF TypeOK, checkAndRecord

\* A message that arrives leaves the state typed.
LEMMA ReceiveTyped ==
  ASSUME TypeOK, NEW d \in Attempts, NEW e \in Events,
         Reject(d, e) \/ Start(d, e) \/ GiveBack(d, e)
  PROVE  TypeOK'
<1>1. CASE Reject(d, e)
  <2>1. seen' \in [Events -> 0 .. 2 * Skew] /\ first' \in [Events -> Int \cup {None}]
    BY <1>1, RecordTyped DEF Reject, TypeOK
  <2>2. queued' \in [Events -> Nat] /\ of' \in [Attempts -> Events \cup {None}]
    BY <1>1 DEF Reject, Push, TypeOK
  <2> QED
    BY <1>1, <2>1, <2>2 DEF Reject, TypeOK, linkVars
<1>2. CASE Start(d, e)
  <2>1. seen' \in [Events -> 0 .. 2 * Skew] /\ first' \in [Events -> Int \cup {None}]
    BY <1>2, RecordTyped DEF Start
  <2>2. queued' \in [Events -> Nat] /\ of' \in [Attempts -> Events \cup {None}]
    BY <1>2 DEF Start, Push, TypeOK
  <2>3. left' \in [Attempts -> 0 .. Timeout]
    BY <1>2, ReceiverAssumption DEF Start, TypeOK
  <2> QED
    BY <1>2, <2>1, <2>2, <2>3 DEF Start, TypeOK, linkVars
<1>3. CASE GiveBack(d, e)
  BY <1>3, SMT DEF GiveBack, TypeOK, linkVars, timeVars, histVars
<1> QED
  BY <1>1, <1>2, <1>3

\* A handler that settles, or whose time is up, leaves the state typed.
LEMMA SettleTyped ==
  ASSUME TypeOK, NEW d \in Attempts,
         TimerFires(d) \/ \E a \in Answers : Settles(d, a)
  PROVE  TypeOK'
<1>1. CASE TimerFires(d)
  <2>1. unhandled' \in BOOLEAN
    BY <1>1 DEF TimerFires, Throws, TypeOK
  <2>2. st' \in [Attempts -> {"free", "running", "stranded", "acked", "dead",
                              "requeued", "threw"}]
    BY <1>1 DEF TimerFires, Throws, TypeOK
  <2> QED
    BY <1>1, <2>1, <2>2 DEF TimerFires, Throws, TypeOK, linkVars, timeVars
<1>2. ASSUME NEW a \in Answers, Settles(d, a) PROVE TypeOK'
  <2>1. Publishable(d, a) => a \in Decisions
    BY DEF Publishable, Decisions
  <2>2. unhandled' \in BOOLEAN
    BY <1>2 DEF Settles, Throws, TypeOK
  <2>3. st' \in [Attempts -> {"free", "running", "stranded", "acked", "dead",
                              "requeued", "threw"}]
    BY <1>2 DEF Settles, Throws, TypeOK
  <2>4. reply' \in [Attempts -> Decisions \cup {None}]
    BY <1>2, <2>1 DEF Settles, Throws, TypeOK
  <2>5. answer' \in [Attempts -> Answers \cup {None}]
    BY <1>2 DEF Settles, TypeOK
  <2> QED
    BY <1>2, <2>2, <2>3, <2>4, <2>5 DEF Settles, TypeOK, linkVars, timeVars
<1> QED
  BY <1>1, <1>2

\* Shutdown, a lost connection, a restart and the clock leave the state typed.
LEMMA OtherTyped ==
  ASSUME TypeOK, Stop \/ Abort \/ ConnectionLost \/ Restart \/ Tick
  PROVE  TypeOK'
<1>1. CASE Stop
  BY <1>1 DEF Stop, CancelOk, Drained, TypeOK, InFlight, timeVars, histVars
<1>2. CASE Abort
  BY <1>2 DEF Abort, TypeOK, timeVars, histVars
<1>3. CASE ConnectionLost
  <2>1. queued' \in [Events -> Nat]
    BY <1>3, SMT DEF ConnectionLost, TypeOK
  <2>2. st' \in [Attempts -> {"free", "running", "stranded", "acked", "dead",
                              "requeued", "threw"}]
    BY <1>3, SMT DEF ConnectionLost, TypeOK
  <2> QED
    BY <1>3, <2>1, <2>2 DEF ConnectionLost, TypeOK, InFlight, timeVars, histVars
<1>4. CASE Restart
  BY <1>4, ReceiverAssumption, SMT DEF Restart, TypeOK
<1>5. CASE Tick
  <2>1. age' \in [Events -> Int]
    BY <1>5, SMT DEF Tick, TypeOK
  <2>2. seen' \in [Events -> 0 .. 2 * Skew] /\ left' \in [Attempts -> 0 .. Timeout]
    BY <1>5, ReceiverAssumption, SMT DEF Tick, TypeOK, Less
  <2> QED
    BY <1>5, <2>1, <2>2 DEF Tick, TypeOK, linkVars, histVars
<1> QED
  BY <1>1, <1>2, <1>3, <1>4, <1>5

\* Every variable of the receivers keeps its type, whatever the broker, the
\* handlers and the network do.
THEOREM ReceiverTyped == Spec => []TypeOK
<1>1. TypeOK /\ [Next]_vars => TypeOK'
  <2> SUFFICES ASSUME TypeOK, [Next]_vars PROVE TypeOK'
    OBVIOUS
  <2>1. CASE Receive
    BY <2>1, ReceiveTyped DEF Receive
  <2>2. CASE Handle \/ Expire
    BY <2>2, SettleTyped DEF Handle, Expire
  <2>3. CASE Stop \/ Abort \/ ConnectionLost \/ Restart \/ Tick
    BY <2>3, OtherTyped
  <2>4. CASE UNCHANGED vars
    BY <2>4 DEF vars, linkVars, timeVars, histVars, TypeOK
  <2> QED
    BY <2>1, <2>2, <2>3, <2>4 DEF Next
<1> QED
  BY <1>1, InitTyped, PTL DEF Spec

-------------------------------------------------------------------------------
(* Shutdown *)

\* DrainInv is inductive, given the types.
LEMMA DrainStep == TypeOK /\ DrainInv /\ [Next]_vars => DrainInv'
<1> SUFFICES ASSUME TypeOK, DrainInv, [Next]_vars PROVE DrainInv'
  OBVIOUS
<1> USE DEF DrainInv, InFlight, Reactor
<1>1. ASSUME NEW d \in Attempts, NEW e \in Events,
             Reject(d, e) \/ Start(d, e) \/ GiveBack(d, e)
      PROVE  DrainInv'
  <2>1. CASE Reject(d, e)
    BY <1>1, <2>1 DEF Reject, Push, linkVars, TypeOK
  <2>2. CASE Start(d, e)
    BY <1>1, <2>2 DEF Start, Push, linkVars, TypeOK
  <2>3. CASE GiveBack(d, e)
    BY <1>1, <2>3 DEF GiveBack, linkVars, histVars, TypeOK
  <2> QED
    BY <1>1, <2>1, <2>2, <2>3
<1>2. ASSUME NEW d \in Attempts, NEW a \in Answers, Settles(d, a) PROVE DrainInv'
  <2>1. CASE st[d] = "stranded"
    BY <1>2, <2>1 DEF Settles, Throws, linkVars, TypeOK
  <2>2. CASE st[d] = "running"
    BY <1>2, <2>2 DEF Settles, linkVars, TypeOK
  <2> QED
    BY <1>2, <2>1, <2>2 DEF Settles
<1>3. ASSUME NEW d \in Attempts, TimerFires(d) PROVE DrainInv'
  BY <1>3 DEF TimerFires, Throws, linkVars, TypeOK
<1>4. CASE CancelOk
  BY <1>4 DEF CancelOk, histVars
<1>5. CASE Drained
  BY <1>5 DEF Drained, histVars
<1>6. CASE Abort
  BY <1>6 DEF Abort, histVars
<1>7. CASE ConnectionLost
  <2>1. InFlight' = InFlight
    BY <1>7 DEF ConnectionLost, TypeOK
  <2> QED
    BY <1>7, <2>1 DEF ConnectionLost, histVars
<1>8. CASE Restart
  BY <1>8 DEF Restart, TypeOK
<1>9. CASE Tick
  BY <1>9 DEF Tick, linkVars, histVars
<1>10. CASE UNCHANGED vars
  BY <1>10 DEF vars, linkVars, histVars
<1> QED
  BY <1>1, <1>2, <1>3, <1>4, <1>5, <1>6, <1>7, <1>8, <1>9, <1>10
     DEF Next, Receive, Handle, Expire, Stop

\* The inductive invariant of a reactor's shutdown holds of every execution.
THEOREM DrainCorrect == Spec => []DrainInv
<1>1. Init => DrainInv
  BY DEF Init, DrainInv, InFlight
<1> QED
  BY <1>1, DrainStep, ReceiverTyped, PTL DEF Spec

\* A reactor never returns with a dispatch half-processed, however deliveries,
\* the signal and a lost connection cross.
THEOREM ShutdownDrains == Spec => []ReturnsDrained
<1>1. DrainInv => ReturnsDrained
  BY DEF DrainInv, ReturnsDrained
<1> QED
  BY <1>1, DrainCorrect, PTL

\* No dispatch of a reactor rejects without somebody awaiting it.
THEOREM NoUnhandledRejection == Spec => []RejectionsAwaited
<1>1. DrainInv => RejectionsAwaited
  BY DEF DrainInv, RejectionsAwaited
<1> QED
  BY <1>1, DrainCorrect, PTL

-------------------------------------------------------------------------------
(* Answers and replays *)

\* What a dispatch publishes is what its handler has just decided.
LEMMA SettleAnswers ==
  ASSUME TypeOK, NEW a \in Answers, NEW d \in Attempts, NEW k \in Attempts, Settles(k, a),
         reply'[d] # reply[d]
  PROVE  role = "intercept" /\ st[d] = "running" /\ left[d] > 0 /\ reply'[d] = answer'[d]
<1>1. st[k] = "running" /\ Publishable(k, a) /\ reply' = [reply EXCEPT ![k] = a]
  BY DEF Settles, Throws
<1>2. d = k /\ reply'[d] = a
  BY <1>1 DEF TypeOK
<1>3. answer'[d] = a
  BY <1>2 DEF Settles, TypeOK
<1> QED
  BY <1>1, <1>2, <1>3 DEF Publishable

\* Only the handler of a delivery is ever answered for, and only in time, however
\* handlers, deadlines and a lost connection race (publishAnswer).
THEOREM HandlersAnswer == Spec => AnswersAreTheHandlers
<1> DEFINE Theirs(d) == reply'[d] # reply[d] => /\ role = "intercept" /\ st[d] = "running"
                                                /\ left[d] > 0
                                                /\ reply'[d] = answer'[d]
<1>1. TypeOK /\ [Next]_vars => [\A d \in Attempts : Theirs(d)]_vars
  <2> SUFFICES ASSUME TypeOK, Next, NEW d \in Attempts, reply'[d] # reply[d] PROVE Theirs(d)
    OBVIOUS
  <2>1. PICK k \in Attempts, a \in Answers : Settles(k, a)
    BY DEF Next, Receive, Handle, Expire, Stop, Reject, Start, GiveBack, TimerFires, Throws,
           CancelOk, Drained, Abort, ConnectionLost, Restart, Tick, histVars
  <2> QED
    BY <2>1, SettleAnswers
<1> QED
  BY <1>1, ReceiverTyped, PTL DEF Spec, AnswersAreTheHandlers

\* A nonce that is recorded outlasts the window of its message.
LEMMA RecordOutlasts ==
  ASSUME TypeOK, EntryOutlasts, NEW e \in Events, Fresh(e), checkAndRecord(e), UNCHANGED age
  PROVE  EntryOutlasts'
<1> SUFFICES ASSUME NEW k \in Events, first'[k] # None
             PROVE  /\ first'[k] \in -Skew .. Skew
                    /\ age'[k] <= Skew => seen'[k] >= 2 * Skew - (age'[k] - first'[k])
  BY DEF EntryOutlasts
<1>1. CASE k = e
  <2>1. first'[k] = age[k] /\ seen'[k] = 2 * Skew /\ age[k] \in Int
    BY <1>1 DEF checkAndRecord, TypeOK
  <2>2. age[k] \in -Skew .. Skew
    BY <1>1 DEF Fresh
  <2> QED
    BY <2>1, <2>2, ReceiverAssumption
<1>2. CASE k # e
  BY <1>2 DEF checkAndRecord, TypeOK, EntryOutlasts
<1> QED
  BY <1>1, <1>2

LEMMA TickOutlasts ==
  ASSUME TypeOK, EntryOutlasts, Tick
  PROVE  EntryOutlasts'
<1> SUFFICES ASSUME NEW e \in Events, first'[e] # None
             PROVE  /\ first'[e] \in -Skew .. Skew
                    /\ age'[e] <= Skew => seen'[e] >= 2 * Skew - (age'[e] - first'[e])
  BY DEF EntryOutlasts
<1>1. /\ first'[e] = first[e] /\ first[e] \in -Skew .. Skew
      /\ age[e] <= Skew => seen[e] >= 2 * Skew - (age[e] - first[e])
  BY DEF Tick, histVars, EntryOutlasts
<1>2. age'[e] = (IF age[e] > Skew THEN age[e] ELSE age[e] + 1) /\ seen'[e] = Less(seen[e])
  BY DEF Tick
<1>3. age[e] \in Int /\ seen[e] \in Nat /\ Skew \in Nat /\ first[e] \in Int
  BY <1>1, ReceiverAssumption DEF TypeOK
<1> QED
  BY <1>1, <1>2, <1>3 DEF Less

\* The store remembers a message for as long as it is fresh.
LEMMA EntryStep == TypeOK /\ EntryOutlasts /\ [Next]_vars => EntryOutlasts'
<1> SUFFICES ASSUME TypeOK, EntryOutlasts, [Next]_vars PROVE EntryOutlasts'
  OBVIOUS
<1>1. CASE Receive
  <2>1. CASE UNCHANGED <<seen, first, age>>
    BY <2>1 DEF EntryOutlasts
  <2>2. ASSUME NEW d \in Attempts, NEW e \in Events, Reject(d, e) \/ Start(d, e), ~Refused(e)
        PROVE  EntryOutlasts'
    BY <2>2, RecordOutlasts DEF Reject, Start, Refused
  <2> QED
    BY <1>1, <2>1, <2>2 DEF Receive, Reject, Start, GiveBack, timeVars, histVars
<1>2. CASE Tick
  BY <1>2, TickOutlasts
<1>3. CASE Restart
  BY <1>3 DEF Restart, EntryOutlasts
<1>4. CASE Handle \/ Expire \/ Stop \/ Abort \/ ConnectionLost \/ UNCHANGED vars
  <2>1. UNCHANGED <<seen, first, age>>
    BY <1>4 DEF Handle, Expire, Stop, Settles, TimerFires, CancelOk, Drained, Abort,
                ConnectionLost, timeVars, histVars, vars
  <2> QED
    BY <2>1 DEF EntryOutlasts
<1> QED
  BY <1>1, <1>2, <1>3, <1>4 DEF Next

\* While one store is in use no message reaches a handler twice but at the last
\* instant of a window it entered at its first (checkReplayProtection).
THEOREM ReplaysEnd == Spec => ReplayedOnlyAtTheEdge
<1> DEFINE Edge == \A d \in Attempts, e \in Events :
               (st[d] = "free" /\ st'[d] = "running" /\ of'[d] = e /\ first[e] # None)
                   => first[e] = -Skew /\ age[e] = Skew
<1>1. Init => EntryOutlasts
  BY DEF Init, EntryOutlasts
<1>2. TypeOK /\ EntryOutlasts /\ [Next]_vars => [Edge]_vars
  <2> SUFFICES ASSUME TypeOK, EntryOutlasts, Next, NEW d \in Attempts, NEW e \in Events,
                      st[d] = "free", st'[d] = "running", of'[d] = e, first[e] # None
               PROVE  first[e] = -Skew /\ age[e] = Skew
    OBVIOUS
  <2>1. PICK k \in Attempts : \E c \in Events : Start(k, c)
    <3>1. ASSUME NEW k \in Attempts, NEW c \in Events, Reject(k, c) \/ GiveBack(k, c)
          PROVE  FALSE
      BY <3>1 DEF Reject, GiveBack, TypeOK
    <3>2. ~Handle /\ ~Expire /\ ~ConnectionLost
      BY DEF Handle, Expire, Settles, TimerFires, Throws, ConnectionLost, TypeOK
    <3>3. ~(Stop \/ Abort \/ Restart \/ Tick)
      BY DEF Stop, CancelOk, Drained, Abort, Restart, Tick
    <3> QED
      BY <3>1, <3>2, <3>3 DEF Next, Receive
  <2>2. PICK c \in Events : Start(k, c)
    BY <2>1
  <2>3. k = d /\ c = e
    BY <2>2 DEF Start, Push, TypeOK
  <2>4. Fresh(e) /\ ~(seen[e] > 0)
    BY <2>2, <2>3 DEF Start, Refused
  <2>5. /\ first[e] \in -Skew .. Skew /\ age[e] \in -Skew .. Skew
        /\ age[e] <= Skew => seen[e] >= 2 * Skew - (age[e] - first[e])
    BY <2>4 DEF EntryOutlasts, Fresh
  <2>6. seen[e] = 0 /\ Skew \in Nat
    BY <2>4, ReceiverAssumption DEF TypeOK
  <2> QED
    BY <2>5, <2>6
<1> QED
  BY <1>1, <1>2, EntryStep, ReceiverTyped, PTL DEF Spec, ReplayedOnlyAtTheEdge
===============================================================================
