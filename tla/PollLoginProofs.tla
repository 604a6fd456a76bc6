---------------------------- MODULE PollLoginProofs ----------------------------
(***************************************************************************)
(* What the polled logins guarantee for every interval, lifetime, backoff, *)
(* Retry-After and lateness, and every number of pings: the budget of a    *)
(* device login outlasts its deadline, nothing is sent past the deadline   *)
(* or before the server's interval, and tokens that arrive are kept.       *)
(***************************************************************************)
EXTENDS PollLogin, TLAPS

PollTyped == TypeOK /\ AttemptLeft

LEMMA Constants ==
  /\ Loop \in Pollers /\ Pings \subseteq Pollers
  /\ DEFAULT_INTERVAL \in Nat /\ INCREMENT \in Nat /\ Late \in Nat
  /\ Intervals \subseteq Nat /\ ExpiresIn \subseteq Nat /\ RetryAfters \subseteq Nat
BY PollAssumption DEF Pollers

LEMMA AnswersTyped ==
  /\ Quiet \in Answers /\ Request \in Answers /\ Nothing \in Answers
  /\ \A is \in NonTerminal \cup Decisive \cup Failures \cup Bodies, n \in Nat :
        [is |-> is, n |-> n] \in Answers
  /\ \A is \in NonTerminal \cup Decisive \cup Failures \cup Bodies : Answer(is) \in Answers
BY DEF Quiet, Request, Nothing, Answer, Answers

LEMMA PollInitTyped == Init => PollTyped
<1> SUFFICES ASSUME Init PROVE PollTyped
  OBVIOUS
<1>1. AttemptLeft /\ wire \in [Pollers -> Answers]
  BY AnswersTyped DEF Init, AttemptLeft
<1>2. attempt \in [Pollers -> 0 .. MAX_ATTEMPTS] /\ timer \in [Pollers -> Nat]
  BY DEF Init, MAX_ATTEMPTS
<1>3. pc \in [Pollers -> {"idle", "asking", "initiated"} \cup Polling \cup Ended]
  BY DEF Init
<1>4. /\ kind \in {"none", "device", "ciba"} /\ pinged \in BOOLEAN /\ lost \in BOOLEAN
      /\ redeemer \in Pollers \cup {"none"}
  BY DEF Init
<1>5. /\ interval \in Nat /\ remaining \in Nat /\ left \in Int /\ owed \in Nat
      /\ paced \in Nat /\ due \in Nat
      /\ grant \in {"none", "pending", "approved", "denied", "redeemed"} /\ expiry \in Nat
  BY DEF Init
<1>6. ignored \in BOOLEAN
  BY DEF Init
<1> QED
  BY <1>1, <1>2, <1>3, <1>4, <1>5, <1>6 DEF PollTyped, TypeOK

\* The top of the polling loop keeps the types.
LEMMA ScheduleTyped ==
  ASSUME PollTyped, NEW itv \in Nat, NEW ra \in Nat, owed' \in Nat, Schedule(itv, ra)
  PROVE  /\ pc' \in [Pollers -> {"idle", "asking", "initiated"} \cup Polling \cup Ended]
         /\ timer' \in [Pollers -> Nat]
         /\ interval' \in Nat /\ remaining' \in Nat /\ paced' \in Nat
         /\ pc'[Loop] # "retrying" /\ \A p \in Pings : pc'[p] = pc[p]
<1> DEFINE wait == Greatest(itv, ra)
<1>1. wait \in Nat
  BY DEF Greatest
<1>2. remaining' = Ticked(wait) /\ remaining' \in Nat
  BY <1>1 DEF Schedule, Ticked, PollTyped, TypeOK
<1>3. interval' \in Nat /\ paced' \in Nat
  BY DEF Schedule
<1>4. /\ pc' \in [Pollers -> {"idle", "asking", "initiated"} \cup Polling \cup Ended]
      /\ timer' \in [Pollers -> Nat]
      /\ pc'[Loop] # "retrying" /\ \A p \in Pings : pc'[p] = pc[p]
  <2> HIDE DEF wait
  <2>1. CASE pc' = [pc EXCEPT ![Loop] = "expired"] /\ UNCHANGED timer
    BY <2>1, PollAssumption, Constants DEF PollTyped, TypeOK, Ended
  <2>2. CASE /\ pc' = [pc EXCEPT ![Loop] = "sleeping"]
             /\ timer' = [timer EXCEPT ![Loop] = wait + Late]
    BY <2>2, <1>1, PollAssumption, Constants DEF PollTyped, TypeOK, Polling, Waiting
  <2> QED
    BY <2>1, <2>2 DEF Schedule, wait
<1> QED
  BY <1>2, <1>3, <1>4

\* A step that asks for the grant keeps the types.
LEMMA AskingTyped ==
  ASSUME PollTyped, \/ DeviceLogin \/ (\E r \in CibaRequests : CibaInitiate(r))
                    \/ ServerAuthorizes \/ NotInitiated \/ UserCodeRefused \/ UserDecides
                    \/ (\E i \in Intervals : Initiated(i))
  PROVE  PollTyped'
<1> USE DEF PollTyped, wishVars, loopVars, serverVars
<1>1. CASE DeviceLogin
  BY <1>1, Constants, AnswersTyped DEF DeviceLogin, TypeOK, AttemptLeft, Ended
<1>2. CASE \E r \in CibaRequests : CibaInitiate(r)
  BY <1>2, Constants, AnswersTyped DEF CibaInitiate, CibaRequests, TypeOK, AttemptLeft, Ended
<1>3. CASE ServerAuthorizes
  BY <1>3, Constants, AnswersTyped
  DEF ServerAuthorizes, TypeOK, AttemptLeft, Bodies, Decisive
<1>4. CASE NotInitiated \/ UserCodeRefused
  BY <1>4, Constants, AnswersTyped DEF NotInitiated, UserCodeRefused, TypeOK, AttemptLeft, Ended
<1>5. CASE UserDecides
  BY <1>5 DEF UserDecides, TypeOK, AttemptLeft
<1>6. ASSUME NEW i \in Intervals, Initiated(i) PROVE PollTyped'
  <2>1. wire[Loop].n \in Nat
    BY Constants DEF TypeOK, Answers
  <2>2. interval' \in Nat /\ owed' \in Nat
    BY <1>6, Constants DEF Initiated
  <2> QED
    BY <1>6, <2>1, <2>2, Constants, AnswersTyped DEF Initiated, TypeOK, AttemptLeft
<1> QED
  BY <1>1, <1>2, <1>3, <1>4, <1>5, <1>6

\* A step of the polling loop, or of time, keeps the types.
LEMMA LoopTyped ==
  ASSUME PollTyped, LoopStarts \/ Continues \/ Tick
  PROVE  PollTyped'
<1> USE DEF PollTyped, wishVars, loopVars, serverVars
<1>1. CASE LoopStarts
  <2>1. /\ owed' \in Nat /\ due' \in Nat /\ ignored' \in BOOLEAN
        /\ Schedule(interval, 0)
    BY <1>1 DEF LoopStarts, TypeOK
  <2>2. interval \in Nat
    BY DEF TypeOK
  <2> QED
    BY <1>1, <2>1, <2>2, ScheduleTyped, Constants DEF LoopStarts, TypeOK, AttemptLeft, Pollers
<1>2. CASE Continues
  <2> DEFINE itv == IF wire[Loop].is = "slow_down" THEN Raised(interval) ELSE interval
             ra == IF Heeded(wire[Loop]) THEN wire[Loop].n ELSE 0
  <2>1. itv \in Nat /\ ra \in Nat /\ owed' \in Nat /\ due' \in Nat /\ ignored' \in BOOLEAN
    BY <1>2, Constants DEF Continues, TypeOK, Answers, Raised
  <2>2. Schedule(itv, ra)
    BY <1>2 DEF Continues
  <2> HIDE DEF itv, ra
  <2>3. /\ pc' \in [Pollers -> {"idle", "asking", "initiated"} \cup Polling \cup Ended]
        /\ timer' \in [Pollers -> Nat]
        /\ interval' \in Nat /\ remaining' \in Nat /\ paced' \in Nat
        /\ pc'[Loop] # "retrying" /\ \A p \in Pings : pc'[p] = pc[p]
    BY <2>1, <2>2, ScheduleTyped
  <2>4. wire' \in [Pollers -> Answers] /\ UNCHANGED <<kind, pinged, attempt, left, serverVars, lost>>
    BY <1>2, AnswersTyped, Constants DEF Continues, TypeOK
  <2> QED
    BY <2>1, <2>3, <2>4, Constants DEF TypeOK, AttemptLeft, Pollers
<1>3. CASE Tick
  <2>1. timer' \in [Pollers -> Nat] /\ left' \in Int /\ expiry' \in Nat
        /\ paced' \in Nat /\ due' \in Nat
    BY <1>3, Constants DEF Tick, TypeOK, Down
  <2> QED
    BY <1>3, <2>1 DEF Tick, TypeOK, AttemptLeft
<1> QED
  BY <1>1, <1>2, <1>3

\* A delay before the next attempt is a number, and no shorter than Retry-After.
LEMMA DelayFits ==
  ASSUME NEW n, NEW a \in Answers, NEW d \in delayMs(n, a)
  PROVE  d \in Nat /\ a.n \in Nat /\ a.n <= d
<1>1. PICK j \in 0 .. backoffMs(n) : d = Greatest(j, a.n)
  BY DEF delayMs
<1>2. j \in Nat /\ a.n \in Nat
  BY DEF Answers
<1> QED
  BY <1>1, <1>2 DEF Greatest

\* A step of one poll, of a ping, or of the server keeps the types.
LEMMA PollerTyped ==
  ASSUME PollTyped, NEW p \in Pollers,
         \/ Wakes(p) \/ ServerAnswers(p) \/ Lost(p) \/ Succeeds(p) \/ Fails(p) \/ Retries(p)
         \/ (\E d \in Deliveries : Pinged(p, d))
  PROVE  PollTyped'
<1> USE DEF PollTyped, wishVars, loopVars, serverVars
<1>1. CASE Wakes(p)
  <2>1. attempt'[p] \in 0 .. MAX_ATTEMPTS /\ attempt' = [attempt EXCEPT ![p] = attempt'[p]]
    BY <1>1 DEF Wakes, TypeOK, AttemptLeft, MAX_ATTEMPTS, Waiting
  <2> QED
    BY <1>1, <2>1, AnswersTyped DEF Wakes, TypeOK, AttemptLeft, Polling, Waiting
<1>2. CASE ServerAnswers(p)
  <2>1. \E a \in Answers : wire' = [wire EXCEPT ![p] = a]
    BY <1>2, AnswersTyped, Constants
    DEF ServerAnswers, Reply, NonTerminal, Decisive, Failures, Bodies
  <2>2. /\ grant' \in {"none", "pending", "approved", "denied", "redeemed"}
        /\ redeemer' \in Pollers \cup {"none"}
    BY <1>2 DEF ServerAnswers, TypeOK
  <2>3. UNCHANGED <<kind, pinged, pc, attempt, timer, loopVars, expiry, lost>>
    BY <1>2 DEF ServerAnswers
  <2> QED
    BY <2>1, <2>2, <2>3 DEF TypeOK, AttemptLeft
<1>3. CASE Lost(p)
  BY <1>3, AnswersTyped DEF Lost, TypeOK, AttemptLeft
<1>4. CASE Succeeds(p)
  BY <1>4, AnswersTyped DEF Succeeds, TypeOK, AttemptLeft, Ended
<1>5. CASE Fails(p)
  <2>1. \E out \in Decisive \cup {"failed"} : pc' = [pc EXCEPT ![p] = out]
    BY <1>5 DEF Fails
  <2>2. wire' = [wire EXCEPT ![p] = Quiet]
        /\ UNCHANGED <<kind, pinged, attempt, timer, loopVars, serverVars, lost>>
    BY <1>5 DEF Fails
  <2> QED
    BY <2>1, <2>2, AnswersTyped DEF TypeOK, AttemptLeft, Ended, Decisive
<1>6. CASE Retries(p)
  <2>1. PICK delay \in delayMs(attempt[p], wire[p]) :
           \/ /\ Admits(p, delay)
              /\ pc' = [pc EXCEPT ![p] = "retrying"]
              /\ timer' = [timer EXCEPT ![p] = delay + Late]
           \/ /\ ~Admits(p, delay)
              /\ pc' = [pc EXCEPT ![p] = "expired"]
              /\ UNCHANGED timer
    BY <1>6 DEF Retries
  <2>2. wire[p] \in Answers
    BY DEF TypeOK
  <2>3. delay \in Nat /\ wire[p].n \in Nat
    BY <2>2, DelayFits
  <2>4. timer' \in [Pollers -> Nat] /\ due' \in Nat
    BY <1>6, <2>1, <2>3, Constants DEF Retries, TypeOK
  <2>7. ignored' \in BOOLEAN
    BY <1>6 DEF Retries, TypeOK
  <2>5. /\ pc' \in [Pollers -> {"idle", "asking", "initiated"} \cup Polling \cup Ended]
        /\ \A q \in Pollers \ {p} : pc'[q] = pc[q]
    BY <2>1 DEF TypeOK, Polling, Waiting, Ended
  <2>6. /\ wire' \in [Pollers -> Answers] /\ attempt[p] < MAX_ATTEMPTS
        /\ UNCHANGED <<kind, pinged, attempt, interval, remaining, left, owed, paced,
                       serverVars, lost>>
    BY <1>6, AnswersTyped DEF Retries, TypeOK
  <2> QED
    BY <2>4, <2>5, <2>6, <2>7 DEF TypeOK, AttemptLeft
<1>7. CASE \E d \in Deliveries : Pinged(p, d)
  BY <1>7, AnswersTyped DEF Pinged, TypeOK, AttemptLeft, MAX_ATTEMPTS, Polling, Ended
<1> QED
  BY <1>1, <1>2, <1>3, <1>4, <1>5, <1>6, <1>7

\* Every variable of a polled login keeps its type, and no poll is tried more than
\* MAX_ATTEMPTS times (withRetry).
THEOREM PollTypeCorrect == Spec => []PollTyped
<1>1. PollTyped /\ [Next]_vars => PollTyped'
  <2> SUFFICES ASSUME PollTyped, [Next]_vars PROVE PollTyped'
    OBVIOUS
  <2>1. CASE UNCHANGED vars
    BY <2>1 DEF vars, PollTyped, TypeOK, AttemptLeft
  <2> QED
    BY <2>1, AskingTyped, LoopTyped, PollerTyped DEF Next
<1> QED
  BY <1>1, PollInitTyped, PTL DEF Spec

-------------------------------------------------------------------------------
(* The times of the loop *)

TimesFit == IntervalIsOwed /\ SleepFits /\ BudgetStartsEven /\ BudgetNeverBinds

\* A wait that is scheduled ends before the deadline and after the server's wish,
\* and is counted once.
LEMMA ScheduleFits ==
  ASSUME PollTyped, NEW itv \in Nat, NEW ra \in Nat, owed' = itv, Schedule(itv, ra),
         due' \in Nat, due' <= ra \/ ignored',
         UNCHANGED <<kind, left>>, kind = "device" => remaining >= left
  PROVE  TimesFit'
<1> DEFINE wait == Greatest(itv, ra)
<1>1. wait \in Nat /\ remaining \in Nat /\ left \in Int /\ Late \in Nat
  BY Constants DEF Greatest, PollTyped, TypeOK
<1>2. paced' = itv /\ itv <= wait /\ (due' <= wait \/ ignored')
  BY DEF Schedule, Greatest
<1>3. remaining' = Ticked(wait) /\ interval' = itv
  BY DEF Schedule
<1> HIDE DEF wait
<1>4. CASE Expires(wait) /\ pc' = [pc EXCEPT ![Loop] = "expired"]
  <2>1. pc'[Loop] = "expired"
    BY <1>4, Constants DEF PollTyped, TypeOK
  <2> QED
    BY <2>1, <1>3 DEF TimesFit, IntervalIsOwed, SleepFits, BudgetStartsEven, BudgetNeverBinds,
                      Polling, Waiting
<1>5. CASE /\ ~Expires(wait)
           /\ pc' = [pc EXCEPT ![Loop] = "sleeping"]
           /\ timer' = [timer EXCEPT ![Loop] = wait + Late]
  <2>1. pc'[Loop] = "sleeping" /\ timer'[Loop] = wait + Late
    BY <1>5, Constants DEF PollTyped, TypeOK
  <2>2. wait < left /\ (kind = "device" => wait < remaining)
    BY <1>1, <1>5 DEF Expires
  <2>3. Rest' = wait
    BY <2>1, <1>1 DEF Rest, Greatest
  <2>4. timer'[Loop] < left' + Late
    BY <2>1, <2>2, <1>1
  <2>5. kind = "device" => remaining' + Rest' >= left'
    BY <2>2, <2>3, <1>1, <1>3 DEF Ticked
  <2>6. SleepFits'
    BY <2>1, <2>3, <2>4, <1>2 DEF SleepFits
  <2> QED
    BY <2>1, <2>5, <2>6, <1>3 DEF TimesFit, IntervalIsOwed, BudgetStartsEven, BudgetNeverBinds
<1> QED
  BY <1>4, <1>5 DEF Schedule, wait

\* So does every turn of the loop.
LEMMA LoopFits ==
  ASSUME PollTyped, TimesFit, LoopStarts \/ Continues
  PROVE  TimesFit'
<1> USE DEF PollTyped
<1>1. CASE LoopStarts
  <2>1. /\ owed' = interval /\ interval \in Nat /\ Schedule(interval, 0)
        /\ UNCHANGED <<kind, left>> /\ due' = 0
    BY <1>1 DEF LoopStarts, TimesFit, IntervalIsOwed, TypeOK, SleepFits
  <2>2. remaining >= left
    BY <1>1 DEF LoopStarts, TimesFit, BudgetStartsEven
  <2> QED
    BY <2>1, <2>2, ScheduleFits
<1>2. CASE Continues
  <2> DEFINE itv == IF wire[Loop].is = "slow_down" THEN Raised(interval) ELSE interval
             ra == IF Heeded(wire[Loop]) THEN wire[Loop].n ELSE 0
  <2>4. wire[Loop].n \in Nat /\ due' = wire[Loop].n
        /\ ignored' = (wire[Loop].n > 0 /\ ~Heeded(wire[Loop]))
    BY <1>2, Constants DEF Continues, TypeOK, Answers
  <2>5. itv \in Nat /\ owed' = itv
    BY <1>2, Constants DEF Continues, TypeOK, Raised, TimesFit, IntervalIsOwed
  <2>6. ra \in Nat /\ due' \in Nat /\ (due' <= ra \/ ignored')
    <3>1. CASE Heeded(wire[Loop])
      BY <2>4, <3>1
    <3>2. CASE ~Heeded(wire[Loop]) /\ wire[Loop].n > 0
      <4>1. ignored' /\ ra = 0
        BY <2>4, <3>2, Zenon
      <4> QED
        BY <2>4, <4>1
    <3>3. CASE ~Heeded(wire[Loop]) /\ ~(wire[Loop].n > 0)
      BY <2>4, <3>3
    <3> QED
      BY <3>1, <3>2, <3>3
  <2>2. Schedule(itv, ra) /\ UNCHANGED <<kind, left>> /\ pc[Loop] = "polling"
    BY <1>2 DEF Continues, Arrived
  <2>3. kind = "device" => remaining >= left
    BY <2>2 DEF TimesFit, BudgetNeverBinds, Polling, TypeOK
  <2> HIDE DEF itv, ra
  <2> QED
    BY <2>5, <2>6, <2>2, <2>3, ScheduleFits
<1> QED
  BY <1>1, <1>2

\* Time runs for the sleep, the deadline and the server alike.
LEMMA TickFits ==
  ASSUME PollTyped, TimesFit, Tick
  PROVE  TimesFit'
<1> USE DEF PollTyped
<1>1. /\ timer[Loop] \in Nat /\ left \in Int /\ remaining \in Nat /\ Late \in Nat
      /\ paced \in Nat /\ due \in Nat /\ paced' = Down(paced) /\ due' = Down(due)
      /\ timer'[Loop] = Down(timer[Loop])
      /\ left' = (IF left > - Late - 1 THEN left - 1 ELSE left)
      /\ UNCHANGED <<kind, pc, interval, remaining, owed, ignored>>
  BY Constants DEF Tick, TypeOK
<1>2. CASE pc[Loop] \in Waiting
  <2>1. timer[Loop] > 0 /\ timer[Loop] < left + Late
        /\ paced <= Rest /\ (due <= Rest \/ ignored)
    BY <1>2, Constants DEF Tick, TimesFit, SleepFits
  <2>2. timer'[Loop] = timer[Loop] - 1 /\ left' = left - 1
    BY <1>1, <2>1 DEF Down
  <2>3. /\ paced' <= Rest' /\ (due' <= Rest' \/ ignored')
        /\ Rest <= Rest' + 1 /\ Rest \in Nat /\ Rest' \in Nat
    BY <1>1, <2>1, <2>2 DEF Rest, Greatest, Down
  <2>4. SleepFits'
    BY <1>1, <1>2, <2>1, <2>2, <2>3 DEF SleepFits, Waiting
  <2>5. BudgetNeverBinds'
    <3> SUFFICES ASSUME kind = "device", pc[Loop] \in Polling
                 PROVE  remaining + (IF pc[Loop] = "sleeping" THEN Rest' ELSE 0) >= left'
      BY <1>1 DEF BudgetNeverBinds
    <3>1. remaining + (IF pc[Loop] = "sleeping" THEN Rest ELSE 0) >= left
      BY DEF TimesFit, BudgetNeverBinds
    <3>2. remaining \in Nat /\ left \in Int /\ left' = left - 1
      BY <1>1, <2>2
    <3>3. CASE pc[Loop] = "sleeping"
      <4>1. remaining + Rest >= left
        BY <3>1, <3>3
      <4>2. remaining + Rest' >= left'
        <5>1. ASSUME NEW a \in Nat, NEW b \in Nat, a <= b + 1, remaining + a >= left
              PROVE  remaining + b >= left - 1
          BY <3>2, <5>1
        <5> QED
          BY <2>3, <3>2, <4>1, <5>1
      <4> QED
        BY <3>3, <4>2
    <3>4. CASE pc[Loop] # "sleeping"
      BY <3>1, <3>2, <3>4
    <3> QED
      BY <3>3, <3>4
  <2>6. IntervalIsOwed' /\ BudgetStartsEven'
    BY <1>1, <1>2 DEF TimesFit, IntervalIsOwed, BudgetStartsEven, Waiting
  <2> QED
    BY <2>4, <2>5, <2>6 DEF TimesFit
<1>3. CASE pc[Loop] \notin Waiting
  <2>1. left' <= left
    BY <1>1
  <2>2. BudgetNeverBinds' /\ BudgetStartsEven'
    BY <1>1, <1>3, <2>1 DEF TimesFit, BudgetNeverBinds, BudgetStartsEven, Waiting
  <2> QED
    BY <1>1, <1>3, <2>2 DEF TimesFit, IntervalIsOwed, SleepFits, Down
<1> QED
  BY <1>2, <1>3

\* Before the loop starts nothing is timed but the grant.
LEMMA AskingFits ==
  ASSUME PollTyped, TimesFit,
         \/ DeviceLogin \/ (\E r \in CibaRequests : CibaInitiate(r))
         \/ ServerAuthorizes \/ NotInitiated \/ UserCodeRefused \/ UserDecides
         \/ (\E i \in Intervals : Initiated(i))
  PROVE  TimesFit'
<1> USE DEF PollTyped, wishVars, loopVars, serverVars, Polling, Waiting
<1>1. CASE \/ DeviceLogin \/ (\E r \in CibaRequests : CibaInitiate(r))
           \/ NotInitiated \/ UserCodeRefused
  <2>1. pc'[Loop] \in {"asking", "failed"} /\ UNCHANGED loopVars
    BY <1>1, Constants
    DEF DeviceLogin, CibaInitiate, NotInitiated, UserCodeRefused, TypeOK
  <2> QED
    BY <2>1 DEF TimesFit, IntervalIsOwed, SleepFits, BudgetStartsEven, BudgetNeverBinds
<1>2. CASE ServerAuthorizes \/ UserDecides
  <2>1. UNCHANGED <<kind, pc, timer, loopVars>>
    BY <1>2 DEF ServerAuthorizes, UserDecides
  <2> QED
    BY <2>1 DEF TimesFit, IntervalIsOwed, SleepFits, BudgetStartsEven, BudgetNeverBinds, Rest
<1>3. ASSUME NEW i \in Intervals, Initiated(i) PROVE TimesFit'
  <2>1. pc'[Loop] = "initiated" /\ remaining' = left' /\ owed' = interval' /\ left' \in Int
    BY <1>3, Constants DEF Initiated, TypeOK, Answers
  <2> QED
    BY <2>1 DEF TimesFit, IntervalIsOwed, SleepFits, BudgetStartsEven, BudgetNeverBinds
<1> QED
  BY <1>1, <1>2, <1>3

\* A retry inside a poll fits before the deadline, and a ping's poll is not timed.
LEMMA PollerFits ==
  ASSUME PollTyped, TimesFit, NEW p \in Pollers,
         \/ Wakes(p) \/ ServerAnswers(p) \/ Lost(p) \/ Succeeds(p) \/ Fails(p) \/ Retries(p)
         \/ (\E d \in Deliveries : Pinged(p, d))
  PROVE  TimesFit'
<1> USE DEF PollTyped, wishVars, loopVars, serverVars
<1>1. CASE ServerAnswers(p) \/ Lost(p)
  <2>1. UNCHANGED <<kind, pc, timer, loopVars>>
    BY <1>1 DEF ServerAnswers, Lost
  <2> QED
    BY <2>1 DEF TimesFit, IntervalIsOwed, SleepFits, BudgetStartsEven, BudgetNeverBinds, Rest
<1>2. CASE /\ p # Loop
           /\ \/ Wakes(p) \/ Succeeds(p) \/ Fails(p) \/ Retries(p)
              \/ (\E d \in Deliveries : Pinged(p, d))
  <2>1. /\ pc'[Loop] = pc[Loop] /\ timer'[Loop] = timer[Loop]
        /\ UNCHANGED <<kind, loopVars>>
    BY <1>2, Constants DEF Wakes, Succeeds, Fails, Retries, Pinged, TypeOK
  <2>2. Rest' = Rest /\ UNCHANGED <<kind, interval, remaining, left, owed, wishVars>>
    BY <2>1 DEF Rest
  <2> QED
    BY <2>1, <2>2 DEF TimesFit, IntervalIsOwed, SleepFits, BudgetStartsEven, BudgetNeverBinds
<1>3. CASE p = Loop /\ (Succeeds(p) \/ Fails(p))
  <2>1. pc'[Loop] \in Ended /\ UNCHANGED loopVars
    BY <1>3, Constants DEF Succeeds, Fails, TypeOK, Ended, Decisive
  <2>2. /\ pc'[Loop] \notin Polling \cup Waiting
        /\ pc'[Loop] # "initiated" /\ pc'[Loop] # "polling"
    BY <2>1 DEF Ended, Decisive, Polling, Waiting
  <2> QED
    BY <2>1, <2>2 DEF TimesFit, IntervalIsOwed, SleepFits, BudgetStartsEven, BudgetNeverBinds
<1>4. CASE p = Loop /\ Wakes(p)
  <2>1. /\ pc[Loop] \in Waiting /\ pc'[Loop] = "polling" /\ timer[Loop] <= Late
        /\ UNCHANGED <<kind, loopVars>>
    BY <1>4, Constants DEF Wakes, TypeOK
  <2>2. Rest = 0 /\ remaining \in Nat
    BY <2>1, Constants DEF Rest, Greatest, TypeOK
  <2>3. BudgetNeverBinds'
    BY <2>1, <2>2 DEF TimesFit, BudgetNeverBinds, Polling
  <2>4. paced' = 0
    BY <2>1, <2>2, Constants DEF TimesFit, SleepFits, TypeOK
  <2> QED
    BY <2>1, <2>3, <2>4 DEF TimesFit, IntervalIsOwed, SleepFits, BudgetStartsEven, Waiting
<1>5. CASE p = Loop /\ Retries(p)
  <2>1. PICK delay \in delayMs(attempt[Loop], wire[Loop]) :
           \/ /\ Admits(Loop, delay)
              /\ pc' = [pc EXCEPT ![Loop] = "retrying"]
              /\ timer' = [timer EXCEPT ![Loop] = delay + Late]
           \/ /\ ~Admits(Loop, delay)
              /\ pc' = [pc EXCEPT ![Loop] = "expired"]
              /\ UNCHANGED timer
    BY <1>5 DEF Retries
  <2>2. /\ pc[Loop] = "polling" /\ due' = wire[Loop].n /\ paced' = 0
        /\ UNCHANGED <<kind, interval, remaining, left, owed>>
    BY <1>5 DEF Retries, Arrived, TimesFit, SleepFits
  <2>3. wire[Loop] \in Answers /\ left \in Int /\ Late \in Nat
    BY Constants DEF TypeOK
  <2>4. delay \in Nat /\ wire[Loop].n \in Nat /\ wire[Loop].n <= delay
    BY <2>3, DelayFits
  <2>5. CASE pc'[Loop] = "retrying" /\ delay < left /\ timer'[Loop] = delay + Late
    <3>1. Rest' = delay
      BY <2>3, <2>4, <2>5 DEF Rest, Greatest
    <3>2. SleepFits'
      BY <2>2, <2>3, <2>4, <2>5, <3>1 DEF SleepFits
    <3>3. BudgetNeverBinds'
      BY <2>2, <2>5 DEF TimesFit, BudgetNeverBinds, Polling
    <3> QED
      BY <2>2, <2>5, <3>2, <3>3 DEF TimesFit, IntervalIsOwed, BudgetStartsEven
  <2>6. CASE pc'[Loop] = "expired"
    BY <2>2, <2>6
    DEF TimesFit, IntervalIsOwed, SleepFits, BudgetStartsEven, BudgetNeverBinds, Polling, Waiting
  <2> QED
    BY <2>1, <2>5, <2>6, Constants DEF Admits, TypeOK
<1>6. CASE p = Loop /\ (\E d \in Deliveries : Pinged(p, d))
  BY <1>6, PollAssumption DEF Pinged
<1> QED
  BY <1>1, <1>2, <1>3, <1>4, <1>5, <1>6

-------------------------------------------------------------------------------
(* The tokens *)

\* Only a poller whose own request took them has tokens on its wire, and it keeps
\* them: no answer with a body is asked for again.
LEMMA TokensStep ==
  ASSUME PollTyped, TokensKept, [Next]_vars
  PROVE  TokensKept'
<1> USE DEF PollTyped, wishVars, loopVars, serverVars
<1> SUFFICES ASSUME NEW q \in Pollers, redeemer' = q, ~lost'
             PROVE  \/ pc'[q] = "polling" /\ wire'[q].is \in {"tokens", "garbled"}
                    \/ pc'[q] \in {"got", "hollow", "failed"}
  BY DEF TokensKept
<1>1. CASE redeemer # q
  <2>1. PICK p \in Pollers : ServerAnswers(p)
    BY <1>1
    DEF Next, vars, DeviceLogin, CibaInitiate, ServerAuthorizes, Initiated, NotInitiated,
        LoopStarts, UserCodeRefused, Continues, Schedule, Wakes, Lost, Succeeds, Fails, Retries,
        Pinged, UserDecides, Tick
  <2>2. q = p /\ pc'[p] = "polling" /\ \E b \in {"tokens", "garbled"} : Reply(p, Answer(b))
    BY <1>1, <2>1 DEF ServerAnswers
  <2> QED
    BY <2>2 DEF Reply, Answer, TypeOK
<1>2. CASE redeemer = q
  <2>1. ~lost
    BY DEF Next, vars, DeviceLogin, CibaInitiate, ServerAuthorizes, Initiated, NotInitiated,
           LoopStarts, UserCodeRefused, Continues, Schedule, Wakes, ServerAnswers, Lost, Succeeds,
           Fails, Retries, Pinged, UserDecides, Tick
  <2>2. \/ pc[q] = "polling" /\ wire[q].is \in {"tokens", "garbled"}
        \/ pc[q] \in {"got", "hollow", "failed"}
    BY <1>2, <2>1 DEF TokensKept
  <2>3. wire[q].is \in {"tokens", "garbled"} => wire[q] # Request
    BY DEF Request, Answer
  <2>4. CASE \/ DeviceLogin \/ (\E r \in CibaRequests : CibaInitiate(r))
             \/ ServerAuthorizes \/ (\E i \in Intervals : Initiated(i)) \/ NotInitiated
             \/ UserCodeRefused \/ LoopStarts
    <3>1. /\ pc[Loop] \in {"idle", "asking", "initiated"}
          /\ \A p \in Pings : pc'[p] = pc[p] /\ wire'[p] = wire[p]
      BY <2>4, PollAssumption, Constants
      DEF DeviceLogin, CibaInitiate, ServerAuthorizes, Initiated, NotInitiated, UserCodeRefused,
          LoopStarts, Schedule, TypeOK
    <3> QED
      BY <2>2, <3>1 DEF Pollers
  <2>5. CASE Continues
    <3>1. wire[Loop].is \notin {"tokens", "garbled"} /\ pc[Loop] = "polling"
      BY <2>5 DEF Continues, Arrived, PollsAgain, Retryable, NonTerminal
    <3>2. \A p \in Pings : pc'[p] = pc[p] /\ wire'[p] = wire[p]
      BY <2>5, PollAssumption, Constants DEF Continues, Schedule, TypeOK
    <3> QED
      BY <2>2, <3>1, <3>2 DEF Pollers
  <2>6. CASE UserDecides \/ Tick \/ UNCHANGED vars
    BY <2>2, <2>6 DEF UserDecides, Tick, vars
  <2>7. ASSUME NEW p \in Pollers,
               \/ Wakes(p) \/ ServerAnswers(p) \/ Lost(p)
               \/ Succeeds(p) \/ Fails(p) \/ Retries(p)
               \/ (\E d \in Deliveries : Pinged(p, d))
        PROVE  \/ pc'[q] = "polling" /\ wire'[q].is \in {"tokens", "garbled"}
               \/ pc'[q] \in {"got", "hollow", "failed"}
    <3>1. CASE p # q
      <4>1. pc'[q] = pc[q] /\ wire'[q] = wire[q]
        BY <2>7, <3>1
        DEF Wakes, ServerAnswers, Reply, Lost, Succeeds, Fails, Retries, Pinged, TypeOK
      <4> QED
        BY <2>2, <4>1
    <3>2. CASE p = q /\ (Wakes(p) \/ (\E d \in Deliveries : Pinged(p, d)))
      BY <2>2, <3>2 DEF Wakes, Pinged, Waiting
    <3>3. CASE p = q /\ (ServerAnswers(p) \/ Retries(p))
      BY <2>2, <2>3, <3>3 DEF ServerAnswers, Retries, Arrived, Retryable
    <3>4. CASE p = q /\ Lost(p)
      BY <1>2, <2>2, <3>4 DEF Lost
    <3>5. CASE p = q /\ Succeeds(p)
      BY <3>5 DEF Succeeds, TypeOK
    <3>6. CASE p = q /\ Fails(p)
      <4>1. pc[q] = "polling" /\ wire[q].is = "garbled"
        BY <2>2, <3>6 DEF Fails, Arrived
      <4>2. wire[q].is \notin Decisive
        BY <4>1 DEF Decisive
      <4> QED
        BY <3>6, <4>2 DEF Fails, TypeOK
    <3> QED
      BY <2>7, <3>1, <3>2, <3>3, <3>4, <3>5, <3>6
  <2> QED
    BY <2>4, <2>5, <2>6, <2>7 DEF Next
<1> QED
  BY <1>1, <1>2

\* A poll is asleep only when its last answer has been taken off the wire.
LEMMA QuietStep ==
  ASSUME PollTyped, SleepIsQuiet, [Next]_vars
  PROVE  SleepIsQuiet'
<1> USE DEF PollTyped
<1>1. CASE \/ DeviceLogin \/ (\E r \in CibaRequests : CibaInitiate(r))
           \/ ServerAuthorizes \/ (\E i \in Intervals : Initiated(i)) \/ NotInitiated
           \/ UserCodeRefused
  BY <1>1, Constants
  DEF DeviceLogin, CibaInitiate, ServerAuthorizes, Initiated, NotInitiated, UserCodeRefused,
      SleepIsQuiet, Waiting, TypeOK
<1>2. CASE LoopStarts
  BY <1>2 DEF LoopStarts, SleepIsQuiet
<1>3. CASE Continues
  BY <1>3, Constants DEF Continues, SleepIsQuiet, TypeOK
<1>4. CASE UserDecides \/ Tick \/ UNCHANGED vars
  BY <1>4 DEF UserDecides, Tick, vars, SleepIsQuiet
<1>5. ASSUME NEW p \in Pollers,
             \/ Wakes(p) \/ ServerAnswers(p) \/ Lost(p) \/ Succeeds(p) \/ Fails(p) \/ Retries(p)
             \/ (\E d \in Deliveries : Pinged(p, d))
      PROVE  SleepIsQuiet'
  <2>1. CASE p # Loop
    <3>1. pc'[Loop] = pc[Loop] /\ wire'[Loop] = wire[Loop]
      BY <1>5, <2>1, Constants
      DEF Wakes, ServerAnswers, Reply, Lost, Succeeds, Fails, Retries, Pinged, TypeOK
    <3> QED
      BY <3>1 DEF SleepIsQuiet
  <2>2. CASE p = Loop /\ (Wakes(p) \/ ServerAnswers(p) \/ Lost(p) \/ Succeeds(p) \/ Fails(p))
    BY <2>2, Constants
    DEF Wakes, ServerAnswers, Lost, Succeeds, Fails, SleepIsQuiet, Waiting, Decisive, TypeOK
  <2>3. CASE p = Loop /\ Retries(p)
    BY <2>3, Constants DEF Retries, SleepIsQuiet, TypeOK
  <2>4. CASE p = Loop /\ (\E d \in Deliveries : Pinged(p, d))
    BY <2>4, PollAssumption DEF Pinged
  <2> QED
    BY <1>5, <2>1, <2>2, <2>3, <2>4
<1> QED
  BY <1>1, <1>2, <1>3, <1>4, <1>5 DEF Next

LEMMA PollInvInit == Init => PollInv
<1> SUFFICES ASSUME Init PROVE PollInv
  OBVIOUS
<1>1. TokensKept
  BY PollAssumption DEF Init, TokensKept
<1>2. pc[Loop] = "idle"
  BY Constants DEF Init
<1>3. IntervalIsOwed
  BY DEF Init, IntervalIsOwed
<1> QED
  BY <1>1, <1>2, <1>3
  DEF PollInv, SleepFits, SleepIsQuiet, BudgetStartsEven, BudgetNeverBinds, Polling, Waiting

\* The inductive invariant of the polled logins holds of every execution.
THEOREM PollCorrect == Spec => []PollInv
<1>1. PollTyped /\ PollInv /\ [Next]_vars => PollInv'
  <2> SUFFICES ASSUME PollTyped, PollInv, [Next]_vars PROVE PollInv'
    OBVIOUS
  <2>1. TimesFit /\ TokensKept
    BY DEF PollInv, TimesFit
  <2>2. TimesFit'
    <3>1. CASE UNCHANGED vars
      BY <2>1, <3>1
      DEF vars, TimesFit, IntervalIsOwed, SleepFits, BudgetStartsEven, BudgetNeverBinds, Rest
    <3> QED
      BY <2>1, <3>1, AskingFits, LoopFits, TickFits, PollerFits DEF Next
  <2> QED
    BY <2>1, <2>2, TokensStep, QuietStep DEF PollInv, TimesFit
<1> QED
  BY <1>1, PollInvInit, PollTypeCorrect, PTL DEF Spec

\* The budget of a device login never runs out before its deadline, whatever
\* slow_down and Retry-After add to its waits (PollSchedule.tick).
THEOREM BudgetOutlasts == Spec => []BudgetNeverBinds
<1>1. PollInv => BudgetNeverBinds
  BY DEF PollInv
<1> QED
  BY <1>1, PollCorrect, PTL

\* Tokens that arrive are the end of their poll: nothing that follows a 200 is asked
\* for again, by the loop or by a ping's poll (cibaPoll, deviceLogin).
THEOREM TokensStay == Spec => []RedeemedIsKept
<1>1. TokensKept => RedeemedIsKept
  <2> SUFFICES ASSUME TokensKept, NEW p \in Pollers, redeemer = p, pc[p] \in Ended, ~lost
               PROVE  pc[p] \in {"got", "hollow", "failed"}
    BY DEF RedeemedIsKept
  <2>1. pc[p] # "polling"
    BY DEF Ended, Decisive
  <2> QED
    BY <2>1 DEF TokensKept
<1> QED
  BY <1>1, PollCorrect, PTL DEF PollInv

\* A request of the loop is the end of a sleep: nobody else sends one.
LEMMA OnlyWakesSends ==
  ASSUME PollTyped, [Next]_vars, pc[Loop] \in Waiting, wire'[Loop] = Request
  PROVE  wire[Loop] = Request \/ Wakes(Loop)
<1> USE DEF PollTyped
<1>1. ASSUME NEW p \in Pollers,
             \/ Wakes(p) \/ ServerAnswers(p) \/ Lost(p) \/ Succeeds(p) \/ Fails(p) \/ Retries(p)
             \/ (\E d \in Deliveries : Pinged(p, d))
      PROVE  wire[Loop] = Request \/ Wakes(Loop)
  <2>1. CASE p = Loop
    <3>1. pc[Loop] \notin {"polling", "idle"}
      BY DEF Waiting
    <3>2. CASE Lost(p)
      BY <2>1, <3>2, Constants DEF Lost, TypeOK, Nothing, Request, Answer
    <3> QED
      BY <1>1, <2>1, <3>1, <3>2 DEF ServerAnswers, Succeeds, Fails, Retries, Arrived, Pinged
  <2>2. CASE p # Loop
    BY <1>1, <2>2, Constants
    DEF Wakes, ServerAnswers, Reply, Lost, Succeeds, Fails, Retries, Pinged, TypeOK
  <2> QED
    BY <2>1, <2>2
<1>2. CASE \/ DeviceLogin \/ (\E r \in CibaRequests : CibaInitiate(r))
           \/ ServerAuthorizes \/ (\E i \in Intervals : Initiated(i)) \/ NotInitiated
           \/ UserCodeRefused \/ LoopStarts \/ Continues
  BY <1>2
  DEF DeviceLogin, CibaInitiate, ServerAuthorizes, Initiated, NotInitiated, UserCodeRefused,
      LoopStarts, Continues, Arrived, Waiting
<1>3. CASE UserDecides \/ Tick \/ UNCHANGED vars
  BY <1>3 DEF UserDecides, Tick, vars
<1> QED
  BY <1>1, <1>2, <1>3 DEF Next

\* A request leaves a sleep before the deadline and after the server's wish.
LEMMA SentInTime ==
  ASSUME PollTyped, PollInv, [Next]_vars, pc[Loop] \in Waiting, wire'[Loop] = Request
  PROVE  left > - Late /\ paced = 0 /\ (due = 0 \/ ignored)
<1>1. Wakes(Loop)
  BY OnlyWakesSends DEF PollInv, SleepIsQuiet, Quiet, Request, Answer
<1>2. timer[Loop] <= Late /\ timer[Loop] < left + Late
      /\ paced <= Rest /\ (due <= Rest \/ ignored)
  BY <1>1 DEF PollInv, SleepFits, Wakes
<1>3. timer[Loop] \in Nat /\ left \in Int /\ paced \in Nat /\ due \in Nat /\ Late \in Nat
  BY Constants DEF PollTyped, TypeOK
<1> QED
  BY <1>2, <1>3 DEF Rest, Greatest

\* Neither a poll nor a retry inside it goes out at or past the deadline, but for the
\* lateness of its timer (deviceLogin, cibaAwait, deadlineBoundedRetry).
THEOREM DeadlineKept == Spec => NothingSentPastDeadline
<1>1. PollTyped /\ PollInv /\ [Next]_vars =>
        [pc[Loop] \in Waiting /\ wire'[Loop] = Request => left > - Late]_vars
  BY SentInTime
<1> QED
  BY <1>1, PollTypeCorrect, PollCorrect, PTL DEF Spec, NothingSentPastDeadline

\* Neither goes out before the interval has passed, nor before the Retry-After of
\* the last answer, but where the loop drops that one (PollSchedule, delayMs).
THEOREM WelcomeKept == Spec => RequestsAreWelcome
<1>1. PollTyped /\ PollInv /\ [Next]_vars =>
        [pc[Loop] \in Waiting /\ wire'[Loop] = Request =>
            paced = 0 /\ (due = 0 \/ ignored)]_vars
  BY SentInTime
<1> QED
  BY <1>1, PollTypeCorrect, PollCorrect, PTL DEF Spec, RequestsAreWelcome
===============================================================================
