--------------------------- MODULE SsfReceiverProofs ---------------------------
(***************************************************************************)
(* What the Shared Signals receiver guarantees for every set of poll       *)
(* loops, push endpoints, SETs and keys and every age limit: the types,    *)
(* that no event is lost or recorded without being returned, and how the   *)
(* cached key set follows the transmitter's.                               *)
(***************************************************************************)
EXTENDS SsfReceiver, TLAPS

(* TypeOK, in the parts the actions disturb together. *)

KeysTyped ==
    /\ keys \in (SUBSET Kids) \cup {None}
    /\ keysAge \in 0 .. MaxAge
    /\ fetching \in BOOLEAN
    /\ sinceRefetch \in 0 .. Interval /\ sinceFailed \in 0 .. Interval

WireTyped ==
    /\ answer \in (SUBSET Kids) \cup {None}
    /\ answerAge \in 0 .. Timeout

ActorsTyped ==
    /\ pc \in [Actors -> PC]
    /\ cur \in [Actors -> Sets \cup {None}]
    /\ \A a \in Actors : pc[a] \in Verifying => cur[a] \in Sets

PollsTyped ==
    /\ todo \in [Pollers -> SUBSET Polled]
    /\ batch \in [Pollers -> [Verdicts -> SUBSET Sets]]
    /\ sent \in [Pollers -> SUBSET Sets]

WorldTyped ==
    /\ jwks \in [Kids -> {"future", "published", "withdrawn"}]
    /\ keyAge \in [Kids -> 0 .. Known]
    /\ buffer \subseteq Sets /\ settled \subseteq Sets
    /\ delivered \subseteq Sets /\ unkeyed \subseteq Sets

\* The parts make up TypeOK.
LEMMA TypeParts ==
  TypeOK <=> /\ KeysTyped /\ WireTyped /\ ActorsTyped /\ PollsTyped /\ WorldTyped
             /\ seen \subseteq Sets /\ storeFailed \in [Actors -> BOOLEAN]
BY DEF TypeOK, KeysTyped, WireTyped, ActorsTyped, PollsTyped, WorldTyped

\* So do the primed parts.
LEMMA TypePartsPrime ==
  TypeOK' <=> /\ KeysTyped' /\ WireTyped' /\ ActorsTyped' /\ PollsTyped' /\ WorldTyped'
              /\ seen' \subseteq Sets /\ storeFailed' \in [Actors -> BOOLEAN]
BY DEF TypeOK, KeysTyped, WireTyped, ActorsTyped, PollsTyped, WorldTyped

\* A receiver starts in a typed state.
LEMMA InitTyped == Init => TypeOK
<1> SUFFICES ASSUME Init PROVE TypeOK
  OBVIOUS
<1>1. KeysTyped
  <2>1. MaxAge \in 0 .. MaxAge /\ Interval \in 0 .. Interval
    BY SsfAssumption
  <2> QED
    BY <2>1 DEF Init, KeysTyped
<1>5. WireTyped
  BY SsfAssumption DEF Init, WireTyped
<1>2. ActorsTyped
  BY DEF Init, ActorsTyped, PC, Verifying
<1>3. PollsTyped
  BY DEF Init, PollsTyped, EmptyBatch
<1>4. WorldTyped
  <2>1. Known \in 0 .. Known /\ 0 \in 0 .. Known
    BY SsfAssumption DEF Known
  <2> QED
    BY <2>1 DEF Init, WorldTyped
<1> QED
  BY <1>1, <1>2, <1>3, <1>4, <1>5, TypeParts DEF Init

\* The end of a verification leaves actors, polls and world typed.
LEMMA EndsTyped ==
  ASSUME TypeOK, NEW a \in Actors, pc[a] \in Verifying, NEW v \in Verdicts, Ends(a, v)
  PROVE  WireTyped' /\ ActorsTyped' /\ PollsTyped' /\ WorldTyped'
<1> USE TypeParts
<1>0. cur[a] \in Sets
  BY DEF ActorsTyped
<1>1. ActorsTyped'
  BY DEF Ends, ActorsTyped, PC, Verifying
<1>2. PollsTyped'
  <2>1. CASE a \in Pollers
    <3>1. batch[a] \in [Verdicts -> SUBSET Sets]
      BY <2>1 DEF PollsTyped
    <3>2. [batch[a] EXCEPT ![v] = @ \cup {cur[a]}] \in [Verdicts -> SUBSET Sets]
      BY <3>1, <1>0
    <3>3. batch' = [batch EXCEPT ![a] = [batch[a] EXCEPT ![v] = @ \cup {cur[a]}]]
      BY <2>1 DEF Ends
    <3> QED
      BY <2>1, <3>2, <3>3 DEF Ends, PollsTyped
  <2>2. CASE a \notin Pollers
    BY <2>2 DEF Ends, PollsTyped
  <2> QED
    BY <2>1, <2>2
<1>3. WorldTyped'
  BY <1>0 DEF Ends, WorldTyped
<1>4. WireTyped'
  BY DEF Ends, WireTyped, wireVars
<1> QED
  BY <1>1, <1>2, <1>3, <1>4

\* So does what follows once the key is found, and waiting for a fetch.
LEMMA JudgesTyped ==
  ASSUME TypeOK, NEW a \in Actors, pc[a] \in Verifying,
         Judges(a) \/ Awaits(a, "filling") \/ Awaits(a, "refetching")
  PROVE  WireTyped' /\ ActorsTyped' /\ PollsTyped' /\ WorldTyped' /\ fetching' \in BOOLEAN
<1> USE TypeParts
<1>1. CASE Judges(a)
  <2>1. fetching' \in BOOLEAN
    BY <1>1 DEF Judges, KeysTyped
  <2>2. CASE \E v \in Verdicts : Ends(a, v)
    BY <2>1, <2>2, EndsTyped
  <2>3. CASE /\ pc' = [pc EXCEPT ![a] = "asking"]
             /\ UNCHANGED <<wireVars, cur, todo, batch, sent, worldVars, delivered, unkeyed>>
    BY <2>1, <2>3
    DEF WireTyped, ActorsTyped, PollsTyped, WorldTyped, wireVars, worldVars, PC, Verifying
  <2> QED
    BY <1>1, <2>2, <2>3 DEF Judges, Verdicts
<1>2. CASE Awaits(a, "filling") \/ Awaits(a, "refetching")
  BY <1>2
  DEF Awaits, WireTyped, ActorsTyped, PollsTyped, WorldTyped, wireVars, worldVars, PC,
      Verifying
<1> QED
  BY <1>1, <1>2

\* A verification leaves the state typed, at whatever await it goes on.
LEMMA VerifiesTyped == ASSUME TypeOK, NEW a \in Actors, Verifies(a) PROVE TypeOK'
<1> USE TypeParts
<1>0. pc[a] \in Verifying
  BY DEF Verifies, Lookup, Filled, Refetched, StoreAnswers, StoreFails, Verifying
<1>1. ASSUME Matches(a)
      PROVE  /\ WireTyped' /\ ActorsTyped' /\ PollsTyped' /\ WorldTyped'
             /\ fetching' \in BOOLEAN
             /\ sinceRefetch' \in 0 .. Interval
  <2>1. CASE Judges(a)
    <3>1. sinceRefetch' \in 0 .. Interval
      BY <2>1 DEF Judges, KeysTyped
    <3> QED
      BY <1>0, <2>1, <3>1, JudgesTyped
  <2>2. CASE sinceRefetch' = 0 /\ Awaits(a, "refetching")
    BY <1>0, <2>2, JudgesTyped, SsfAssumption
  <2>3. CASE Ends(a, "refused") /\ UNCHANGED <<fetching, sinceRefetch>>
    BY <1>0, <2>3, EndsTyped DEF Verdicts, KeysTyped
  <2> QED
    BY <1>1, <2>1, <2>2, <2>3 DEF Matches
<1>2. CASE Lookup(a)
  <2>1. keys' \in (SUBSET Kids) \cup {None}
    BY <1>2 DEF Lookup, KeysTyped
  <2>2. CASE Matches(a)
    BY <1>1, <1>2, <2>1, <2>2, TypePartsPrime DEF Lookup, KeysTyped
  <2>3. CASE Ends(a, "unjudged") /\ UNCHANGED <<fetching, sinceRefetch>>
    <3>1. WireTyped' /\ ActorsTyped' /\ PollsTyped' /\ WorldTyped'
      BY <1>0, <2>3, EndsTyped DEF Verdicts
    <3> QED
      BY <1>2, <2>1, <2>3, <3>1, TypePartsPrime DEF Lookup, KeysTyped
  <2>4. CASE Awaits(a, "filling") /\ UNCHANGED sinceRefetch
    <3>1. WireTyped' /\ ActorsTyped' /\ PollsTyped' /\ WorldTyped' /\ fetching' \in BOOLEAN
      BY <1>0, <2>4, JudgesTyped
    <3> QED
      BY <1>2, <2>1, <2>4, <3>1, TypePartsPrime DEF Lookup, KeysTyped
  <2> QED
    BY <1>2, <2>2, <2>3, <2>4 DEF Lookup
<1>3. CASE Filled(a)
  BY <1>1, <1>3, TypePartsPrime DEF Filled, KeysTyped
<1>4. CASE Refetched(a)
  <2>1. /\ WireTyped' /\ ActorsTyped' /\ PollsTyped' /\ WorldTyped' /\ fetching' \in BOOLEAN
        /\ UNCHANGED sinceRefetch
    <3>1. CASE Judges(a)
      BY <1>0, <3>1, JudgesTyped DEF Judges
    <3>2. CASE Ends(a, "refused") /\ UNCHANGED <<fetching, sinceRefetch>>
      BY <1>0, <3>2, EndsTyped DEF Verdicts, KeysTyped
    <3> QED
      BY <1>4, <3>1, <3>2 DEF Refetched
  <2> QED
    BY <1>4, <2>1, TypePartsPrime DEF Refetched, KeysTyped
<1>5. CASE StoreAnswers(a) \/ StoreFails(a)
  <2>1. \E v \in Verdicts : Ends(a, v)
    BY <1>5 DEF StoreAnswers, StoreFails, Verdicts
  <2>2. WireTyped' /\ ActorsTyped' /\ PollsTyped' /\ WorldTyped'
    BY <1>0, <2>1, EndsTyped
  <2>3. KeysTyped'
    BY <1>5 DEF StoreAnswers, StoreFails, KeysTyped, keyVars
  <2>4. seen' \subseteq Sets
    BY <1>0, <1>5 DEF StoreAnswers, StoreFails, ActorsTyped
  <2>5. storeFailed' \in [Actors -> BOOLEAN]
    BY <1>5 DEF StoreAnswers, StoreFails
  <2> QED
    BY <2>2, <2>3, <2>4, <2>5, TypePartsPrime
<1> QED
  BY <1>2, <1>3, <1>4, <1>5 DEF Verifies

\* A key fetch that is answered, lands or fails leaves the state typed.
LEMMA FetchTyped == ASSUME TypeOK, JwksAnswered \/ FetchLands \/ FetchFails PROVE TypeOK'
<1> USE TypeParts
<1>0. WireTyped'
  <2>1. 0 \in 0 .. Timeout /\ Published \in SUBSET Kids
    BY SsfAssumption DEF Published
  <2> QED
    BY <2>1 DEF JwksAnswered, FetchLands, FetchFails, WireTyped
<1>3. CASE JwksAnswered
  BY <1>0, <1>3, TypePartsPrime
  DEF JwksAnswered, KeysTyped, ActorsTyped, PollsTyped, WorldTyped, keyVars, pollVars, worldVars
<1>1. CASE FetchLands
  <2>1. KeysTyped'
    <3>1. 0 \in 0 .. MaxAge
      BY SsfAssumption
    <3> QED
      BY <1>1, <3>1 DEF FetchLands, KeysTyped, WireTyped
  <2>2. ActorsTyped'
    <3>1. Resumed \in [Actors -> PC]
      BY DEF Resumed, ActorsTyped, PC
    <3>2. \A a \in Actors : Resumed[a] \in Verifying => pc[a] \in Verifying
      BY DEF Resumed, Verifying
    <3> QED
      BY <1>1, <3>1, <3>2 DEF FetchLands, ActorsTyped
  <2>3. PollsTyped' /\ WorldTyped'
    BY <1>1 DEF FetchLands, PollsTyped, WorldTyped, pollVars, worldVars
  <2> QED
    BY <1>0, <1>1, <2>1, <2>2, <2>3, TypePartsPrime DEF FetchLands, pollVars
<1>2. CASE FetchFails
  <2>1. KeysTyped'
    <3>1. 0 \in 0 .. Interval
      BY SsfAssumption
    <3> QED
      BY <1>2, <3>1 DEF FetchFails, KeysTyped
  <2>2. ActorsTyped'
    BY <1>2 DEF FetchFails, Waiting, ActorsTyped, PC, Verifying
  <2>3. batch' \in [Pollers -> [Verdicts -> SUBSET Sets]]
    <3>1. ASSUME NEW p \in Pollers, p \in Waiting
          PROVE  [batch[p] EXCEPT !["unjudged"] = @ \cup {cur[p]}]
                    \in [Verdicts -> SUBSET Sets]
      <4>1. cur[p] \in Sets
        BY <3>1 DEF Waiting, Verifying, ActorsTyped, Actors
      <4>2. batch[p] \in [Verdicts -> SUBSET Sets]
        BY DEF PollsTyped
      <4> QED
        BY <4>1, <4>2
    <3> QED
      BY <1>2, <3>1 DEF FetchFails, PollsTyped
  <2>4. PollsTyped' /\ WorldTyped'
    BY <1>2, <2>3 DEF FetchFails, PollsTyped, WorldTyped, worldVars
  <2> QED
    BY <1>0, <1>2, <2>1, <2>2, <2>4, TypePartsPrime DEF FetchFails
<1> QED
  BY <1>1, <1>2, <1>3

\* A step of poll() leaves the state typed.
LEMMA PollsStepTyped == ASSUME TypeOK, NEW p \in Pollers, Polls(p) PROVE TypeOK'
<1> USE TypeParts
<1>1. p \in Actors
  BY DEF Actors
<1>2. CASE PollCall(p)
  BY <1>1, <1>2, TypePartsPrime
  DEF PollCall, KeysTyped, WireTyped, ActorsTyped, PollsTyped, WorldTyped, keyVars,
      wireVars, worldVars, PC, Verifying
<1>3. CASE PollAnswered(p)
  BY <1>1, <1>3, TypePartsPrime
  DEF PollAnswered, KeysTyped, WireTyped, ActorsTyped, PollsTyped, WorldTyped, keyVars,
      wireVars, PC, Verifying
<1>4. CASE PollLost(p)
  <2>1. ActorsTyped'
    BY <1>4 DEF PollLost, ActorsTyped, PC, Verifying
  <2>2. PollsTyped' /\ WorldTyped'
    BY <1>4 DEF PollLost, PollsTyped, WorldTyped
  <2> QED
    BY <1>4, <2>1, <2>2, TypePartsPrime
    DEF PollLost, KeysTyped, WireTyped, keyVars, wireVars
<1>5. ASSUME NEW s \in Polled, PollNext(p, s) PROVE TypeOK'
  <2>1. s \in Sets
    BY DEF Sets
  <2>2. ActorsTyped'
    BY <1>5, <2>1 DEF PollNext, ActorsTyped, PC, Verifying
  <2>3. batch' \in [Pollers -> [Verdicts -> SUBSET Sets]]
    <3>1. batch[p] \in [Verdicts -> SUBSET Sets]
      BY DEF PollsTyped
    <3>2. [batch[p] EXCEPT !["refused"] = @ \cup {s}] \in [Verdicts -> SUBSET Sets]
      BY <2>1, <3>1
    <3>3. \/ batch' = [batch EXCEPT ![p] = [batch[p] EXCEPT !["refused"] = @ \cup {s}]]
          \/ batch' = batch
      BY <1>5 DEF PollNext
    <3> QED
      BY <3>2, <3>3 DEF PollsTyped
  <2>4. PollsTyped'
    BY <1>5, <2>3 DEF PollNext, PollsTyped
  <2>5. WorldTyped'
    BY <1>5, <2>1 DEF PollNext, WorldTyped, worldVars
  <2> QED
    BY <1>5, <2>2, <2>4, <2>5, TypePartsPrime
    DEF PollNext, KeysTyped, WireTyped, keyVars, wireVars
<1>6. CASE PollReturns(p)
  <2>1. ActorsTyped'
    BY <1>6 DEF PollReturns, ActorsTyped, PC, Verifying
  <2>2. PollsTyped'
    BY <1>6 DEF PollReturns, PollsTyped, EmptyBatch
  <2>3. WorldTyped'
    <3>1. \A v \in Verdicts : batch[p][v] \subseteq Sets
      BY DEF PollsTyped
    <3> QED
      BY <1>6, <3>1 DEF PollReturns, WorldTyped, Verdicts
  <2> QED
    BY <1>6, <2>1, <2>2, <2>3, TypePartsPrime
    DEF PollReturns, KeysTyped, WireTyped, keyVars, wireVars
<1> QED
  BY <1>2, <1>3, <1>4, <1>5, <1>6 DEF Polls

\* A push, a key rotation and the clock leave the state typed.
LEMMA OtherTyped ==
  ASSUME TypeOK,
         \/ \E w \in Pushers, s \in Pushed : Push(w, s)
         \/ \E k \in Kids : Rotate(k)
         \/ Tick
  PROVE  TypeOK'
<1> USE TypeParts
<1>1. ASSUME NEW w \in Pushers, NEW s \in Pushed, Push(w, s) PROVE TypeOK'
  <2>1. w \in Actors /\ s \in Sets
    BY DEF Actors, Sets
  <2>2. ActorsTyped'
    BY <1>1, <2>1 DEF Push, ActorsTyped, PC, Verifying
  <2>3. PollsTyped' /\ WorldTyped'
    BY <1>1, <2>1 DEF Push, PollsTyped, WorldTyped, pollVars
  <2> QED
    BY <1>1, <2>2, <2>3, TypePartsPrime
    DEF Push, KeysTyped, WireTyped, keyVars, wireVars, pollVars
<1>2. ASSUME NEW k \in Kids, Rotate(k) PROVE TypeOK'
  <2>1. WorldTyped'
    <3>1. 0 \in 0 .. Known
      BY SsfAssumption DEF Known
    <3> QED
      BY <1>2, <3>1 DEF Rotate, WorldTyped
  <2> QED
    BY <1>2, <2>1, TypePartsPrime
    DEF Rotate, KeysTyped, WireTyped, ActorsTyped, PollsTyped, keyVars, wireVars, pollVars
<1>3. CASE Tick
  <2>1. \A b \in Nat : \A n \in 0 .. b : Later(n, b) \in 0 .. b
    BY DEF Later
  <2>2. KeysTyped'
    BY <1>3, <2>1, SsfAssumption DEF Tick, KeysTyped
  <2>3. keyAge' \in [Kids -> 0 .. Known]
    <3>1. 0 \in 0 .. Known /\ Known \in Nat
      BY SsfAssumption DEF Known
    <3> QED
      BY <1>3, <2>1, <3>1 DEF Tick, WorldTyped
  <2>5. WireTyped'
    BY <1>3, SsfAssumption DEF Tick, WireTyped
  <2>4. ActorsTyped' /\ PollsTyped' /\ WorldTyped'
    BY <1>3, <2>3 DEF Tick, ActorsTyped, PollsTyped, WorldTyped, pollVars
  <2> QED
    BY <1>3, <2>2, <2>4, <2>5, TypePartsPrime DEF Tick, pollVars
<1> QED
  BY <1>1, <1>2, <1>3

\* Every variable keeps its type, and whoever verifies has a SET in hand.
THEOREM SsfTyped == Spec => []TypeOK
<1>1. TypeOK /\ [Next]_vars => TypeOK'
  <2> SUFFICES ASSUME TypeOK, [Next]_vars PROVE TypeOK'
    OBVIOUS
  <2>1. CASE \E a \in Actors : Verifies(a)
    BY <2>1, VerifiesTyped
  <2>2. CASE JwksAnswered \/ FetchLands \/ FetchFails
    BY <2>2, FetchTyped
  <2>3. CASE \E p \in Pollers : Polls(p)
    BY <2>3, PollsStepTyped
  <2>4. CASE \/ \E w \in Pushers, s \in Pushed : Push(w, s)
             \/ \E k \in Kids : Rotate(k)
             \/ Tick
    BY <2>4, OtherTyped
  <2>5. CASE UNCHANGED vars
    BY <2>5 DEF vars, keyVars, wireVars, pollVars, worldVars, TypeOK
  <2> QED
    BY <2>1, <2>2, <2>3, <2>4, <2>5 DEF Next
<1> QED
  BY <1>1, InitTyped, PTL DEF Spec

-------------------------------------------------------------------------------
(* No event is lost *)

\* The inductive invariant: NothingLost follows from it and is not inductive.
DeliveryInv == RecordedIsReturned /\ SettledIsJudged

\* The sets DeliveryInv speaks of are all that it depends on.
LEMMA DeliveryUnchanged ==
  ASSUME DeliveryInv, UNCHANGED <<seen, delivered, unkeyed, batch, sent, settled, buffer>>
  PROVE  DeliveryInv'
BY DEF DeliveryInv, RecordedIsReturned, SettledIsJudged, InHand, Refusable

\* The end of a verification keeps it, if the SET is recorded just when it is
\* accepted, is called replayed only when it was recorded before, and refused only
\* when it is invalid or its key is not held.
LEMMA EndsKeeps ==
  ASSUME TypeOK, DeliveryInv, NEW a \in Actors, NEW v \in Verdicts, Ends(a, v),
         seen' = IF v = "accepted" THEN seen \cup {cur[a]} ELSE seen,
         v = "replayed" => cur[a] \in seen,
         v = "refused" => cur[a] \in Invalid \/ KeyOf[cur[a]] \notin keys
  PROVE  DeliveryInv'
<1>1. /\ batch \in [Pollers -> [Verdicts -> SUBSET Sets]]
      /\ sent' = sent /\ settled' = settled
  BY DEF TypeOK, Ends
<1>2. \A p \in Pollers, u \in Verdicts :
         batch'[p][u] = IF p = a /\ u = v THEN batch[p][u] \cup {cur[a]} ELSE batch[p][u]
  BY <1>1 DEF Ends
<1>3. RecordedIsReturned'
  <2>1. seen \subseteq delivered \cup InHand
    BY DEF DeliveryInv, RecordedIsReturned
  <2>2. InHand \subseteq InHand'
    BY <1>2 DEF InHand, Verdicts
  <2>3. delivered \subseteq delivered'
    BY DEF Ends
  <2>4. ASSUME v = "accepted" PROVE cur[a] \in delivered' \cup InHand'
    <3>1. CASE a \in Pushers
      BY <2>4, <3>1 DEF Ends
    <3>2. CASE a \in Pollers
      <4>1. cur[a] \in batch'[a]["accepted"]
        BY <1>2, <2>4, <3>2 DEF Verdicts
      <4> QED
        BY <3>2, <4>1 DEF InHand
    <3> QED
      BY <3>1, <3>2 DEF Actors
  <2> QED
    BY <2>1, <2>2, <2>3, <2>4 DEF RecordedIsReturned
<1>4. SettledIsJudged'
  <2>1. seen \subseteq seen' /\ Refusable \subseteq Refusable'
    BY DEF Ends, Refusable
  <2>2. /\ v \in {"accepted", "replayed"} => cur[a] \in seen'
        /\ v = "refused" => cur[a] \in Refusable'
    BY <2>1 DEF Ends, Refusable
  <2>3. ASSUME NEW p \in Pollers
        PROVE  /\ batch'[p]["accepted"] \cup batch'[p]["replayed"] \subseteq seen'
               /\ batch'[p]["refused"] \subseteq Refusable'
               /\ sent'[p] \subseteq settled'
    <3>1. /\ batch[p]["accepted"] \cup batch[p]["replayed"] \subseteq seen
          /\ batch[p]["refused"] \subseteq Refusable
          /\ sent[p] \subseteq settled
      BY DEF DeliveryInv, SettledIsJudged
    <3>2. ASSUME NEW u \in {"accepted", "replayed", "refused"}
          PROVE  batch'[p][u] \subseteq
                    batch[p][u] \cup (IF u = v THEN {cur[a]} ELSE {})
      BY <1>2, <3>2 DEF Verdicts
    <3>3. batch'[p]["accepted"] \subseteq seen'
      BY <2>1, <2>2, <3>1, <3>2
    <3>4. batch'[p]["replayed"] \subseteq seen'
      BY <2>1, <2>2, <3>1, <3>2
    <3>5. batch'[p]["refused"] \subseteq Refusable'
      BY <2>1, <2>2, <3>1, <3>2
    <3> QED
      BY <1>1, <3>1, <3>3, <3>4, <3>5
  <2>4. buffer \ buffer' \subseteq seen' \cup Refusable'
    BY <2>2 DEF Ends, Verdicts
  <2>5. settled \cup (Sets \ buffer) \subseteq seen \cup Refusable
    BY DEF DeliveryInv, SettledIsJudged
  <2> QED
    BY <1>1, <2>1, <2>3, <2>4, <2>5 DEF SettledIsJudged
<1> QED
  BY <1>3, <1>4 DEF DeliveryInv

\* A verification keeps it, whatever the cache, the fetches and the store do.
LEMMA VerifiesKeeps ==
  ASSUME TypeOK, DeliveryInv, NEW a \in Actors, Verifies(a)
  PROVE  DeliveryInv'
<1>1. ASSUME UNCHANGED seen, NEW v \in {"refused", "unjudged"}, Ends(a, v),
             v = "refused" => cur[a] \in Invalid \/ KeyOf[cur[a]] \notin keys
      PROVE  DeliveryInv'
  BY <1>1, EndsKeeps DEF Verdicts
<1>2. ASSUME UNCHANGED <<seen, batch, sent, worldVars, delivered, unkeyed>>
      PROVE  DeliveryInv'
  BY <1>2, DeliveryUnchanged DEF worldVars
<1>3. CASE Lookup(a) \/ Filled(a) \/ Refetched(a)
  <2>1. UNCHANGED seen
    BY <1>3 DEF Lookup, Filled, Refetched
  <2>2. \/ Ends(a, "refused") /\ (cur[a] \in Invalid \/ KeyOf[cur[a]] \notin keys)
        \/ Ends(a, "unjudged")
        \/ UNCHANGED <<batch, sent, worldVars, delivered, unkeyed>>
    BY <1>3 DEF Lookup, Filled, Refetched, Matches, Judges, Awaits
  <2> QED
    BY <1>1, <1>2, <2>1, <2>2 DEF worldVars
<1>4. CASE StoreAnswers(a)
  <2>1. CASE cur[a] \in seen
    BY <1>4, <2>1, EndsKeeps DEF StoreAnswers, Verdicts
  <2>2. CASE cur[a] \notin seen
    BY <1>4, <2>2, EndsKeeps DEF StoreAnswers, Verdicts
  <2> QED
    BY <2>1, <2>2
<1>5. CASE StoreFails(a)
  BY <1>1, <1>5 DEF StoreFails
<1> QED
  BY <1>3, <1>4, <1>5 DEF Verifies

\* A fetch keeps it: a failed one only adds to what is unjudged.
LEMMA FetchKeeps ==
  ASSUME TypeOK, DeliveryInv, JwksAnswered \/ FetchLands \/ FetchFails
  PROVE  DeliveryInv'
<1>1. CASE JwksAnswered \/ FetchLands
  BY <1>1, DeliveryUnchanged DEF JwksAnswered, FetchLands, pollVars, worldVars
<1>2. CASE FetchFails
  <2>1. \A p \in Pollers : /\ batch'[p]["accepted"] = batch[p]["accepted"]
                           /\ batch'[p]["replayed"] = batch[p]["replayed"]
                           /\ batch'[p]["refused"] = batch[p]["refused"]
    BY <1>2 DEF FetchFails, TypeOK, Verdicts
  <2>2. UNCHANGED <<seen, delivered, unkeyed, sent, settled, buffer>>
    BY <1>2 DEF FetchFails, worldVars
  <2> QED
    BY <2>1, <2>2 DEF DeliveryInv, RecordedIsReturned, SettledIsJudged, InHand, Refusable
<1> QED
  BY <1>1, <1>2

\* A step of poll() keeps it: only what was judged is ever settled.
LEMMA PollsKeep == ASSUME TypeOK, DeliveryInv, NEW p \in Pollers, Polls(p) PROVE DeliveryInv'
<1>1. CASE PollCall(p)
  BY <1>1 DEF PollCall, TypeOK, DeliveryInv, RecordedIsReturned, SettledIsJudged,
              InHand, Refusable, worldVars
<1>2. CASE PollAnswered(p) \/ PollLost(p)
  <2>1. UNCHANGED <<seen, delivered, unkeyed, batch, settled>>
    BY <1>2 DEF PollAnswered, PollLost
  <2>2. \A q \in Pollers : sent'[q] \subseteq sent[q]
    BY <1>2 DEF PollAnswered, PollLost, TypeOK
  <2>3. buffer \ buffer' \subseteq settled
    BY <1>2 DEF PollAnswered, PollLost, DeliveryInv, SettledIsJudged
  <2> QED
    BY <2>1, <2>2, <2>3 DEF DeliveryInv, RecordedIsReturned, SettledIsJudged, InHand, Refusable
<1>3. ASSUME NEW s \in Polled, PollNext(p, s) PROVE DeliveryInv'
  <2>1. /\ UNCHANGED <<seen, delivered, sent, settled, buffer>>
        /\ Refusable' = Refusable
    BY <1>3 DEF PollNext, worldVars, Refusable
  <2>2. \A q \in Pollers : /\ batch'[q]["accepted"] = batch[q]["accepted"]
                           /\ batch'[q]["replayed"] = batch[q]["replayed"]
                           /\ batch'[q]["refused"] \subseteq batch[q]["refused"] \cup Refusable
    BY <1>3 DEF PollNext, TypeOK, Verdicts, Refusable
  <2> QED
    BY <2>1, <2>2 DEF DeliveryInv, RecordedIsReturned, SettledIsJudged, InHand, Refusable
<1>4. CASE PollReturns(p)
  <2>1. \A q \in Pollers, u \in Verdicts :
           batch'[q][u] = IF q = p THEN {} ELSE batch[q][u]
    BY <1>4 DEF PollReturns, TypeOK, EmptyBatch
  <2>2. batch[p]["accepted"] \subseteq delivered' /\ delivered \subseteq delivered'
    BY <1>4 DEF PollReturns, Throws
  <2>3. /\ UNCHANGED <<seen, sent, buffer>> /\ Refusable' = Refusable
        /\ settled \subseteq settled'
        /\ settled' \subseteq settled \cup batch[p]["accepted"]
                       \cup batch[p]["replayed"] \cup batch[p]["refused"]
    BY <1>4 DEF PollReturns, Refusable
  <2>4. RecordedIsReturned'
    <3>1. InHand \subseteq InHand' \cup batch[p]["accepted"]
      BY <2>1 DEF InHand, Verdicts
    <3> QED
      BY <2>2, <2>3, <3>1 DEF DeliveryInv, RecordedIsReturned
  <2>5. SettledIsJudged'
    <3>1. ASSUME NEW q \in Pollers
          PROVE  /\ batch'[q]["accepted"] \cup batch'[q]["replayed"] \subseteq seen'
                 /\ batch'[q]["refused"] \subseteq Refusable'
                 /\ sent'[q] \subseteq settled'
      BY <2>1, <2>3 DEF DeliveryInv, SettledIsJudged, Verdicts
    <3> QED
      BY <2>3, <3>1 DEF DeliveryInv, SettledIsJudged
  <2> QED
    BY <2>4, <2>5 DEF DeliveryInv
<1> QED
  BY <1>1, <1>2, <1>3, <1>4 DEF Polls

\* DeliveryInv is inductive, given the types.
LEMMA DeliveryStep == TypeOK /\ DeliveryInv /\ [Next]_vars => DeliveryInv'
<1> SUFFICES ASSUME TypeOK, DeliveryInv, [Next]_vars PROVE DeliveryInv'
  OBVIOUS
<1>1. CASE \E a \in Actors : Verifies(a)
  BY <1>1, VerifiesKeeps
<1>2. CASE JwksAnswered \/ FetchLands \/ FetchFails
  BY <1>2, FetchKeeps
<1>3. CASE \E p \in Pollers : Polls(p)
  BY <1>3, PollsKeep
<1>4. ASSUME NEW w \in Pushers, NEW s \in Pushed, Push(w, s) PROVE DeliveryInv'
  <2>1. /\ UNCHANGED <<seen, delivered, batch, sent, settled>>
        /\ Refusable' = Refusable
        /\ buffer \ buffer' \subseteq Refusable
    BY <1>4 DEF Push, pollVars, Refusable
  <2> QED
    BY <2>1 DEF DeliveryInv, RecordedIsReturned, SettledIsJudged, InHand, Refusable
<1>5. CASE (\E k \in Kids : Rotate(k)) \/ Tick
  BY <1>5, DeliveryUnchanged DEF Rotate, Tick, pollVars
<1>6. CASE UNCHANGED vars
  BY <1>6, DeliveryUnchanged DEF vars, pollVars, worldVars
<1> QED
  BY <1>1, <1>2, <1>3, <1>4, <1>5, <1>6 DEF Next

\* In every execution what is recorded has been returned or is about to be, and
\* what is settled has been judged.
THEOREM DeliveryCorrect == Spec => []DeliveryInv
<1>1. Init => DeliveryInv
  BY DEF Init, DeliveryInv, RecordedIsReturned, SettledIsJudged, InHand, EmptyBatch, Verdicts
<1> QED
  BY <1>1, DeliveryStep, SsfTyped, PTL DEF Spec

\* No jti is recorded without its event being returned to the application.
THEOREM NoSilentRecord == Spec => []RecordedIsReturned
<1>1. DeliveryInv => RecordedIsReturned
  BY DEF DeliveryInv
<1> QED
  BY <1>1, DeliveryCorrect, PTL

\* Nothing is settled with the transmitter that the receiver has not judged.
THEOREM OnlyJudgedIsSettled == Spec => []SettledIsJudged
<1>1. DeliveryInv => SettledIsJudged
  BY DEF DeliveryInv
<1> QED
  BY <1>1, DeliveryCorrect, PTL

\* No event is lost to an outage of the replay store, nor to one of the keys that leaves
\* no cache; Refusable says which SETs may be refused.
THEOREM NoEventLost == Spec => []NothingLost
<1>1. DeliveryInv => NothingLost
  BY DEF DeliveryInv, RecordedIsReturned, SettledIsJudged, NothingLost
<1> QED
  BY <1>1, DeliveryCorrect, PTL
-------------------------------------------------------------------------------
(* Keys *)

LEMMA DatesUnchanged ==
  ASSUME KeysInv, UNCHANGED <<answer, answerAge, keys, keysAge, jwks, keyAge>>,
         \A a \in Actors : pc'[a] \in {"filled", "refetched"} => pc[a] = pc'[a]
  PROVE  KeysInv'
BY DEF KeysInv, AnswerDated, CacheDated, FetchFresh

\* A verification leaves the cache as it is, or empties it once it has expired; and
\* moves nobody to where a fetch ends.
LEMMA VerifiesDates ==
  ASSUME TypeOK, KeysInv, NEW a \in Actors, Verifies(a)
  PROVE  KeysInv'
<1>1. \E v \in {"next", "idle", "asking", "filling", "refetching"} : pc' = [pc EXCEPT ![a] = v]
  BY DEF Verifies, Lookup, Filled, Refetched, StoreAnswers, StoreFails, Matches, Judges, Awaits,
         Ends
<1>2. \A b \in Actors : pc'[b] \in {"filled", "refetched"} => pc[b] = pc'[b]
  BY <1>1 DEF TypeOK
<1>3. UNCHANGED <<answer, answerAge, keysAge, jwks, keyAge>>
  BY DEF Verifies, Lookup, Filled, Refetched, StoreAnswers, StoreFails, Matches, Judges, Awaits,
         Ends, keyVars, wireVars, worldVars
<1>4. UNCHANGED keys \/ (keys' = None /\ (keys = None \/ Expired))
  BY DEF Verifies, Lookup, Filled, Refetched, StoreAnswers, StoreFails, keyVars
<1>5. CASE UNCHANGED keys
  BY <1>2, <1>3, <1>5, DatesUnchanged
<1>6. CASE keys' = None /\ Expired
  <2>1. keysAge # 0
    BY <1>6, SsfAssumption DEF Expired
  <2> QED
    BY <1>2, <1>3, <1>6, <2>1 DEF KeysInv, AnswerDated, CacheDated, FetchFresh
<1> QED
  BY <1>4, <1>5, <1>6

\* An answer agrees with the transmitter when it is made, and dates the cache, by no
\* more than its own age, when it lands; a fetch that fails leaves the cache.
LEMMA FetchDates ==
  ASSUME TypeOK, KeysInv, JwksAnswered \/ FetchLands \/ FetchFails
  PROVE  KeysInv'
<1>1. CASE JwksAnswered
  BY <1>1 DEF JwksAnswered, KeysInv, AnswerDated, CacheDated, FetchFresh, Published,
              keyVars, worldVars
<1>2. CASE FetchLands
  <2>1. /\ keys' = answer /\ keysAge' = 0 /\ answer' = None /\ answer # None
        /\ UNCHANGED <<jwks, keyAge>>
    BY <1>2 DEF FetchLands, worldVars
  <2>2. ASSUME NEW k \in Kids, keyAge[k] <= answerAge PROVE keyAge[k] <= 0 + Timeout
    BY <2>2, SsfAssumption DEF TypeOK, Known
  <2>3. CacheDated'
    BY <2>1, <2>2 DEF KeysInv, AnswerDated, CacheDated
  <2> QED
    BY <2>1, <2>3 DEF KeysInv, AnswerDated, FetchFresh
<1>3. CASE FetchFails
  BY <1>3 DEF FetchFails, KeysInv, AnswerDated, CacheDated, FetchFresh, TypeOK, worldVars
<1> QED
  BY <1>1, <1>2, <1>3

LEMMA TickDates == ASSUME TypeOK, KeysInv, Tick PROVE KeysInv'
<1>1. FetchFresh'
  BY DEF Tick, FetchFresh, Runnable
<1>2. ASSUME NEW k \in Kids
      PROVE  /\ keyAge[k] <= keysAge + Timeout => keyAge'[k] <= keysAge' + Timeout
             /\ answer # None /\ keyAge[k] <= answerAge => keyAge'[k] <= answerAge'
  <2>1. /\ keyAge[k] \in 0 .. MaxAge + Timeout /\ keysAge \in 0 .. MaxAge
        /\ answerAge \in 0 .. Timeout /\ MaxAge \in Nat /\ Timeout \in Nat
    BY SsfAssumption DEF TypeOK, Known
  <2>2. /\ keysAge' = Later(keysAge, MaxAge)
        /\ keyAge'[k] \in {0, Later(keyAge[k], MaxAge + Timeout)}
        /\ answer # None => answerAge' = answerAge + 1
    BY DEF Tick, Known
  <2> QED
    BY <2>1, <2>2 DEF Later
<1>3. CacheDated' /\ AnswerDated'
  BY <1>2 DEF Tick, KeysInv, AnswerDated, CacheDated
<1> QED
  BY <1>1, <1>3 DEF KeysInv

LEMMA KeysStep == TypeOK /\ KeysInv /\ [Next]_vars => KeysInv'
<1> SUFFICES ASSUME TypeOK, KeysInv, [Next]_vars PROVE KeysInv'
  OBVIOUS
<1>1. CASE \E p \in Pollers : Polls(p)
  <2>1. \E p \in Pollers, v \in {"posted", "next", "idle", "lookup"} :
           pc' = [pc EXCEPT ![p] = v] \/ UNCHANGED pc
    BY <1>1 DEF Polls, PollCall, PollAnswered, PollLost, PollReturns, PollNext
  <2>2. UNCHANGED <<answer, answerAge, keys, keysAge, jwks, keyAge>>
    BY <1>1 DEF Polls, PollCall, PollAnswered, PollLost, PollReturns, PollNext, keyVars,
                wireVars, worldVars
  <2> QED
    BY <2>1, <2>2, DatesUnchanged DEF TypeOK
<1>2. CASE \E w \in Pushers, s \in Pushed : Push(w, s)
  <2>1. \E w \in Pushers : pc' = [pc EXCEPT ![w] = "lookup"] \/ UNCHANGED pc
    BY <1>2 DEF Push
  <2>2. UNCHANGED <<answer, answerAge, keys, keysAge, jwks, keyAge>>
    BY <1>2 DEF Push, keyVars, wireVars
  <2> QED
    BY <2>1, <2>2, DatesUnchanged DEF TypeOK
<1>3. ASSUME NEW k \in Kids, Rotate(k) PROVE KeysInv'
  <2>1. /\ UNCHANGED <<answer, answerAge, keys, keysAge, pc>>
        /\ keyAge' = [keyAge EXCEPT ![k] = 0] /\ keyAge'[k] = 0
        /\ \A j \in Kids : j # k => jwks'[j] = jwks[j] /\ keyAge'[j] = keyAge[j]
    BY <1>3 DEF Rotate, keyVars, wireVars, TypeOK
  <2>2. 0 <= keysAge + Timeout /\ 0 <= answerAge
    BY SsfAssumption DEF TypeOK
  <2> QED
    BY <2>1, <2>2 DEF KeysInv, AnswerDated, CacheDated, FetchFresh
<1>4. CASE UNCHANGED vars
  BY <1>4, DatesUnchanged DEF vars, keyVars, wireVars, worldVars
<1> QED
  BY <1>1, <1>2, <1>3, <1>4, VerifiesDates, FetchDates, TickDates DEF Next

\* The cache is never wrong about a key for longer than it has been held and its
\* answer was on the way.
THEOREM KeysCorrect == Spec => []KeysInv
<1>1. Init => KeysInv
  BY DEF Init, KeysInv, AnswerDated, CacheDated, FetchFresh
<1> QED
  BY <1>1, KeysStep, SsfTyped, PTL DEF Spec

\* Who stops looking for its key, or goes on to the store, has looked by itself, and
\* in a cache that has not expired.
LEMMA LooksItself ==
  ASSUME TypeOK, KeysInv, [Next]_vars, NEW a \in Actors, pc'[a] # pc[a],
         pc[a] \in {"lookup", "filled", "refetched"} \/ pc'[a] = "asking"
  PROVE  Lookup(a) \/ Filled(a) \/ Refetched(a)
<1>1. ASSUME NEW b \in Actors, Verifies(b), ~(Lookup(a) \/ Filled(a) \/ Refetched(a)) PROVE FALSE
  <2>1. \E v \in PC : pc' = [pc EXCEPT ![b] = v]
    BY <1>1 DEF Verifies, Lookup, Filled, Refetched, StoreAnswers, StoreFails, Matches, Judges,
                Awaits, Ends, PC
  <2>2. b = a
    BY <2>1 DEF TypeOK
  <2> QED
    BY <1>1, <2>2 DEF Verifies, StoreAnswers, StoreFails, Ends, TypeOK
<1>2. ~JwksAnswered /\ ~FetchLands /\ ~FetchFails
  BY DEF JwksAnswered, FetchLands, FetchFails, Resumed, Waiting
<1>3. ASSUME NEW p \in Pollers, Polls(p) PROVE FALSE
  BY <1>3 DEF Polls, PollCall, PollAnswered, PollLost, PollReturns, PollNext, TypeOK, Actors
<1>4. ASSUME NEW w \in Pushers, NEW s \in Pushed, Push(w, s) PROVE FALSE
  BY <1>4 DEF Push, TypeOK, Actors
<1>5. ~(\E k \in Kids : Rotate(k)) /\ ~Tick /\ ~UNCHANGED vars
  BY DEF Rotate, Tick, vars
<1> QED
  BY <1>1, <1>2, <1>3, <1>4, <1>5 DEF Next

LEMMA LooksInTime ==
  ASSUME TypeOK, KeysInv, NEW a \in Actors, Lookup(a) \/ Filled(a) \/ Refetched(a),
         keys # None, keys' # None
  PROVE  /\ keysAge < MaxAge /\ keys \in SUBSET Kids
         /\ \A k \in Kids : (k \in keys) # (jwks[k] = "published") => keyAge[k] < Known
<1>1. keysAge < MaxAge
  BY SsfAssumption
  DEF Lookup, Filled, Refetched, KeysInv, FetchFresh, Expired, TypeOK
<1>2. \A k \in Kids :
         (k \in keys) # (jwks[k] = "published") => keyAge[k] <= keysAge + Timeout
  BY DEF KeysInv, CacheDated
<1>3. /\ \A k \in Kids : keyAge[k] \in 0 .. MaxAge + Timeout
      /\ keysAge \in 0 .. MaxAge /\ MaxAge \in Nat /\ Timeout \in Nat
  BY SsfAssumption DEF TypeOK, Known
<1> QED
  BY <1>1, <1>2, <1>3 DEF TypeOK, Known

\* No SET is refused for a key that has been published for as long as the cache and the
\* answer that filled it may be old, whatever fetches failed and whoever shared them (#keyFor).
THEOREM PublishedKnown == Spec => PublishedKeysAreKnown
<1>1. TypeOK /\ KeysInv /\ [Next]_vars =>
        [\A a \in Actors : RefusedForKey(a) =>
            LET k == KeyOf[cur[a]]
            IN  k \in Kids => jwks[k] # "published" \/ keyAge[k] < Known]_vars
  <2> SUFFICES ASSUME TypeOK, KeysInv, Next, NEW a \in Actors, RefusedForKey(a),
                      KeyOf[cur[a]] \in Kids, jwks[KeyOf[cur[a]]] = "published"
               PROVE  keyAge[KeyOf[cur[a]]] < Known
    OBVIOUS
  <2>1. Lookup(a) \/ Filled(a) \/ Refetched(a)
    BY LooksItself DEF RefusedForKey
  <2> QED
    BY <2>1, LooksInTime DEF RefusedForKey
<1> QED
  BY <1>1, SsfTyped, KeysCorrect, PTL DEF Spec, PublishedKeysAreKnown

\* No SET is verified with a key removed for longer than the cache and the answer that
\* filled it may be old (section 34.2 P6).
THEOREM RemovedStop == Spec => RemovedKeysStop
<1>1. TypeOK /\ KeysInv /\ [Next]_vars =>
        [\A a \in Actors : pc[a] # "asking" /\ pc'[a] = "asking" =>
            LET k == KeyOf[cur[a]] IN jwks[k] = "published" \/ keyAge[k] < Known]_vars
  <2> SUFFICES ASSUME TypeOK, KeysInv, Next, NEW a \in Actors,
                      pc[a] # "asking", pc'[a] = "asking",
                      jwks[KeyOf[cur[a]]] # "published"
               PROVE  keyAge[KeyOf[cur[a]]] < Known
    OBVIOUS
  <2>1. Lookup(a) \/ Filled(a) \/ Refetched(a)
    BY LooksItself
  <2>2. keys # None
    BY <2>1 DEF Lookup, Filled, Refetched, Awaits, Ends, KeysInv, FetchFresh, TypeOK
  <2>3. UNCHANGED keys /\ KeyOf[cur[a]] \in keys
    BY <2>1 DEF Lookup, Filled, Refetched, Matches, Judges, Awaits, Ends, TypeOK
  <2> QED
    BY <2>1, <2>2, <2>3, LooksInTime
<1> QED
  BY <1>1, SsfTyped, KeysCorrect, PTL DEF Spec, RemovedKeysStop
===============================================================================
