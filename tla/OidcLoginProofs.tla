---------------------------- MODULE OidcLoginProofs ----------------------------
(***************************************************************************)
(* What the relying party's login guarantees for every number of logins    *)
(* and callbacks, every lifetime and timeout: whose code a callback can    *)
(* succeed with, that no verifier is sent twice, what a 503 stands for, and*)
(* that a replaced discovery document is forgotten.                        *)
(***************************************************************************)
EXTENDS OidcLogin, TLAPS

LEMMA LifetimesNat ==
  /\ lifetime(ttlMs) \in Nat /\ lifetime(ttlMs) <= OIDC_STATE_TTL_MS
  /\ discoveryLifetime \in Nat
  /\ Timeout \in Nat \ {0} /\ OIDC_STATE_TTL_MS \in Nat \ {0}
BY LoginAssumption DEF lifetime, discoveryLifetime, Lower, Upper

LEMMA Distinct == Logins \subseteq Calls /\ Visits \subseteq Calls /\ Logins \cap Visits = {}
BY LoginAssumption DEF Calls

\* The records the model puts in its variables are of their types.
LEMMA RecordsTyped ==
  /\ NoVisit \in Brought /\ NoDocument \in Held /\ NoFetch \in Fetching
  /\ [is |-> "asked", left |-> Timeout] \in Fetching
  /\ Quiet \in Wire /\ Request \in Wire
  /\ \A a \in {"refused", "nothing", "opaque", "hollow", "pushed"} : Answer(a) \in Wire
  /\ \A t \in IdTokens : Tokens(t) \in Wire
<1>1. NoVisit \in Brought /\ NoDocument \in Held
  BY DEF NoVisit, Brought, NoDocument, Held
<1>2. NoFetch \in Fetching /\ [is |-> "asked", left |-> Timeout] \in Fetching
  BY LifetimesNat DEF NoFetch, Fetching
<1>3. NoIdToken \in IdTokens
  BY DEF NoIdToken, IdTokens, Versions
<1>4. Quiet \in Wire /\ Request \in Wire
  BY <1>3 DEF Quiet, Request, Answer, Wire
<1>5. \A a \in {"refused", "nothing", "opaque", "hollow", "pushed"} : Answer(a) \in Wire
  BY <1>3 DEF Answer, Wire
<1>6. \A t \in IdTokens : Tokens(t) \in Wire
  BY DEF Tokens, Wire
<1> QED
  BY <1>1, <1>2, <1>4, <1>5, <1>6

LEMMA LoginInitTyped == Init => TypeOK
<1> SUFFICES ASSUME Init PROVE TypeOK
  OBVIOUS
<1>1. document \in Held /\ fetch \in Fetching /\ visit \in [Visits -> Brought]
      /\ wire \in [Calls -> Wire]
  BY RecordsTyped DEF Init
<1>2. server \in [version : Versions, checks : {"verifier", "nonce"}]
  BY DEF Init, Versions
<1> QED
  BY <1>1, <1>2 DEF Init, TypeOK

\* Asking for the discovery document leaves its user and the fetch typed.
LEMMA DiscoverTyped ==
  ASSUME TypeOK, NEW c \in Calls, Discover(c)
  PROVE  /\ conf' \in [Calls -> Documents \cup {"none"}]
         /\ fetch' \in Fetching /\ landed' \in BOOLEAN
<1>1. document.is \in Documents \cup {"none"}
  BY DEF TypeOK, Held
<1> QED
  BY <1>1, RecordsTyped DEF Discover, TypeOK

\* Saving a state and taking one leave the store and its ages typed.
LEMMA StoreTyped ==
  ASSUME TypeOK, NEW l \in Logins
  PROVE  /\ DOMAIN Saved(l) \subseteq Logins
         /\ \A k \in DOMAIN Saved(l) : Saved(l)[k] \in 0 .. OIDC_STATE_TTL_MS
         /\ \A s : /\ DOMAIN Forget(store, s) = DOMAIN store \ {s}
                   /\ \A k \in DOMAIN store \ {s} : Forget(store, s)[k] = store[k]
<1>1. DOMAIN Saved(l) = {k \in DOMAIN store : store[k] > 0} \cup {l}
  BY DEF Saved, Sweep
<1>2. \A k \in DOMAIN Saved(l) : Saved(l)[k] = IF k = l THEN lifetime(ttlMs) ELSE store[k]
  BY DEF Saved, Sweep
<1> QED
  BY <1>1, <1>2, LifetimesNat DEF TypeOK, Forget

\* A login's step leaves the state typed.
LEMMA LoginTyped ==
  ASSUME TypeOK, NEW l \in Logins, Login(l) \/ Begin(l) \/ Push(l) \/ Pushed(l)
  PROVE  TypeOK'
<1> l \in Calls
  BY DEF Calls
<1>1. CASE Login(l)
  BY <1>1, DiscoverTyped DEF Login, TypeOK, Inside
<1>2. CASE Begin(l)
  <2>1. pc' \in [Calls -> {"idle"} \cup Inside \cup Statuses]
        /\ conf' \in [Calls -> Documents \cup {"none"}] /\ failed' \subseteq Calls
    BY <1>2 DEF Begin, Redirect, TypeOK, Statuses, Successes
  <2>2. /\ DOMAIN store' \subseteq Logins
        /\ \A k \in DOMAIN store' : store'[k] \in 0 .. OIDC_STATE_TTL_MS
        /\ age' \in [Logins -> Nat]
    BY <1>2, StoreTyped DEF Begin, Redirect, TypeOK
  <2> QED
    BY <1>2, <2>1, <2>2 DEF Begin, TypeOK
<1>3. CASE Push(l)
  BY <1>3, RecordsTyped DEF Push, TypeOK, Statuses, Successes, Inside
<1>4. CASE Pushed(l)
  <2>1. pc' \in [Calls -> {"idle"} \cup Inside \cup Statuses]
        /\ wire' \in [Calls -> Wire] /\ failed' \subseteq Calls
    BY <1>4, RecordsTyped DEF Pushed, Redirect, TypeOK, Statuses, Successes
  <2>2. /\ DOMAIN store' \subseteq Logins
        /\ \A k \in DOMAIN store' : store'[k] \in 0 .. OIDC_STATE_TTL_MS
        /\ age' \in [Logins -> Nat]
    BY <1>4, StoreTyped DEF Pushed, Redirect, TypeOK
  <2> QED
    BY <1>4, <2>1, <2>2 DEF Pushed, TypeOK
<1> QED
  BY <1>1, <1>2, <1>3, <1>4

\* A callback's step leaves the state typed.
LEMMA VisitTyped ==
  ASSUME TypeOK, NEW v \in Visits,
         \/ CallbackRefused(v) \/ Exchange(v) \/ Exchanged(v)
         \/ \E s \in Logins \cup {Unknown}, k \in Logins \cup {Unknown} : Callback(v, s, k)
  PROVE  TypeOK'
<1> v \in Calls
  BY DEF Calls
<1>1. CASE CallbackRefused(v)
  BY <1>1 DEF CallbackRefused, TypeOK, Statuses, Successes
<1>2. CASE \E s \in Logins \cup {Unknown}, k \in Logins \cup {Unknown} : Callback(v, s, k)
  <2>1. PICK s \in Logins \cup {Unknown}, k \in Logins \cup {Unknown} : Callback(v, s, k)
    BY <1>2
  <2>2. [state |-> s, code |-> k, inTime |-> age[s] < OIDC_STATE_TTL_MS] \in Brought
    BY DEF Brought
  <2>3. pc' \in [Calls -> {"idle"} \cup Inside \cup Statuses]
        /\ visit' \in [Visits -> Brought]
    BY <2>1, <2>2 DEF Callback, TypeOK, Statuses, Successes, Inside
  <2>4. /\ conf' \in [Calls -> Documents \cup {"none"}]
        /\ fetch' \in Fetching /\ landed' \in BOOLEAN
    BY <2>1, DiscoverTyped DEF Callback, TypeOK
  <2>5. /\ DOMAIN store' \subseteq Logins
        /\ \A l \in DOMAIN store' : store'[l] \in 0 .. OIDC_STATE_TTL_MS
    BY <2>1 DEF Callback, Consumed, Forget, TypeOK
  <2> QED
    BY <2>1, <2>3, <2>4, <2>5 DEF Callback, TypeOK
<1>3. CASE Exchange(v)
  BY <1>3, RecordsTyped DEF Exchange, TypeOK, Statuses, Successes, Inside
<1>4. CASE Exchanged(v)
  BY <1>4, RecordsTyped DEF Exchanged, TypeOK, Statuses, Successes
<1> QED
  BY <1>1, <1>2, <1>3, <1>4
\* So does a step of the discovery, of the server, of the network, and of time.
LEMMA WorldTyped ==
  ASSUME TypeOK,
         \/ DiscoveryAnswered \/ DiscoveryLands \/ ServerMoves \/ Tick
         \/ \E l \in Logins : Authorize(l) \/ ServerPushes(l)
         \/ \E v \in Visits : ServerExchanges(v) \/ Lost(v)
  PROVE  TypeOK'
<1>1. CASE DiscoveryAnswered
  <2>1. fetch' \in Fetching
    BY <1>1 DEF DiscoveryAnswered, Fetching, TypeOK, Documents
  <2> QED
    BY <1>1, <2>1 DEF DiscoveryAnswered, TypeOK
<1>2. CASE DiscoveryLands
  <2>1. fetch' \in Fetching /\ landed' \in BOOLEAN /\ failed' \subseteq Calls
    BY <1>2, RecordsTyped DEF DiscoveryLands, Settled, TypeOK
  <2>2. document' \in Held
    BY <1>2, LifetimesNat DEF DiscoveryLands, Held, TypeOK
  <2>3. conf' \in [Calls -> Documents \cup {"none"}]
    BY <1>2 DEF DiscoveryLands, TypeOK
  <2>4. pc' \in [Calls -> {"idle"} \cup Inside \cup Statuses]
    BY <1>2 DEF DiscoveryLands, TypeOK, Statuses, Successes
  <2>5. visit' \in [Visits -> Brought]
    BY <1>2, RecordsTyped DEF DiscoveryLands, TypeOK
  <2> QED
    BY <1>2, <2>1, <2>2, <2>3, <2>4, <2>5 DEF DiscoveryLands, TypeOK
<1>3. CASE ServerMoves
  BY <1>3 DEF ServerMoves, TypeOK, Versions
<1>4. CASE Tick
  <2>1. fetch' \in Fetching /\ document' \in Held
    <3>1. /\ fetch.is \in Documents \cup {"none", "asked", "nothing", "refused"}
          /\ fetch.left \in 0 .. Timeout /\ fetch' = [fetch EXCEPT !.left = Down(fetch.left)]
          /\ document.is \in Documents \cup {"none"} /\ document.left \in Nat
          /\ document' = [document EXCEPT !.left = Down(document.left)]
      BY <1>4 DEF Tick, Fetching, Held, TypeOK
    <3>2. Down(fetch.left) \in 0 .. Timeout /\ Down(document.left) \in Nat
      BY <3>1, LifetimesNat DEF Down
    <3> QED
      BY <3>1, <3>2 DEF Fetching, Held, TypeOK
  <2>2. /\ DOMAIN store' \subseteq Logins
        /\ \A l \in DOMAIN store' : store'[l] \in 0 .. OIDC_STATE_TTL_MS
    BY <1>4, LifetimesNat DEF Tick, Down, TypeOK
  <2>3. age' \in [Logins -> Nat] /\ since' \in Nat
    BY <1>4, LifetimesNat DEF Tick, Lower, TypeOK
  <2> QED
    BY <1>4, <2>1, <2>2, <2>3 DEF Tick, TypeOK
<1>5. CASE \E l \in Logins : Authorize(l)
  BY <1>5 DEF Authorize, TypeOK
<1>6. CASE \E l \in Logins : ServerPushes(l)
  BY <1>6, RecordsTyped, Distinct DEF ServerPushes, TypeOK
<1>7. CASE \E v \in Visits : ServerExchanges(v)
  <2>1. PICK v \in Visits : ServerExchanges(v)
    BY <1>7
  <2>2. visit[v].code \in Logins \cup {Unknown} /\ server.version \in Versions
    BY DEF TypeOK, Brought
  <2>3. codes' \in [issued : SUBSET Logins, redeemed : SUBSET Logins]
    BY <2>1, <2>2 DEF ServerExchanges, TypeOK
  <2>4. \A good \in BOOLEAN :
          [nonce |-> visit[v].code, iss |-> server.version, good |-> good] \in IdTokens
    BY <2>2 DEF IdTokens
  <2>5. wire' \in [Calls -> Wire]
    <3>1. \E a \in Wire : wire' = [wire EXCEPT ![v] = a]
      <4>1. CASE \E good \in BOOLEAN :
                   wire' = [wire EXCEPT ![v] =
                     Tokens([nonce |-> visit[v].code, iss |-> server.version, good |-> good])]
        BY <2>4, <4>1, RecordsTyped
      <4>2. CASE \E a \in {"refused", "opaque", "hollow"} : wire' = [wire EXCEPT ![v] = Answer(a)]
        BY <4>2, RecordsTyped
      <4> QED
        BY <2>1, <4>1, <4>2 DEF ServerExchanges
    <3> QED
      BY <3>1, Distinct DEF TypeOK
  <2> QED
    BY <2>1, <2>3, <2>5 DEF ServerExchanges, TypeOK
<1>8. CASE \E v \in Visits : Lost(v)
  BY <1>8, RecordsTyped, Distinct DEF Lost, TypeOK
<1> QED
  BY <1>1, <1>2, <1>3, <1>4, <1>5, <1>6, <1>7, <1>8

\* Every variable of the login keeps its type along every interleaving.
THEOREM LoginTypeCorrect == Spec => []TypeOK
<1>1. TypeOK /\ [Next]_vars => TypeOK'
  <2> SUFFICES ASSUME TypeOK, [Next]_vars PROVE TypeOK'
    OBVIOUS
  <2>1. CASE UNCHANGED vars
    BY <2>1 DEF vars, TypeOK
  <2> QED
    BY <2>1, LoginTyped, VisitTyped, WorldTyped DEF Next
<1> QED
  BY <1>1, LoginInitTyped, PTL DEF Spec

-------------------------------------------------------------------------------
(* A state is taken once *)

LEMMA LoginTakenOnce ==
  ASSUME TypeOK, StateTakenOnce, NEW l \in Logins, Login(l) \/ Begin(l) \/ Push(l) \/ Pushed(l)
  PROVE  StateTakenOnce'
<1> l \in Calls
  BY Distinct
<1>1. /\ UNCHANGED <<visit, presented>> /\ pc[l] # "302"
      /\ \A c \in Calls \ {l} : pc'[c] = pc[c]
      /\ store' = store \/ (pc'[l] = "302" /\ DOMAIN store' \subseteq DOMAIN store \cup {l})
  <2>1. CASE Login(l) \/ Push(l)
    BY <2>1 DEF Login, Push, TypeOK
  <2>2. CASE Begin(l) \/ Pushed(l)
    BY <2>2 DEF Begin, Pushed, Redirect, Saved, Sweep, TypeOK
  <2> QED
    BY <2>1, <2>2
<1>2. presented[l] = 0 /\ \A v \in Visits : visit[v].state # l
  BY <1>1 DEF StateTakenOnce
<1> QED
  BY <1>1, <1>2, Distinct DEF StateTakenOnce

LEMMA VisitTakenOnce ==
  ASSUME TypeOK, StateTakenOnce, NEW v \in Visits,
         \/ CallbackRefused(v) \/ Exchange(v) \/ Exchanged(v)
         \/ \E s \in Logins \cup {Unknown}, k \in Logins \cup {Unknown} : Callback(v, s, k)
  PROVE  StateTakenOnce'
<1> v \in Calls /\ \A l \in Logins : pc'[l] = pc[l]
  BY Distinct DEF CallbackRefused, Exchange, Exchanged, Callback, TypeOK
<1>1. CASE CallbackRefused(v)
  BY <1>1, Distinct DEF CallbackRefused, TypeOK, StateTakenOnce
<1>2. CASE \E s \in Logins \cup {Unknown}, k \in Logins \cup {Unknown} : Callback(v, s, k)
  <2>1. PICK s \in Logins \cup {Unknown}, k \in Logins \cup {Unknown} : Callback(v, s, k)
    BY <1>2
  <2>2. DOMAIN store' = DOMAIN store \ {s} /\ presented' = presented
    BY <2>1 DEF Callback, Consumed, Forget
  <2>3. CASE ~Live(s)
    BY <2>1, <2>2, <2>3, Distinct DEF Callback, TypeOK, StateTakenOnce
  <2>4. CASE Live(s)
    <3>1. s \in Logins /\ s \in DOMAIN store /\ pc[s] = "302"
      BY <2>4 DEF Live, TypeOK, StateTakenOnce
    <3>2. presented[s] = 0 /\ \A w \in Visits : visit[w].state # s
      BY <3>1 DEF StateTakenOnce
    <3>3. visit'[v].state = s /\ \A w \in Visits \ {v} : visit'[w] = visit[w]
      BY <2>1, <2>4 DEF Callback, TypeOK
    <3>4. \A c \in Calls \ {v} : pc'[c] = pc[c]
      BY <2>1, <2>4 DEF Callback, TypeOK
    <3> QED
      BY <2>2, <3>1, <3>2, <3>3, <3>4, Distinct, LoginAssumption DEF StateTakenOnce
  <2> QED
    BY <2>3, <2>4
<1>3. CASE Exchange(v)
  <2>1. visit[v].state \in Logins /\ presented[visit[v].state] = 0
    BY <1>3 DEF Exchange, StateTakenOnce
  <2>2. CASE visit' = [visit EXCEPT ![v] = NoVisit] /\ UNCHANGED <<presented, store>>
             /\ pc' = [pc EXCEPT ![v] = "401"]
    <3>1. visit'[v].state = Unknown /\ \A w \in Visits \ {v} : visit'[w] = visit[w]
      BY <2>2 DEF TypeOK, NoVisit
    <3>2. pc'[v] = "401" /\ \A c \in Calls \ {v} : pc'[c] = pc[c]
      BY <2>2 DEF TypeOK
    <3> QED
      BY <2>2, <3>1, <3>2, Distinct, LoginAssumption DEF StateTakenOnce
  <2>3. CASE /\ UNCHANGED <<visit, store>> /\ pc' = [pc EXCEPT ![v] = "exchanging"]
             /\ presented' = [presented EXCEPT ![visit[v].state] = @ + 1]
    <3>1. pc'[v] = "exchanging" /\ \A c \in Calls \ {v} : pc'[c] = pc[c]
      BY <2>3 DEF TypeOK
    <3>2. \A l \in Logins \ {visit[v].state} : presented'[l] = presented[l]
      BY <2>3 DEF TypeOK
    <3>3. \A w \in Visits \ {v} : visit[w].state # visit[v].state
      BY <2>1, LoginAssumption DEF StateTakenOnce
    <3> QED
      BY <2>1, <2>3, <3>1, <3>2, <3>3, Distinct DEF StateTakenOnce
  <2> QED
    BY <1>3, <2>2, <2>3 DEF Exchange
<1>4. CASE Exchanged(v)
  <2>1. /\ \A w \in Visits \ {v} : visit'[w] = visit[w]
        /\ visit'[v] = visit[v] \/ visit'[v].state = Unknown
    BY <1>4 DEF Exchanged, TypeOK, NoVisit
  <2>2. pc'[v] \in Successes \cup {"503", "401"} /\ \A c \in Calls \ {v} : pc'[c] = pc[c]
    BY <1>4 DEF Exchanged, TypeOK, Successes
  <2>3. UNCHANGED <<store, presented>>
    BY <1>4 DEF Exchanged
  <2> QED
    BY <2>1, <2>2, <2>3, Distinct, LoginAssumption DEF StateTakenOnce, Successes
<1> QED
  BY <1>1, <1>2, <1>3, <1>4

LEMMA WorldTakenOnce ==
  ASSUME TypeOK, StateTakenOnce,
         \/ DiscoveryAnswered \/ DiscoveryLands \/ ServerMoves \/ Tick \/ UNCHANGED vars
         \/ \E l \in Logins : Authorize(l) \/ ServerPushes(l)
         \/ \E v \in Visits : ServerExchanges(v) \/ Lost(v)
  PROVE  StateTakenOnce'
<1>1. CASE DiscoveryLands
  <2>1. /\ UNCHANGED <<store, presented>>
        /\ \A w \in Visits : visit'[w] = visit[w] \/ (visit'[w].state = Unknown /\ pc'[w] # "discovering")
        /\ \A c \in Calls : pc'[c] = pc[c] \/ (pc[c] = "discovering" /\ pc'[c] \in {"401", "503"})
    <3>1. UNCHANGED <<store, presented>>
      BY <1>1 DEF DiscoveryLands
    <3>2. CASE UNCHANGED <<pc, visit>>
      BY <3>1, <3>2
    <3>3. CASE ~UNCHANGED <<pc, visit>>
      <4>1. /\ pc' = [c \in Calls |->
                       IF ~Told(c) THEN pc[c]
                       ELSE IF c \in Visits /\ fetch.is = "refused" THEN "401" ELSE "503"]
            /\ visit' = [v \in Visits |-> IF Told(v) THEN NoVisit ELSE visit[v]]
        BY <1>1, <3>3 DEF DiscoveryLands
      <4>2. \A c \in Calls : pc'[c] = pc[c] \/ (pc[c] = "discovering" /\ pc'[c] \in {"401", "503"})
        BY <4>1 DEF Told, Waiting
      <4>3. ASSUME NEW w \in Visits
            PROVE  visit'[w] = visit[w] \/ (visit'[w].state = Unknown /\ pc'[w] # "discovering")
        BY <4>1, Distinct DEF NoVisit
      <4> QED
        BY <3>1, <4>2, <4>3
    <3> QED
      BY <3>2, <3>3
  <2> QED
    BY <2>1, Distinct, LoginAssumption DEF StateTakenOnce
<1>2. CASE ~DiscoveryLands
  <2>1. UNCHANGED <<pc, visit, presented>> /\ DOMAIN store' = DOMAIN store
    BY <1>2 DEF DiscoveryAnswered, ServerMoves, Tick, vars, Authorize, ServerPushes, ServerExchanges,
       Lost
  <2> QED
    BY <2>1 DEF StateTakenOnce
<1> QED
  BY <1>1, <1>2
-------------------------------------------------------------------------------
(* A callback goes on in time *)

LEMMA LoginInTime ==
  ASSUME TypeOK, StateInTime, NEW l \in Logins, Login(l) \/ Begin(l) \/ Push(l) \/ Pushed(l)
  PROVE  StateInTime'
<1>1. UNCHANGED visit /\ \A v \in Visits : pc'[v] = pc[v]
  BY Distinct DEF Login, Begin, Push, Pushed, Redirect, TypeOK
<1>2. CASE UNCHANGED <<store, age>>
  BY <1>1, <1>2 DEF StateInTime
<1>3. CASE store' = Saved(l) /\ age' = [age EXCEPT ![l] = 0]
  <2>1. /\ DOMAIN store' \subseteq DOMAIN store \cup {l} /\ store'[l] = lifetime(ttlMs)
        /\ \A k \in DOMAIN store' \ {l} : store'[k] = store[k]
    BY <1>3 DEF Saved, Sweep
  <2>2. age'[l] = 0 /\ \A k \in Logins \ {l} : age'[k] = age[k]
    BY <1>3 DEF TypeOK
  <2> QED
    BY <1>1, <2>1, <2>2, LifetimesNat DEF StateInTime, TypeOK
<1> QED
  BY <1>2, <1>3 DEF Login, Begin, Push, Pushed, Redirect

LEMMA VisitInTime ==
  ASSUME TypeOK, StateInTime, NEW v \in Visits,
         \/ CallbackRefused(v) \/ Exchange(v) \/ Exchanged(v)
         \/ \E s \in Logins \cup {Unknown}, k \in Logins \cup {Unknown} : Callback(v, s, k)
  PROVE  StateInTime'
<1> v \in Calls
  BY Distinct
<1>1. CASE CallbackRefused(v)
  BY <1>1 DEF CallbackRefused, StateInTime, TypeOK, Successes
<1>2. CASE \E s \in Logins \cup {Unknown}, k \in Logins \cup {Unknown} : Callback(v, s, k)
  <2>1. PICK s \in Logins \cup {Unknown}, k \in Logins \cup {Unknown} : Callback(v, s, k)
    BY <1>2
  <2>2. /\ DOMAIN store' \subseteq DOMAIN store /\ \A l \in DOMAIN store' : store'[l] = store[l]
        /\ age' = age
    BY <2>1 DEF Callback, Consumed, Forget
  <2>3. \A w \in Visits \ {v} : visit'[w] = visit[w] /\ pc'[w] = pc[w]
    BY <2>1, Distinct DEF Callback, TypeOK
  <2>4. CASE ~Live(s)
    BY <2>1, <2>2, <2>3, <2>4 DEF Callback, StateInTime, TypeOK, Successes
  <2>5. CASE Live(s)
    <3>1. s \in Logins /\ age[s] \in Nat /\ store[s] \in Nat /\ store[s] > 0
          /\ age[s] + store[s] <= OIDC_STATE_TTL_MS
      BY <2>5, LifetimesNat DEF Live, StateInTime, TypeOK
    <3>2. age[s] < OIDC_STATE_TTL_MS
      BY <3>1, LifetimesNat
    <3>3. visit'[v].inTime
      <4>1. (age[s] < OIDC_STATE_TTL_MS) = TRUE
        BY <3>2
      <4>2. visit' = [visit EXCEPT ![v] = [state |-> s, code |-> k, inTime |-> TRUE]]
        BY <2>1, <2>5, <4>1 DEF Callback
      <4> QED
        BY <4>2 DEF TypeOK
    <3> QED
      BY <2>2, <2>3, <3>3 DEF StateInTime
  <2> QED
    BY <2>4, <2>5
<1>3. CASE Exchange(v)
  BY <1>3, Distinct DEF Exchange, StateInTime, TypeOK, Successes
<1>4. CASE Exchanged(v)
  BY <1>4, Distinct DEF Exchanged, StateInTime, TypeOK, Successes
<1> QED
  BY <1>1, <1>2, <1>3, <1>4

LEMMA WorldInTime ==
  ASSUME TypeOK, StateInTime,
         \/ DiscoveryAnswered \/ DiscoveryLands \/ ServerMoves \/ Tick \/ UNCHANGED vars
         \/ \E l \in Logins : Authorize(l) \/ ServerPushes(l)
         \/ \E v \in Visits : ServerExchanges(v) \/ Lost(v)
  PROVE  StateInTime'
<1>1. CASE DiscoveryLands
  <2>1. UNCHANGED <<store, age>>
    BY <1>1 DEF DiscoveryLands
  <2>2. \A v \in Visits : pc'[v] \in Successes \cup {"discovering", "exchanging"} =>
                            pc'[v] = pc[v] /\ visit'[v] = visit[v]
    <3>1. CASE UNCHANGED <<pc, visit>>
      BY <3>1
    <3>2. CASE ~UNCHANGED <<pc, visit>>
      BY <1>1, <3>2, Distinct DEF DiscoveryLands, Successes
    <3> QED
      BY <3>1, <3>2
  <2> QED
    BY <2>1, <2>2 DEF StateInTime
<1>2. CASE Tick
  <2>1. ASSUME NEW l \in DOMAIN store', store'[l] > 0
        PROVE  age'[l] + store'[l] <= OIDC_STATE_TTL_MS
    <3>1. l \in DOMAIN store /\ l \in Logins /\ store'[l] = Down(store[l])
          /\ age'[l] = Lower(age[l] + 1, OIDC_STATE_TTL_MS)
      BY <1>2, <2>1 DEF Tick, TypeOK
    <3>2. store[l] \in Nat /\ age[l] \in Nat
      BY <3>1, LifetimesNat DEF TypeOK
    <3> QED
      BY <2>1, <3>1, <3>2, LifetimesNat DEF StateInTime, Down, Lower
  <2> QED
    BY <1>2, <2>1 DEF Tick, StateInTime
<1>3. CASE ~DiscoveryLands /\ ~Tick
  <2>1. UNCHANGED <<pc, visit, store, age>>
    BY <1>3 DEF DiscoveryAnswered, ServerMoves, vars, Authorize, ServerPushes, ServerExchanges, Lost
  <2> QED
    BY <2>1 DEF StateInTime
<1> QED
  BY <1>1, <1>2, <1>3

-------------------------------------------------------------------------------
(* An answer is about the code that was sent *)

LEMMA LoginAnswerFits ==
  ASSUME TypeOK, AnswerFits, NEW l \in Logins, Login(l) \/ Begin(l) \/ Push(l) \/ Pushed(l)
  PROVE  AnswerFits'
<1>1. UNCHANGED visit /\ \A v \in Visits : pc'[v] = pc[v] /\ wire'[v] = wire[v]
  BY Distinct DEF Login, Begin, Push, Pushed, Redirect, TypeOK
<1> QED
  BY <1>1 DEF AnswerFits

LEMMA VisitAnswerFits ==
  ASSUME TypeOK, StateTakenOnce, AnswerFits, NEW v \in Visits,
         \/ CallbackRefused(v) \/ Exchange(v) \/ Exchanged(v)
         \/ \E s \in Logins \cup {Unknown}, k \in Logins \cup {Unknown} : Callback(v, s, k)
  PROVE  AnswerFits'
<1>1. \A w \in Visits \ {v} : pc'[w] = pc[w] /\ wire'[w] = wire[w] /\ visit'[w] = visit[w]
  BY Distinct DEF CallbackRefused, Callback, Exchange, Exchanged, TypeOK
<1> v \in Calls
  BY Distinct
<1>2. CASE CallbackRefused(v) \/ \E s \in Logins \cup {Unknown}, k \in Logins \cup {Unknown} : Callback(v, s, k)
  <2>1. wire'[v] = Quiet /\ pc'[v] # "exchanging"
    BY <1>2 DEF CallbackRefused, Callback, AnswerFits, TypeOK
  <2> QED
    BY <1>1, <2>1 DEF AnswerFits, Quiet, Answer
<1>3. CASE Exchange(v)
  <2>1. visit[v].state \in Logins
    BY <1>3 DEF Exchange, StateTakenOnce
  <2>2. \/ pc'[v] = "401" /\ wire'[v] = Quiet
        \/ pc'[v] = "exchanging" /\ wire'[v] = Request /\ visit'[v] = visit[v]
    BY <1>3 DEF Exchange, AnswerFits, TypeOK
  <2> QED
    BY <1>1, <2>1, <2>2 DEF AnswerFits, Quiet, Request, Answer
<1>4. CASE Exchanged(v)
  <2>1. wire'[v] = Quiet /\ pc'[v] # "exchanging"
    BY <1>4 DEF Exchanged, TypeOK
  <2> QED
    BY <1>1, <2>1 DEF AnswerFits, Quiet, Answer
<1> QED
  BY <1>2, <1>3, <1>4

LEMMA WorldAnswerFits ==
  ASSUME TypeOK, AnswerFits,
         \/ DiscoveryAnswered \/ DiscoveryLands \/ ServerMoves \/ Tick \/ UNCHANGED vars
         \/ \E l \in Logins : Authorize(l) \/ ServerPushes(l)
         \/ \E v \in Visits : ServerExchanges(v) \/ Lost(v)
  PROVE  AnswerFits'
<1>1. CASE DiscoveryLands
  <2>1. ASSUME NEW v \in Visits
        PROVE  /\ wire'[v] = wire[v]
               /\ \/ pc'[v] = pc[v] /\ visit'[v] = visit[v]
                  \/ pc[v] = "discovering" /\ pc'[v] \in {"401", "503"}
    <3>1. CASE UNCHANGED <<pc, visit>>
      BY <1>1, <3>1 DEF DiscoveryLands
    <3>2. CASE ~UNCHANGED <<pc, visit>>
      BY <1>1, <3>2, Distinct DEF DiscoveryLands, Told, Waiting
    <3> QED
      BY <3>1, <3>2
  <2> QED
    BY <2>1 DEF AnswerFits, Quiet, Answer
<1>2. CASE \E v \in Visits : ServerExchanges(v)
  <2>1. PICK v \in Visits : ServerExchanges(v)
    BY <1>2
  <2>2. /\ UNCHANGED <<pc, visit>> /\ pc[v] = "exchanging"
        /\ \A w \in Visits \ {v} : wire'[w] = wire[w]
    BY <2>1, Distinct DEF ServerExchanges, TypeOK
  <2>3. /\ wire'[v].is = "tokens" => wire'[v].id.nonce = visit[v].code
        /\ wire'[v].is = "opaque" => visit[v].state = visit[v].code
    BY <2>1, Distinct DEF ServerExchanges, Tokens, Answer, TypeOK
  <2> QED
    BY <2>2, <2>3 DEF AnswerFits
<1>3. CASE \E v \in Visits : Lost(v)
  <2>1. PICK v \in Visits : Lost(v)
    BY <1>3
  <2>2. /\ UNCHANGED <<pc, visit>> /\ pc[v] = "exchanging" /\ wire'[v].is = "nothing"
        /\ \A w \in Visits \ {v} : wire'[w] = wire[w]
    BY <2>1, Distinct DEF Lost, Answer, TypeOK
  <2> QED
    BY <2>2 DEF AnswerFits
<1>4. CASE \E l \in Logins : Authorize(l) \/ ServerPushes(l)
  <2>1. UNCHANGED <<pc, visit>> /\ \A v \in Visits : wire'[v] = wire[v]
    BY <1>4, Distinct DEF Authorize, ServerPushes, TypeOK
  <2> QED
    BY <2>1 DEF AnswerFits
<1>5. CASE DiscoveryAnswered \/ ServerMoves \/ Tick \/ UNCHANGED vars
  BY <1>5 DEF DiscoveryAnswered, ServerMoves, Tick, vars, AnswerFits
<1> QED
  BY <1>1, <1>2, <1>3, <1>4, <1>5
-------------------------------------------------------------------------------
(* A replaced document is young, and a failure is known *)

\* Asking for the document starts no fetch but a new one, and hands out no old
\* document but a fresh one.
LEMMA DiscoverYoung ==
  ASSUME TypeOK, OldIsYoung, FailureIsKnown, NEW c \in Calls, Discover(c)
  PROVE  /\ fetch' = fetch \/ fetch' = [is |-> "asked", left |-> Timeout]
         /\ fetch'.is # "none" => ~landed'
         /\ \A d \in Calls : (conf'[d] = Old /\ conf[d] # Old) =>
                              since <= discoveryLifetime + Timeout
<1>1. CASE Fresh /\ conf' = [conf EXCEPT ![c] = document.is] /\ UNCHANGED <<fetch, landed>>
  <2>1. document.left \in Nat /\ since \in Nat
    BY DEF TypeOK, Held
  <2>2. document.is = Old => since <= discoveryLifetime + Timeout
    BY <1>1, <2>1, LifetimesNat DEF OldIsYoung, Fresh
  <2> QED
    BY <1>1, <2>2 DEF FailureIsKnown, TypeOK
<1>2. CASE UNCHANGED <<conf, fetch, landed>>
  BY <1>2 DEF FailureIsKnown
<1>3. CASE fetch' = [is |-> "asked", left |-> Timeout] /\ landed' = FALSE /\ UNCHANGED conf
  BY <1>3
<1> QED
  BY <1>1, <1>2, <1>3 DEF Discover

\* A call's step leaves a replaced document as young as its time left says.
LEMMA CallYoung ==
  ASSUME TypeOK, OldIsYoung, FailureIsKnown, NEW c \in Calls,
         \/ c \in Logins /\ (Login(c) \/ Begin(c) \/ Push(c) \/ Pushed(c))
         \/ c \in Visits /\ (CallbackRefused(c) \/ Exchange(c) \/ Exchanged(c))
         \/ c \in Visits /\ \E s \in Logins \cup {Unknown}, k \in Logins \cup {Unknown} : Callback(c, s, k)
  PROVE  /\ OldIsYoung'
         /\ fetch'.is # "none" => ~landed'
         /\ \A d \in Calls : (conf'[d] = Old /\ conf[d] # Old) =>
                              since <= discoveryLifetime + Timeout
<1>1. UNCHANGED <<document, server, since>>
  BY DEF Login, Begin, Push, Pushed, CallbackRefused, Callback, Exchange, Exchanged
<1>2. CASE Discover(c)
  <2>1. fetch' = fetch \/ fetch'.is = "asked"
    BY <1>2, DiscoverYoung
  <2> QED
    BY <1>1, <1>2, <2>1, DiscoverYoung DEF OldIsYoung, Old
<1>3. CASE /\ UNCHANGED <<fetch, landed>>
           /\ \A d \in Calls : conf'[d] = conf[d] \/ conf'[d] = "none"
  BY <1>1, <1>3 DEF OldIsYoung, FailureIsKnown, Old
<1>4. Discover(c) \/ /\ UNCHANGED <<fetch, landed>>
                     /\ \A d \in Calls : conf'[d] = conf[d] \/ conf'[d] = "none"
  BY DEF Login, Begin, Push, Pushed, CallbackRefused, Callback, Exchange, Exchanged, TypeOK
<1> QED
  BY <1>2, <1>3, <1>4

LEMMA WorldYoung ==
  ASSUME TypeOK, OldIsYoung, FailureIsKnown,
         \/ DiscoveryAnswered \/ DiscoveryLands \/ ServerMoves \/ Tick \/ UNCHANGED vars
         \/ \E l \in Logins : Authorize(l) \/ ServerPushes(l)
         \/ \E v \in Visits : ServerExchanges(v) \/ Lost(v)
  PROVE  /\ OldIsYoung'
         /\ fetch'.is # "none" => ~landed'
         /\ \A d \in Calls : (conf'[d] = Old /\ conf[d] # Old) =>
                              since <= discoveryLifetime + Timeout
<1> USE DEF FailureIsKnown
<1>0. /\ since \in Nat /\ document.left \in Nat /\ fetch.left \in 0 .. Timeout
      /\ server.version \in {Old, New}
  BY DEF TypeOK, Held, Fetching, Versions
<1>1. CASE DiscoveryAnswered
  <2>1. /\ fetch'.is \in {server.version, "bad", "refused", "nothing"} /\ fetch'.left = fetch.left
        /\ fetch.is = "asked" /\ UNCHANGED <<document, server, since, conf, landed>>
    BY <1>1 DEF DiscoveryAnswered, TypeOK, Fetching
  <2> QED
    BY <1>0, <2>1, LifetimesNat DEF OldIsYoung, Old, New
<1>2. CASE DiscoveryLands
  <2>1. UNCHANGED <<server, since>> /\ fetch'.is = "none"
        /\ \/ document' = [is |-> fetch.is, left |-> discoveryLifetime]
           \/ document' = document
        /\ \A d \in Calls : conf'[d] = conf[d] \/ conf'[d] = fetch.is
    BY <1>2 DEF DiscoveryLands, Settled, NoFetch, TypeOK
  <2>2. fetch.is = Old => since <= Timeout
    BY <1>0, LifetimesNat DEF OldIsYoung
  <2> QED
    BY <1>0, <2>1, <2>2, LifetimesNat DEF OldIsYoung, Old
<1>3. CASE ServerMoves
  <2>1. UNCHANGED <<document, fetch, since, conf, landed>> /\ since = 0
    BY <1>3 DEF ServerMoves, OldIsYoung
  <2>2. server'.version = New
    BY <1>3 DEF ServerMoves, TypeOK
  <2> QED
    BY <1>0, <2>1, <2>2, LifetimesNat DEF OldIsYoung, Old, New
<1>4. CASE Tick
  <2>1. /\ UNCHANGED <<server, conf, landed>>
        /\ document'.is = document.is /\ document'.left = Down(document.left)
        /\ fetch'.is = fetch.is /\ fetch'.left = Down(fetch.left)
        /\ fetch.is = Old => fetch.left > 0
    BY <1>4 DEF Tick, TypeOK, Held, Fetching, NoFetch, Old
  <2>2. \/ since' = 0
        \/ since' <= since + 1 /\ since' \in Nat /\ server.version # Old
    BY <1>0, <1>4, LifetimesNat DEF Tick, Lower
  <2>3. server.version = Old => since' = 0
    BY <1>4 DEF Tick
  <2> QED
    BY <1>0, <2>1, <2>2, <2>3, LifetimesNat DEF OldIsYoung, Down
<1>5. CASE ~DiscoveryAnswered /\ ~DiscoveryLands /\ ~ServerMoves /\ ~Tick
  <2>1. UNCHANGED <<document, fetch, server, since, conf, landed>>
    BY <1>5 DEF vars, Authorize, ServerPushes, ServerExchanges, Lost
  <2> QED
    BY <2>1 DEF OldIsYoung
<1> QED
  BY <1>1, <1>2, <1>3, <1>4, <1>5

\* A 503 is a failure of the call's own, or of a fetch it waited for, or a page.
LEMMA UnavailableStep ==
  ASSUME TypeOK, FailureIsKnown, [Next]_vars
  PROVE  \A c \in Calls : pc[c] # "503" /\ pc'[c] = "503" =>
            c \in failed' \/ (c \in Logins /\ conf[c] = "bad")
<1> USE DEF FailureIsKnown
<1> DEFINE True503 == \A c \in Calls : pc[c] # "503" /\ pc'[c] = "503" =>
                          c \in failed' \/ (c \in Logins /\ conf[c] = "bad")
<1>1. ASSUME NEW l \in Logins, Login(l) \/ Begin(l) \/ Push(l) \/ Pushed(l)
      PROVE  True503
  BY <1>1, Distinct DEF Login, Begin, Push, Pushed, Redirect, TypeOK
<1>2. ASSUME NEW v \in Visits,
             \/ CallbackRefused(v) \/ Exchange(v) \/ Exchanged(v)
             \/ \E s \in Logins \cup {Unknown}, k \in Logins \cup {Unknown} : Callback(v, s, k)
      PROVE  True503
  BY <1>2, Distinct DEF CallbackRefused, Callback, Exchange, Exchanged, TypeOK
<1>3. CASE DiscoveryLands
  <2>1. ~landed /\ failed' = failed \cup {c \in Calls : Waiting(c) /\ fetch.is \notin Versions}
    BY <1>3 DEF DiscoveryLands
  <2>2. \A c \in Calls : \/ pc'[c] = pc[c]
                         \/ Waiting(c) /\ fetch.is \notin Documents
    BY <1>3 DEF DiscoveryLands, Told
  <2> QED
    BY <2>1, <2>2 DEF Documents
<1>4. CASE \/ DiscoveryAnswered \/ ServerMoves \/ Tick \/ UNCHANGED vars
           \/ \E l \in Logins : Authorize(l) \/ ServerPushes(l)
           \/ \E v \in Visits : ServerExchanges(v) \/ Lost(v)
  BY <1>4 DEF DiscoveryAnswered, ServerMoves, Tick, vars, Authorize, ServerPushes, ServerExchanges, Lost
<1> QED
  BY <1>1, <1>2, <1>3, <1>4 DEF Next

\* No verifier is sent a second time.
LEMMA VerifierStep ==
  ASSUME TypeOK, StateTakenOnce, VerifierSentOnce, [Next]_vars
  PROVE  VerifierSentOnce'
<1>1. CASE \E v \in Visits : Exchange(v)
  <2>1. PICK v \in Visits : Exchange(v)
    BY <1>1
  <2>2. visit[v].state \in Logins /\ presented[visit[v].state] = 0
    BY <2>1 DEF Exchange, StateTakenOnce
  <2> QED
    BY <2>1, <2>2 DEF Exchange, VerifierSentOnce, TypeOK
<1>2. CASE ~ \E v \in Visits : Exchange(v)
  <2>1. presented' = presented
    BY <1>2 DEF Next, Login, Begin, Push, Pushed, CallbackRefused, Callback, Exchanged, DiscoveryAnswered,
       DiscoveryLands, Authorize, ServerPushes, ServerExchanges, Lost, ServerMoves, Tick, vars
  <2> QED
    BY <2>1 DEF VerifierSentOnce
<1> QED
  BY <1>1, <1>2

\* A callback that succeeds has its own code and is in time.
LEMMA SuccessStep ==
  ASSUME TypeOK, StateInTime, AnswerFits, SuccessIsItsOwn, [Next]_vars
  PROVE  SuccessIsItsOwn'
<1> SUFFICES ASSUME NEW v \in Visits, pc'[v] \in Successes
             PROVE  visit'[v].inTime /\ (visit'[v].state = visit'[v].code \/ pc'[v] = "hollow")
  BY DEF SuccessIsItsOwn
<1>1. CASE Exchanged(v)
  <2>1. visit' = visit /\ pc[v] = "exchanging"
        /\ \/ wire[v].is = "opaque" \/ pc'[v] = "hollow"
           \/ wire[v].is = "tokens" /\ wire[v].id.nonce = visit[v].state
    BY <1>1, Distinct DEF Exchanged, verifyIdToken, nonceMatches, TypeOK, Successes
  <2> QED
    BY <2>1 DEF AnswerFits, StateInTime
<1>2. CASE ~Exchanged(v)
  <2>1. pc'[v] = pc[v] /\ visit'[v] = visit[v]
    <3>1. ASSUME NEW l \in Logins, Login(l) \/ Begin(l) \/ Push(l) \/ Pushed(l)
          PROVE  pc'[v] = pc[v] /\ visit' = visit
      BY <3>1, Distinct DEF Login, Begin, Push, Pushed, Redirect, TypeOK
    <3>2. ASSUME NEW w \in Visits \ {v},
                 \/ CallbackRefused(w) \/ Exchange(w) \/ Exchanged(w)
                 \/ \E s \in Logins \cup {Unknown}, k \in Logins \cup {Unknown} : Callback(w, s, k)
          PROVE  pc'[v] = pc[v] /\ visit'[v] = visit[v]
      BY <3>2, Distinct DEF CallbackRefused, Callback, Exchange, Exchanged, TypeOK
    <3>3. \/ CallbackRefused(v) \/ Exchange(v)
          \/ \E s \in Logins \cup {Unknown}, k \in Logins \cup {Unknown} : Callback(v, s, k)
          => pc'[v] \notin Successes
      BY Distinct DEF CallbackRefused, Callback, Exchange, TypeOK, Successes
    <3>4. CASE DiscoveryLands
      <4>1. CASE UNCHANGED <<pc, visit>>
        BY <4>1
      <4>2. CASE ~UNCHANGED <<pc, visit>>
        BY <3>4, <4>2, Distinct DEF DiscoveryLands, Successes
      <4> QED
        BY <4>1, <4>2
    <3>5. CASE \/ DiscoveryAnswered \/ ServerMoves \/ Tick \/ UNCHANGED vars
               \/ \E l \in Logins : Authorize(l) \/ ServerPushes(l)
               \/ \E w \in Visits : ServerExchanges(w) \/ Lost(w)
      BY <3>5 DEF DiscoveryAnswered, ServerMoves, Tick, vars, Authorize, ServerPushes,
         ServerExchanges, Lost
    <3> QED
      BY <1>2, <3>1, <3>2, <3>3, <3>4, <3>5 DEF Next
  <2> QED
    BY <2>1 DEF SuccessIsItsOwn
<1> QED
  BY <1>1, <1>2
-------------------------------------------------------------------------------

\* A login starts with no state saved and no fetch under way.
LEMMA LoginInvInit == Init => LoginInv
<1> SUFFICES ASSUME Init PROVE LoginInv
  OBVIOUS
<1>1. StateTakenOnce
  BY Distinct, LoginAssumption DEF Init, StateTakenOnce, NoVisit
<1>2. StateInTime /\ AnswerFits /\ SuccessIsItsOwn
  BY Distinct DEF Init, StateInTime, AnswerFits, SuccessIsItsOwn, Successes, Quiet, Answer
<1>3. OldIsYoung /\ FailureIsKnown
  BY <1>2, LifetimesNat DEF Init, OldIsYoung, FailureIsKnown, NoDocument, NoFetch, Old
<1>4. VerifierSentOnce
  <2> SUFFICES ASSUME NEW l \in Logins PROVE presented[l] <= 1
    BY DEF VerifierSentOnce
  <2>1. presented[l] = 0
    BY DEF Init
  <2> QED
    BY <2>1, SMT
<1> QED
  BY <1>1, <1>2, <1>3, <1>4 DEF LoginInv

\* Every step keeps what it rests on, and hands out no document that is too old.
LEMMA LoginInvStep ==
  ASSUME TypeOK, LoginInv, [Next]_vars
  PROVE  /\ LoginInv'
         /\ \A c \in Calls : conf'[c] = Old /\ conf[c] # Old =>
                             since <= discoveryLifetime + Timeout
         /\ \A c \in Calls : pc[c] # "503" /\ pc'[c] = "503" =>
                             c \in failed' \/ (c \in Logins /\ conf[c] = "bad")
<1> USE DEF LoginInv
<1>1. ASSUME NEW l \in Logins, Login(l) \/ Begin(l) \/ Push(l) \/ Pushed(l)
      PROVE  /\ StateTakenOnce' /\ StateInTime' /\ AnswerFits' /\ OldIsYoung'
             /\ fetch'.is # "none" => ~landed'
             /\ \A c \in Calls : conf'[c] = Old /\ conf[c] # Old =>
                                 since <= discoveryLifetime + Timeout
  BY <1>1, LoginTakenOnce, LoginInTime, LoginAnswerFits, CallYoung, Distinct
<1>2. ASSUME NEW v \in Visits,
             \/ CallbackRefused(v) \/ Exchange(v) \/ Exchanged(v)
             \/ \E s \in Logins \cup {Unknown}, k \in Logins \cup {Unknown} : Callback(v, s, k)
      PROVE  /\ StateTakenOnce' /\ StateInTime' /\ AnswerFits' /\ OldIsYoung'
             /\ fetch'.is # "none" => ~landed'
             /\ \A c \in Calls : conf'[c] = Old /\ conf[c] # Old =>
                                 since <= discoveryLifetime + Timeout
  BY <1>2, VisitTakenOnce, VisitInTime, VisitAnswerFits, CallYoung, Distinct
<1>3. CASE \/ DiscoveryAnswered \/ DiscoveryLands \/ ServerMoves \/ Tick \/ UNCHANGED vars
           \/ \E l \in Logins : Authorize(l) \/ ServerPushes(l)
           \/ \E v \in Visits : ServerExchanges(v) \/ Lost(v)
  BY <1>3, WorldTakenOnce, WorldInTime, WorldAnswerFits, WorldYoung, UnavailableStep, VerifierStep,
     SuccessStep DEF FailureIsKnown
<1> QED
  BY <1>1, <1>2, <1>3, UnavailableStep, VerifierStep, SuccessStep DEF FailureIsKnown, Next

\* The inductive invariant of the login holds of every execution.
THEOREM LoginCorrect == Spec => []LoginInv
<1>1. TypeOK /\ LoginInv /\ [Next]_vars => LoginInv'
  BY LoginInvStep
<1> QED
  BY <1>1, LoginInvInit, LoginTypeCorrect, PTL DEF Spec

\* A callback succeeds only in time and with the code of the login whose state it
\* brought, but on a 200 without an ID token from where no verifier was checked,
\* however many logins and callbacks cross (completeOidcLogin).
THEOREM NoCrossedLogin == Spec => []SuccessIsItsOwn
<1>1. LoginInv => SuccessIsItsOwn
  BY DEF LoginInv
<1> QED
  BY <1>1, LoginCorrect, PTL

\* No login's verifier is sent twice (MemoryOidcStateStore.consume).
THEOREM VerifierOnce == Spec => []VerifierSentOnce
<1>1. LoginInv => VerifierSentOnce
  BY DEF LoginInv
<1> QED
  BY <1>1, LoginCorrect, PTL

\* No call is answered 503 for a failure it did not meet, but a login that is given
\* a page in place of the document (DiscoveryCache.get, beginOidcLogin).
THEOREM NoStaleFailure == Spec => UnavailableIsTrue
<1>1. TypeOK /\ LoginInv /\ [Next]_vars =>
        [\A c \in Calls : pc[c] # "503" /\ pc'[c] = "503" =>
            c \in failed' \/ (c \in Logins /\ conf[c] = "bad")]_vars
  BY LoginInvStep
<1> QED
  BY <1>1, LoginTypeCorrect, LoginCorrect, PTL DEF Spec, UnavailableIsTrue

\* No replaced document is used later than its lifetime and a timeout after
\* (DiscoveryCache.get).
THEOREM DocumentForgotten == Spec => OldDocumentForgotten
<1>1. TypeOK /\ LoginInv /\ [Next]_vars =>
        [\A c \in Calls : conf'[c] = Old /\ conf[c] # Old =>
            since <= discoveryLifetime + Timeout]_vars
  BY LoginInvStep
<1> QED
  BY <1>1, LoginTypeCorrect, LoginCorrect, PTL DEF Spec, OldDocumentForgotten
===============================================================================
